-------------------------- MODULE MediaPath_proofs ---------------------------
(***************************************************************************)
(* Proofs about MediaPath, for every file, every set of devices and every  *)
(* size of buffers and blocks that the assumptions allow.                  *)
(***************************************************************************)
EXTENDS MediaProperties, FiniteSetTheorems, FunctionTheorems, SequenceTheorems,
        WellFoundedInduction, TLAPS
-----------------------------------------------------------------------------
(***************************************************************************)
(* Minima, and division.                                                   *)
(***************************************************************************)

\* The greater of two numbers.
LEMMA MaxOfTwo ==
  ASSUME NEW a \in Int, NEW b \in Int
  PROVE  Max({a, b}) = IF a >= b THEN a ELSE b
BY DEF Max

\* The smaller of two numbers.
LEMMA MinOfTwo ==
  ASSUME NEW a \in Int, NEW b \in Int
  PROVE  Min({a, b}) = IF a <= b THEN a ELSE b
BY DEF Min

\* Numbers have a smallest.
LEMMA MinOfNats ==
  ASSUME NEW S, S \subseteq Nat, S # {}
  PROVE  Min(S) \in S /\ \A y \in S : Min(S) <= y
<1>1. PICK x \in S : \A y \in S : <<y, x>> \notin OpToRel(<, Nat)
  BY NatLessThanWellFounded, WFMin
<1>2. \A y \in S : ~(y < x)
  BY <1>1, Zenon DEF OpToRel
<1>3. \A y \in S : x <= y
  BY <1>2
<1> QED
  BY <1>3 DEF Min

\* Quotient and remainder.
LEMMA Division ==
  ASSUME NEW a \in Int, NEW b \in Nat \ {0}
  PROVE  /\ a \div b \in Int
         /\ a % b \in 0..(b - 1)
         /\ a = b * (a \div b) + (a % b)
<1>1. a \div b \in Int
  OBVIOUS
<1>2. a % b \in 0..(b - 1)
  OBVIOUS
<1>3. a % b = a - b * (a \div b)
  OBVIOUS
<1>4. PICK p \in Int : p = b * (a \div b)
  OBVIOUS
<1>5. PICK r \in Int : r = a % b
  OBVIOUS
<1>6. a = p + r
  BY <1>3, <1>4, <1>5
<1> QED
  BY <1>1, <1>2, <1>4, <1>5, <1>6

\* They are the only ones.
LEMMA DivisionUnique ==
  ASSUME NEW q \in Int, NEW b \in Nat \ {0}, NEW r \in 0..(b - 1)
  PROVE  (b * q + r) \div b = q /\ (b * q + r) % b = r
<1>1. (b * q + r) \div b = q
  OBVIOUS
<1>2. (b * q + r) % b = r
  OBVIOUS
<1> QED
  BY <1>1, <1>2

\* Products grow with their factors.
LEMMA Times ==
  ASSUME NEW a \in Int, NEW b \in Int, NEW d \in Nat, a <= b
  PROVE  a * d <= b * d
OBVIOUS

\* CeilDiv(n, d) is the number of multiples of d from 0 that are less than n.
LEMMA CeilDivides ==
  ASSUME NEW n \in Nat, NEW d \in Nat \ {0}
  PROVE  /\ CeilDiv(n, d) \in Nat
         /\ \A k \in Nat : k < CeilDiv(n, d) <=> k * d < n
<1>0. PICK a \in Int : a = n + d - 1
  OBVIOUS
<1>1. PICK q \in Int, r \in 0..(d - 1) : q = a \div d /\ a = d * q + r
  BY <1>0, Division
<1>5. CeilDiv(n, d) = q
  BY <1>0, <1>1 DEF CeilDiv
<1>2. q \in Nat
  <2>1. CASE q <= -1
    <3>1. PICK p \in Int : p = d * q /\ p <= -d
      BY <1>1, <2>1
    <3> QED
      BY <1>0, <1>1, <3>1
  <2> QED
    BY <1>1, <2>1
<1>3. ASSUME NEW k \in Nat, k < q
      PROVE  k * d < n
  <2>1. (k + 1) * d <= q * d
    BY <1>2, <1>3, Times
  <2>2. (k + 1) * d = k * d + d /\ q * d = d * q
    BY <1>2
  <2> QED
    BY <1>0, <1>1, <1>2, <2>1, <2>2
<1>4. ASSUME NEW k \in Nat, q <= k
      PROVE  n <= k * d
  <2>1. q * d <= k * d
    BY <1>2, <1>4, Times
  <2> QED
    BY <1>0, <1>1, <1>2, <2>1
<1>6. ASSUME NEW k \in Nat
      PROVE  k < q <=> k * d < n
  BY <1>2, <1>3, <1>4
<1> QED
  BY <1>2, <1>5, <1>6
-----------------------------------------------------------------------------
(***************************************************************************)
(* Types.                                                                  *)
(***************************************************************************)

\* The codec is open and the loop has not ended.
Opened == Running \cup {"prepared"}

TypeInv ==
  /\ file \in Files /\ prefs \in Preferences
  /\ phase \in Final \cup Opened \cup {"new"}
  /\ reader \in [pos : Nat, win : Nat] /\ reader.pos <= reader.win
  /\ wav \in [total : Nat, position : Nat]
  /\ block \in Seq(Nat) /\ Len(block) <= BlockFrames
  /\ decoded \in Nat /\ dropped \in Nat /\ failed \in BOOLEAN
  /\ seeks \in Nat /\ rebinds \in Nat
  /\ phase \in Opened => Parses(file)

\* What the header parser has checked of a file that it opens.
LEMMA ParsedFile ==
  ASSUME NEW f \in Files, Parses(f)
  PROVE  /\ BytesPerFrame(f) \in Nat \ {0}
         /\ Channels(f) \in 1..8
         /\ TotalFrames(f) \in Nat
         /\ f.size \in Nat
<1>1. Depth(f) \div 8 \in 1..4
  BY DEF Parses
<1>2. Channels(f) \in 1..8
  BY DEF Parses
<1>3. BytesPerFrame(f) \in Nat \ {0}
  <2>1. PICK a \in 1..8 : a = Channels(f)
    BY <1>2
  <2>2. PICK b \in 1..4 : b = Depth(f) \div 8
    BY <1>1
  <2>3. a * b \in Nat \ {0}
    OBVIOUS
  <2> QED
    BY <2>1, <2>2, <2>3 DEF BytesPerFrame
<1>4. f.size \in Nat /\ f.chunks \in Seq([id : STRING, len : Nat])
  BY InputAssumption
<1>5. DataChunk(f) \in DOMAIN f.chunks
  <2>1. DataChunks(f) \subseteq Nat /\ DataChunks(f) # {}
    BY <1>4, SMTT(60) DEF DataChunks, Parses
  <2>2. DataChunk(f) \in DataChunks(f)
    BY <2>1, MinOfNats DEF DataChunk
  <2> QED
    BY <2>2 DEF DataChunks
<1>6. f.chunks[DataChunk(f)].len \in Nat
  <2>1. PICK i : i = DataChunk(f) /\ i \in DOMAIN f.chunks
    BY <1>5
  <2>2. PICK cs \in Seq([id : STRING, len : Nat]) : cs = f.chunks
    BY <1>4
  <2>3. i \in 1..Len(cs)
    BY <2>1, <2>2
  <2>4. cs[i] \in [id : STRING, len : Nat]
    BY <2>2, <2>3, ElementOfSeq
  <2> QED
    BY <2>1, <2>2, <2>4
<1>7. TotalFrames(f) \in Nat
  <2>1. PICK n \in Nat : n = f.chunks[DataChunk(f)].len
    BY <1>6
  <2>2. PICK b \in Nat \ {0} : b = BytesPerFrame(f)
    BY <1>3
  <2>3. n \div b \in Nat
    OBVIOUS
  <2> QED
    BY <2>1, <2>2, <2>3 DEF TotalFrames
<1> QED
  BY <1>2, <1>3, <1>4, <1>7

\* The buffer as the next call of the read callback finds it, once it is filled.
FilledTo(r, size) ==
  IF r.win > r.pos THEN r.win
  ELSE IF r.pos + BufCap <= size THEN r.pos + BufCap
  ELSE IF r.pos <= size THEN size ELSE r.pos

\* What one call of the read callback returns.
LEMMA ReadBytesResult ==
  ASSUME NEW r \in [pos : Nat, win : Nat], NEW n \in Nat, NEW size \in Nat, r.pos <= r.win
  PROVE  /\ FilledTo(r, size) \in Nat /\ r.pos <= FilledTo(r, size)
         /\ ReadBytes(r, n, size).got = IF n <= FilledTo(r, size) - r.pos
                                        THEN n ELSE FilledTo(r, size) - r.pos
         /\ ReadBytes(r, n, size).reader =
              [pos |-> r.pos + ReadBytes(r, n, size).got, win |-> FilledTo(r, size)]
<1>1. BufCap \in Nat
  BY BufCapAssumption
<1>2. PICK w \in Nat : w = FilledTo(r, size) /\ r.pos <= w
  BY <1>1 DEF FilledTo
<1>3. FillBuf(r, size) = [pos |-> r.pos, win |-> w]
  <2>1. CASE r.win > r.pos
    BY <1>2, <2>1 DEF FillBuf, FilledTo
  <2>2. CASE ~(r.win > r.pos)
    <3>1. PICK m \in Nat : m = IF r.pos + BufCap <= size THEN r.pos + BufCap ELSE size
      BY <1>1
    <3>2. Min({r.pos + BufCap, size}) = m
      BY <1>1, <3>1, MinOfTwo
    <3>3. Max({r.pos, m}) = w
      BY <1>1, <1>2, <2>2, <3>1, MaxOfTwo DEF FilledTo
    <3> QED
      BY <2>2, <3>2, <3>3 DEF FillBuf
  <2> QED
    BY <2>1, <2>2
<1>4. PICK g \in Nat : g = IF n <= w - r.pos THEN n ELSE w - r.pos
  BY <1>2
<1>5. Min({n, w - r.pos}) = g
  BY <1>2, <1>4, MinOfTwo
<1>6. ReadBytes(r, n, size) = [got |-> g, reader |-> [pos |-> r.pos + g, win |-> w]]
  BY <1>3, <1>5 DEF ReadBytes
<1> QED
  BY <1>2, <1>4, <1>6

\* A frame of an open file is some bytes, and so is a read of one.
LEMMA FrameOfFile ==
  ASSUME TypeInv, phase \in Opened
  PROVE  Bpf \in Nat \ {0} /\ file.size \in Nat /\ DataStart(file) = 0
BY ParsedFile DEF TypeInv, Bpf, DataStart

\* A read leaves a reader.
LEMMA ReadLeavesReader ==
  ASSUME NEW r \in [pos : Nat, win : Nat], NEW n \in Nat, NEW size \in Nat, r.pos <= r.win
  PROVE  /\ ReadBytes(r, n, size).got \in Nat
         /\ ReadBytes(r, n, size).reader \in [pos : Nat, win : Nat]
         /\ ReadBytes(r, n, size).reader.pos <= ReadBytes(r, n, size).reader.win
<1>1. PICK w \in Nat : w = FilledTo(r, size) /\ r.pos <= w
  BY ReadBytesResult
<1>2. PICK g \in Nat : g = ReadBytes(r, n, size).got /\ g <= w - r.pos
  <2>1. PICK h \in Nat : h = (IF n <= w - r.pos THEN n ELSE w - r.pos) /\ h <= w - r.pos
    BY <1>1
  <2>2. ReadBytes(r, n, size).got = IF n <= FilledTo(r, size) - r.pos
                                      THEN n ELSE FilledTo(r, size) - r.pos
    BY ReadBytesResult
  <2> QED
    BY <1>1, <2>1, <2>2
<1>3. ReadBytes(r, n, size).reader = [pos |-> r.pos + g, win |-> w]
  BY <1>1, <1>2, ReadBytesResult
<1> QED
  BY <1>1, <1>2, <1>3

\* A seek goes to a frame.
LEMMA SeekGoesToFrame ==
  ASSUME NEW w \in [total : Nat, position : Nat], NEW frame \in Nat
  PROVE  SeekTarget(w, frame) \in Nat
<1>1. CASE w.total > 0
  <2>1. SeekTarget(w, frame) = IF frame <= w.total - 1 THEN frame ELSE w.total - 1
    BY <1>1, MinOfTwo DEF SeekTarget
  <2> QED
    BY <1>1, <2>1
<1>2. CASE ~(w.total > 0)
  BY <1>2 DEF SeekTarget
<1> QED
  BY <1>1, <1>2

\* The initial states have the types.
LEMMA TypeInit == Init => TypeInv
<1> SUFFICES ASSUME Init PROVE TypeInv
  OBVIOUS
<1>1. file \in Files /\ prefs \in Preferences
  BY DEF Init
<1>2. phase \in Final \cup Opened \cup {"new"} /\ phase \notin Opened
  BY DEF Init, Final, Opened, Running
<1>3. reader \in [pos : Nat, win : Nat] /\ reader.pos <= reader.win
  BY DEF Init, SeekBytes
<1>4. wav \in [total : Nat, position : Nat]
  BY DEF Init
<1>5. block \in Seq(Nat) /\ Len(block) <= BlockFrames
  BY MediaAssumption DEF Init
<1>6. decoded \in Nat /\ dropped \in Nat /\ failed \in BOOLEAN /\ seeks \in Nat /\ rebinds \in Nat
  BY DEF Init
<1> QED
  BY <1>1, <1>2, <1>3, <1>4, <1>5, <1>6 DEF TypeInv

\* Every step keeps the types.
LEMMA TypeStep == TypeInv /\ [Next]_vars => TypeInv'
<1> SUFFICES ASSUME TypeInv, [Next]_vars PROVE TypeInv'
  OBVIOUS
<1> USE DEF Final, Opened, Running
<1>1. CASE OpenCodec
  <2>1. CASE ChosenCodec(file) = "wav" /\ Parses(file)
    <3>1. wav' \in [total : Nat, position : Nat]
      BY <1>1, <2>1, ParsedFile DEF OpenCodec, OpenStream, TypeInv
    <3>2. reader' \in [pos : Nat, win : Nat] /\ (reader.pos <= reader.win)'
      BY <1>1, <2>1 DEF OpenCodec, SeekBytes, DataStart
    <3> QED
      BY <1>1, <2>1, <3>1, <3>2 DEF OpenCodec, TypeInv, inputVars, sessionVars
  <2>2. CASE ~(ChosenCodec(file) = "wav" /\ Parses(file))
    BY <1>1, <2>2 DEF OpenCodec, TypeInv, inputVars, sessionVars
  <2> QED
    BY <2>1, <2>2
<1>2. ASSUME NEW snap \in Snapshots, OpenOutput(snap) PROVE TypeInv'
  BY <1>2 DEF OpenOutput, TypeInv, inputVars, codecVars
<1>3. ASSUME NEW snap \in Snapshots, DeviceLost(snap) PROVE TypeInv'
  BY <1>3 DEF DeviceLost, TypeInv, inputVars, codecVars
<1>4. ASSUME NEW snap \in Snapshots, SubmitLost(snap) PROVE TypeInv'
  <2>1. block' = <<>> /\ block' \in Seq(Nat) /\ Len(block') <= BlockFrames
    BY <1>4, MediaAssumption DEF SubmitLost
  <2>2. dropped' \in Nat
    BY <1>4 DEF SubmitLost, TypeInv
  <2> QED
    BY <1>4, <2>1, <2>2 DEF SubmitLost, TypeInv, inputVars
<1>5. CASE OutputFails
  BY <1>5 DEF OutputFails, TypeInv, inputVars, codecVars
<1>6. ASSUME NEW frame \in 0..(wav.total + 1), Seek(frame) PROVE TypeInv'
  <2>1. PICK t \in Nat : t = SeekTarget(wav, frame)
    BY <1>6, SeekGoesToFrame DEF TypeInv
  <2>2. PICK b \in Nat \ {0} : b = Bpf
    BY <1>6, FrameOfFile DEF Seek
  <2>3. reader' = [pos |-> t * b, win |-> t * b]
    BY <1>6, <2>1, <2>2 DEF Seek, SeekBytes, DataStart
  <2>4. wav' \in [total : Nat, position : Nat] /\ decoded' \in Nat
    BY <1>6, <2>1 DEF Seek, TypeInv
  <2>5. reader' \in [pos : Nat, win : Nat] /\ (reader.pos <= reader.win)'
    <3>1. PICK x \in Nat : x = t * b
      OBVIOUS
    <3> QED
      BY <2>3, <3>1
  <2> QED
    BY <1>6, <2>4, <2>5, SMTT(60) DEF Seek, TypeInv, inputVars
<1>7. CASE BeginRead
  <2>1. block' = <<>> /\ block' \in Seq(Nat) /\ Len(block') <= BlockFrames
    BY <1>7, MediaAssumption DEF BeginRead
  <2> QED
    BY <1>7, <2>1 DEF BeginRead, TypeInv, inputVars
<1>8. CASE ReadFrame \/ ShortRead
  <2>0. phase \in Opened
    BY <1>8 DEF ReadFrame, ShortRead, MoreToRead
  <2>1. PICK r : r = ReadBytes(reader, Bpf, file.size)
    OBVIOUS
  <2>2. r.reader \in [pos : Nat, win : Nat] /\ r.reader.pos <= r.reader.win
    BY <2>0, <2>1, FrameOfFile, ReadLeavesReader DEF TypeInv
  <2>3. reader' = r.reader
    BY <1>8, <2>1 DEF ReadFrame, ShortRead
  <2>4. reader' \in [pos : Nat, win : Nat] /\ (reader.pos <= reader.win)'
    BY <2>2, <2>3
  <2>5. CASE ReadFrame
    <3>1. block' = Append(block, reader.pos) /\ Len(block) < BlockFrames
      BY <2>5 DEF ReadFrame, MoreToRead
    <3>2. block' \in Seq(Nat) /\ Len(block') <= BlockFrames
      BY <3>1, MediaAssumption DEF TypeInv
    <3>3. wav' \in [total : Nat, position : Nat]
      BY <2>5, SMTT(60) DEF ReadFrame, TypeInv
    <3> QED
      BY <2>4, <2>5, <3>2, <3>3 DEF ReadFrame, TypeInv, inputVars
  <2>6. CASE ShortRead
    BY <2>0, <2>4, <2>6 DEF ShortRead, AfterRead, TypeInv, inputVars
  <2> QED
    BY <1>8, <2>5, <2>6
<1>9. CASE ReadFails
  BY <1>9 DEF ReadFails, MoreToRead, AfterRead, TypeInv, inputVars
<1>10. CASE EndRead
  BY <1>10 DEF EndRead, AfterRead, TypeInv, inputVars, codecVars
<1>11. CASE Submit
  <2>1. CASE Fits(chain, Len(block), work)
    <3>1. block' = <<>> /\ block' \in Seq(Nat) /\ Len(block') <= BlockFrames
      BY <1>11, <2>1, MediaAssumption DEF Submit
    <3>2. decoded' \in Nat
      BY <1>11, <2>1 DEF Submit, TypeInv
    <3> QED
      BY <1>11, <2>1, <3>1, <3>2 DEF Submit, TypeInv, inputVars
  <2>2. CASE ~Fits(chain, Len(block), work)
    BY <1>11, <2>2 DEF Submit, TypeInv, inputVars
  <2> QED
    BY <2>1, <2>2
<1>12. CASE UNCHANGED vars
  BY <1>12 DEF vars, inputVars, codecVars, TypeInv
<1> QED
  BY <1>1, <1>2, <1>3, <1>4, <1>5, <1>6, <1>7, <1>8, <1>9, <1>10, <1>11, <1>12 DEF Next, Loop

\* The state keeps its types: what is counted stays a natural number, a block
\* is never longer than the workspace was made for, the reader never passes
\* what it has buffered.
THEOREM TypeCorrect == Spec => []TypeInv
<1> QED
  BY TypeInit, TypeStep, PTL DEF Spec

-----------------------------------------------------------------------------
(***************************************************************************)
(* The codec and its reader.  In a buffer of whole frames, the reader is   *)
(* at the frame of the codec until the file is exhausted, and what is      *)
(* buffered is whole frames or goes to the end of the file.  Otherwise the *)
(* buffer is smaller than a block, so that every block ends where a buffer *)
(* does, and the next one begins with an empty buffer: the frame that a    *)
(* buffer cuts is lost, but it never is the whole of a block.              *)
(***************************************************************************)

Exhausted == reader.pos >= file.size
ReadToEnd == AtTotal(wav) \/ Exhausted \/ failed

WholeFrames ==
  \/ Exhausted
  \/ /\ reader.pos = wav.position * Bpf
     /\ reader.win = file.size \/ \E k \in Nat : reader.win - reader.pos = k * Bpf

CutFrames ==
  \/ ReadToEnd
  \/ /\ reader.win = reader.pos
     /\ phase = "read" => block = <<>>
  \/ /\ phase = "read" /\ block # <<>>
     /\ reader.win - reader.pos + Len(block) * Bpf <= BufCap
     /\ \/ reader.win = file.size
        \/ reader.win - reader.pos + Len(block) * Bpf = BufCap

CountInv ==
  /\ phase = "new" => decoded = 0 /\ dropped = 0
  /\ phase \in {"new", "prepared", "top", "seeks"} => block = <<>>
  /\ phase \in Opened => wav.position = decoded + dropped + Len(block)

ReaderInv ==
  /\ phase \in Opened => reader.win = reader.pos \/ reader.win <= file.size
  /\ phase \in Opened /\ BufCap % Bpf = 0 => WholeFrames
  /\ phase \in Opened /\ BufCap % Bpf # 0 => CutFrames
  /\ phase = "ended" => ReadToEnd

\* How the buffer comes to what a read finds in it.
LEMMA FilledCases ==
  ASSUME NEW r \in [pos : Nat, win : Nat], NEW size \in Nat, r.pos <= r.win
  PROVE  \/ r.win > r.pos /\ FilledTo(r, size) = r.win
         \/ r.win = r.pos /\ r.pos + BufCap <= size /\ FilledTo(r, size) = r.pos + BufCap
         \/ r.win = r.pos /\ r.pos <= size /\ r.pos + BufCap > size /\ FilledTo(r, size) = size
         \/ r.win = r.pos /\ r.pos > size /\ FilledTo(r, size) = r.pos
BY BufCapAssumption DEF FilledTo

\* A whole frame read: there was one in the buffer.
LEMMA FrameRead ==
  ASSUME TypeInv, ReadFrame
  PROVE  \E w \in Nat :
           /\ w = FilledTo(reader, file.size)
           /\ reader.pos + Bpf <= w
           /\ reader' = [pos |-> reader.pos + Bpf, win |-> w]
<1>1. phase \in Opened /\ reader \in [pos : Nat, win : Nat] /\ reader.pos <= reader.win
  BY DEF ReadFrame, MoreToRead, Opened, Running, TypeInv
<1>2. PICK b \in Nat : b = Bpf
  BY <1>1, FrameOfFile
<1>3. PICK size \in Nat : size = file.size
  BY <1>1, FrameOfFile
<1>4. PICK w \in Nat : w = FilledTo(reader, size)
  BY <1>1, <1>3, ReadBytesResult
<1>5. PICK g : g = ReadBytes(reader, b, size).got
  OBVIOUS
<1>6. /\ g = IF b <= w - reader.pos THEN b ELSE w - reader.pos
      /\ ReadBytes(reader, b, size).reader = [pos |-> reader.pos + g, win |-> w]
      /\ reader.pos <= w
  BY <1>1, <1>2, <1>3, <1>4, <1>5, ReadBytesResult
<1>7. g = b /\ reader' = ReadBytes(reader, b, size).reader
  BY <1>2, <1>3, <1>5 DEF ReadFrame
<1>8. reader.pos \in Nat
  BY <1>1
<1>9. reader.pos + b <= w
  BY <1>2, <1>4, <1>6, <1>7, <1>8
<1> QED
  BY <1>2, <1>3, <1>4, <1>6, <1>7, <1>9

\* Less than a frame read: that was all there was in the buffer.
LEMMA LessRead ==
  ASSUME TypeInv, ShortRead
  PROVE  \E w \in Nat :
           /\ w = FilledTo(reader, file.size)
           /\ reader.pos <= w /\ w < reader.pos + Bpf
           /\ reader' = [pos |-> w, win |-> w]
<1>1. phase \in Opened /\ reader \in [pos : Nat, win : Nat] /\ reader.pos <= reader.win
  BY DEF ShortRead, MoreToRead, Opened, Running, TypeInv
<1>2. PICK b \in Nat : b = Bpf
  BY <1>1, FrameOfFile
<1>3. PICK size \in Nat : size = file.size
  BY <1>1, FrameOfFile
<1>4. PICK w \in Nat : w = FilledTo(reader, size)
  BY <1>1, <1>3, ReadBytesResult
<1>5. PICK g : g = ReadBytes(reader, b, size).got
  OBVIOUS
<1>6. /\ g = IF b <= w - reader.pos THEN b ELSE w - reader.pos
      /\ ReadBytes(reader, b, size).reader = [pos |-> reader.pos + g, win |-> w]
      /\ reader.pos <= w
  BY <1>1, <1>2, <1>3, <1>4, <1>5, ReadBytesResult
<1>7. g < b /\ reader' = ReadBytes(reader, b, size).reader
  BY <1>2, <1>3, <1>5 DEF ShortRead
<1>8. reader.pos \in Nat
  BY <1>1
<1>9. g = w - reader.pos /\ w < reader.pos + b
  BY <1>2, <1>4, <1>6, <1>7, <1>8
<1>10. reader.pos + g = w
  BY <1>4, <1>8, <1>9
<1> QED
  BY <1>2, <1>3, <1>4, <1>6, <1>7, <1>9, <1>10

\* Every step keeps the counts.
LEMMA CountStep == TypeInv /\ CountInv /\ [Next]_vars => CountInv'
<1> SUFFICES ASSUME TypeInv, CountInv, [Next]_vars PROVE CountInv'
  OBVIOUS
<1> USE DEF Opened, Running
<1>0. /\ wav.position \in Nat /\ decoded \in Nat /\ dropped \in Nat
      /\ block \in Seq(Nat) /\ Len(block) \in Nat
  BY DEF TypeInv
<1>1. CASE OpenCodec
  BY <1>1 DEF OpenCodec, OpenStream, CountInv
<1>2. ASSUME NEW snap \in Snapshots, OpenOutput(snap) PROVE CountInv'
  BY <1>2 DEF OpenOutput, CountInv, codecVars
<1>3. ASSUME NEW snap \in Snapshots, DeviceLost(snap) PROVE CountInv'
  BY <1>3 DEF DeviceLost, CountInv, codecVars
<1>4. ASSUME NEW snap \in Snapshots, SubmitLost(snap) PROVE CountInv'
  BY <1>0, <1>4 DEF SubmitLost, CountInv
<1>5. CASE OutputFails
  BY <1>5 DEF OutputFails, CountInv, codecVars
<1>6. ASSUME NEW frame \in 0..(wav.total + 1), Seek(frame) PROVE CountInv'
  <2>1. PICK t \in Nat : t = SeekTarget(wav, frame)
    BY <1>6, SeekGoesToFrame DEF TypeInv
  <2>2. wav' = [wav EXCEPT !.position = t] /\ wav'.position = t
    BY <1>6, <2>1 DEF Seek, TypeInv
  <2> QED
    BY <1>6, <2>1, <2>2 DEF Seek, CountInv
<1>7. CASE BeginRead
  BY <1>7 DEF BeginRead, CountInv
<1>8. CASE ReadFrame
  <2>1. phase = "read" /\ phase' = phase /\ wav.position = decoded + dropped + Len(block)
    BY <1>8 DEF ReadFrame, MoreToRead, CountInv
  <2>2. wav'.position = wav.position + 1
    BY <1>8 DEF ReadFrame, TypeInv
  <2>3. Len(block') = Len(block) + 1
    BY <1>0, <1>8 DEF ReadFrame
  <2> QED
    BY <1>0, <1>8, <2>1, <2>2, <2>3 DEF ReadFrame, CountInv
<1>9. CASE ShortRead
  BY <1>9 DEF ShortRead, MoreToRead, AfterRead, CountInv
<1>10. CASE ReadFails
  BY <1>10 DEF ReadFails, MoreToRead, AfterRead, CountInv
<1>11. CASE EndRead
  BY <1>11 DEF EndRead, AfterRead, CountInv, codecVars
<1>12. CASE Submit
  BY <1>0, <1>12 DEF Submit, CountInv
<1>13. CASE UNCHANGED vars
  BY <1>13 DEF vars, codecVars, CountInv
<1> QED
  BY <1>1, <1>2, <1>3, <1>4, <1>5, <1>6, <1>7, <1>8, <1>9, <1>10, <1>11, <1>12, <1>13
     DEF Next, Loop

\* A frame read: the file position and the buffer go on together.
LEMMA ReadFrameReader ==
  ASSUME TypeInv, CountInv, ReaderInv, ReadFrame
  PROVE  ReaderInv'
<1>0. phase = "read" /\ phase \in Opened /\ phase' = "read" /\ file' = file
  BY DEF ReadFrame, MoreToRead, Opened, Running, inputVars
<1>1. reader \in [pos : Nat, win : Nat] /\ reader.pos <= reader.win
  BY DEF TypeInv
<1>2. PICK b \in Nat \ {0} : b = Bpf
  BY <1>0, FrameOfFile
<1>3. PICK size \in Nat : size = file.size
  BY <1>0, FrameOfFile
<1>4. PICK pos \in Nat, win \in Nat : pos = reader.pos /\ win = reader.win /\ pos <= win
  BY <1>1
<1>5. PICK p \in Nat : p = wav.position
  BY DEF TypeInv
<1>6. PICK w \in Nat : w = FilledTo(reader, size) /\ pos + b <= w /\ reader' = [pos |-> pos + b, win |-> w]
  BY <1>2, <1>3, <1>4, FrameRead
<1>7. reader'.pos = pos + b /\ reader'.win = w
  BY <1>6
<1>8. wav'.position = p + 1 /\ wav'.total = wav.total
  BY <1>5 DEF ReadFrame, TypeInv
<1>9. Bpf' = b /\ file'.size = size
  BY <1>0, <1>2, <1>3 DEF Bpf
<1>10. win = pos \/ win <= size
  BY <1>0, <1>3, <1>4 DEF ReaderInv
<1>11. \/ win > pos /\ w = win
       \/ win = pos /\ pos + BufCap <= size /\ w = pos + BufCap
       \/ win = pos /\ pos <= size /\ pos + BufCap > size /\ w = size
  <2>1. \/ win > pos /\ w = win
        \/ win = pos /\ pos + BufCap <= size /\ w = pos + BufCap
        \/ win = pos /\ pos <= size /\ pos + BufCap > size /\ w = size
        \/ win = pos /\ pos > size /\ w = pos
    BY <1>1, <1>4, <1>6, FilledCases
  <2> QED
    BY <1>6, <2>1
<1>12. BufCap \in Nat \ {0}
  BY BufCapAssumption
<1>13. w <= size
  BY <1>10, <1>11, <1>12
<1>14. CASE BufCap % Bpf = 0
  <2>1. pos < size
    BY <1>6, <1>13
  <2>2. pos = p * b /\ (win = size \/ \E k \in Nat : win - pos = k * b)
    BY <1>0, <1>2, <1>3, <1>4, <1>5, <1>14, <2>1 DEF ReaderInv, WholeFrames, Exhausted
  <2>3. pos + b = (p + 1) * b
    BY <2>2
  <2>4. w = size \/ \E k \in Nat : w - pos = k * b
    <3>1. CASE w = win
      BY <2>2, <3>1
    <3>2. CASE w = pos + BufCap
      <4>0. PICK c \in Int : c = BufCap
        BY <1>12
      <4>1. PICK k \in Int : k = c \div b
        BY Division
      <4>2. BufCap = k * b
        <5>1. c = b * (c \div b) + (c % b)
          BY Division
        <5> QED
          BY <1>2, <1>14, <4>0, <4>1, <5>1
      <4>3. k \in Nat
        <5>1. CASE k <= -1
          BY <1>12, <4>2, <5>1, Times
        <5> QED
          BY <5>1
      <4> QED
        BY <3>2, <4>2, <4>3
    <3> QED
      BY <1>11, <3>1, <3>2
  <2>5. w = size \/ \E k \in Nat : w - (pos + b) = k * b
    <3>1. ASSUME NEW k \in Nat, w - pos = k * b PROVE \E i \in Nat : w - (pos + b) = i * b
      <4>1. k # 0
        BY <1>6, <3>1
      <4>2. (k - 1) * b = k * b - b /\ k - 1 \in Nat
        BY <4>1
      <4> QED
        BY <3>1, <4>2
    <3> QED
      BY <2>4, <3>1
  <2>6. WholeFrames'
    BY <1>7, <1>8, <1>9, <2>3, <2>5 DEF WholeFrames
  <2> QED
    BY <1>0, <1>2, <1>7, <1>9, <1>13, <1>14, <2>6 DEF ReaderInv
<1>15. CASE BufCap % Bpf # 0
  <2>1. PICK n \in Nat : n = Len(block) /\ (block = <<>> <=> n = 0)
    BY DEF TypeInv
  <2>2. Len(block') = n + 1 /\ block' # <<>>
    <3>1. block \in Seq(Nat) /\ block' = Append(block, pos)
      BY <1>4 DEF ReadFrame, TypeInv
    <3>2. Len(block') = n + 1
      BY <2>1, <3>1
    <3> QED
      BY <3>2
  <2>8. reader'.win - reader'.pos + Len(block') * Bpf' = w - (pos + b) + (n + 1) * b
    BY <1>7, <1>9, <2>2
  <2>3. CutFrames
    BY <1>0, <1>15 DEF ReaderInv
  <2>4. ASSUME ReadToEnd PROVE CutFrames'
    <3>1. CASE AtTotal(wav)
      BY <3>1 DEF ReadFrame, MoreToRead
    <3>2. CASE Exhausted
      BY <1>3, <1>4, <1>6, <1>13, <3>2 DEF Exhausted
    <3>3. CASE failed
      <4>1. failed' = failed
        BY DEF ReadFrame
      <4>2. ReadToEnd'
        BY <3>3, <4>1, Zenon DEF ReadToEnd
      <4> QED
        BY <4>2 DEF CutFrames
    <3> QED
      BY <2>4, <3>1, <3>2, <3>3 DEF ReadToEnd
  <2>5. ASSUME win = pos, n = 0 PROVE CutFrames'
    <3>1. (n + 1) * b = b
      BY <2>5
    <3>2. w - (pos + b) + (n + 1) * b = w - pos
      BY <3>1
    <3>3. w - pos <= BufCap /\ (w = size \/ w - pos = BufCap)
      BY <1>11, <1>12, <2>5
    <3> QED
      <4>1. reader'.win - reader'.pos + Len(block') * Bpf' <= BufCap
        BY <2>8, <3>2, <3>3
      <4>2. reader'.win = file'.size \/ reader'.win - reader'.pos + Len(block') * Bpf' = BufCap
        BY <1>7, <1>9, <2>8, <3>2, <3>3
      <4> QED
        BY <1>0, <2>2, <4>1, <4>2 DEF CutFrames
  <2>6. ASSUME n # 0, win - pos + n * b <= BufCap, win = size \/ win - pos + n * b = BufCap
        PROVE  CutFrames'
    <3>1. win # pos
      <4>1. CASE win = size /\ win = pos
        BY <1>6, <1>13, <4>1
      <4>2. CASE win - pos + n * b = BufCap /\ win = pos
        <5>1. n * b = BufCap
          BY <4>2
        <5>2. b * n + 0 = BufCap
          BY <5>1
        <5>3. (b * n + 0) % b = 0
          BY DivisionUnique
        <5> QED
          BY <1>2, <1>15, <5>2, <5>3
      <4> QED
        BY <2>6, <4>1, <4>2
    <3>2. w = win
      BY <1>11, <3>1
    <3>3. w - (pos + b) + (n + 1) * b = win - pos + n * b
      BY <3>2
    <3> QED
      <4>1. reader'.win - reader'.pos + Len(block') * Bpf' <= BufCap
        BY <2>6, <2>8, <3>3
      <4>2. reader'.win = file'.size \/ reader'.win - reader'.pos + Len(block') * Bpf' = BufCap
        BY <1>7, <1>9, <2>6, <2>8, <3>2, <3>3
      <4> QED
        BY <1>0, <2>2, <4>1, <4>2 DEF CutFrames
  <2>7. CutFrames'
    <3>1. CASE reader.win = reader.pos /\ (phase = "read" => block = <<>>)
      BY <1>0, <1>4, <2>1, <2>5, <3>1
    <3>2. CASE /\ phase = "read" /\ block # <<>>
               /\ reader.win - reader.pos + Len(block) * Bpf <= BufCap
               /\ \/ reader.win = file.size
                  \/ reader.win - reader.pos + Len(block) * Bpf = BufCap
      <4>1. reader.win - reader.pos + Len(block) * Bpf = win - pos + n * b
        BY <1>2, <1>4, <2>1
      <4> QED
        BY <1>3, <1>4, <2>1, <2>6, <3>2, <4>1
    <3> QED
      BY <2>3, <2>4, <3>1, <3>2 DEF CutFrames
  <2> QED
    BY <1>0, <1>2, <1>7, <1>9, <1>13, <1>15, <2>7 DEF ReaderInv
<1> QED
  BY <1>14, <1>15

\* A read of less than a frame drains the buffer; for the first frame of a
\* block it is the end of the file.
LEMMA ShortReadReader ==
  ASSUME TypeInv, CountInv, ReaderInv, ShortRead
  PROVE  ReaderInv'
<1>0. /\ phase = "read" /\ phase \in Opened /\ file' = file
      /\ phase' = AfterRead(block) /\ wav' = wav /\ failed' = failed /\ block' = block
  BY DEF ShortRead, MoreToRead, Opened, Running, inputVars
<1>1. reader \in [pos : Nat, win : Nat] /\ reader.pos <= reader.win
  BY DEF TypeInv
<1>2. PICK b \in Nat \ {0} : b = Bpf
  BY <1>0, FrameOfFile
<1>3. PICK size \in Nat : size = file.size
  BY <1>0, FrameOfFile
<1>4. PICK pos \in Nat, win \in Nat : pos = reader.pos /\ win = reader.win /\ pos <= win
  BY <1>1
<1>5. PICK p \in Nat : p = wav.position
  BY DEF TypeInv
<1>6. PICK w \in Nat : w = FilledTo(reader, size) /\ pos <= w /\ w < pos + b
                         /\ reader' = [pos |-> w, win |-> w]
  BY <1>2, <1>3, <1>4, LessRead
<1>7. reader'.pos = w /\ reader'.win = w
  BY <1>6
<1>9. Bpf' = b /\ file'.size = size
  BY <1>0, <1>2, <1>3 DEF Bpf
<1>11. \/ win > pos /\ w = win
       \/ win = pos /\ pos + BufCap <= size /\ w = pos + BufCap
       \/ win = pos /\ pos <= size /\ w = size
       \/ win = pos /\ pos > size /\ w = pos
  BY <1>1, <1>3, <1>4, <1>6, FilledCases
<1>12. BufCap \in Nat \ {0} /\ b < BufCap
  BY <1>0, <1>2, BufCapAssumption, MediaAssumption DEF TypeInv, Bpf
<1>13. w >= size \/ (w = win /\ win > pos)
  BY <1>6, <1>11, <1>12
<1>14. ASSUME BufCap % Bpf = 0 PROVE w >= size
  <2>1. ASSUME Exhausted PROVE w >= size
    BY <1>3, <1>4, <1>6, <2>1 DEF Exhausted
  <2>2. ASSUME NEW k \in Nat, win - pos = k * b, win > pos, w = win PROVE FALSE
    <3>1. 1 * b <= k * b
      BY <2>2, Times
    <3> QED
      BY <1>6, <2>2, <3>1
  <2> QED
    BY <1>0, <1>2, <1>3, <1>4, <1>13, <1>14, <2>1, <2>2 DEF ReaderInv, WholeFrames
<1>15. ASSUME BufCap % Bpf # 0, block = <<>> PROVE ReadToEnd'
  <2>1. ASSUME ReadToEnd PROVE ReadToEnd'
    <3>1. ASSUME Exhausted PROVE Exhausted'
      BY <1>3, <1>4, <1>6, <1>7, <1>9, <3>1 DEF Exhausted
    <3>2. AtTotal(wav) => AtTotal(wav')
      BY <1>0
    <3> QED
      BY <1>0, <2>1, <3>1, <3>2, Zenon DEF ReadToEnd
  <2>2. ASSUME win = pos PROVE ReadToEnd'
    BY <1>7, <1>9, <1>13, <2>2 DEF ReadToEnd, Exhausted
  <2> QED
    BY <1>0, <1>4, <1>15, <2>1, <2>2 DEF ReaderInv, CutFrames
<1>16. phase' \in Opened => phase' = "submit"
  BY <1>0 DEF AfterRead, Opened, Running
<1>17. BufCap % Bpf = 0 => WholeFrames'
  BY <1>7, <1>9, <1>14 DEF WholeFrames, Exhausted
<1>18. phase' \in Opened => CutFrames'
  BY <1>7, <1>16 DEF CutFrames
<1>19. phase' = "ended" => ReadToEnd'
  <2>1. phase' = "ended" => block = <<>>
    BY <1>0 DEF AfterRead
  <2>2. w >= size => ReadToEnd'
    BY <1>7, <1>9 DEF ReadToEnd, Exhausted
  <2> QED
    BY <1>14, <1>15, <2>1, <2>2
<1> QED
  BY <1>2, <1>7, <1>9, <1>17, <1>18, <1>19 DEF ReaderInv

\* A block that the codec ends by itself is not cut by a buffer.
LEMMA EndReadReader ==
  ASSUME TypeInv, CountInv, ReaderInv, EndRead
  PROVE  ReaderInv'
<1>0. /\ phase = "read" /\ phase \in Opened /\ file' = file /\ reader' = reader
      /\ phase' = AfterRead(block) /\ wav' = wav /\ failed' = failed /\ block' = block
  BY DEF EndRead, Opened, Running, inputVars, codecVars
<1>1. Bpf' = Bpf
  BY <1>0 DEF Bpf
<1>2. Exhausted' <=> Exhausted
  BY <1>0 DEF Exhausted
<1>3. ReadToEnd' <=> ReadToEnd
  BY <1>0, <1>2, Zenon DEF ReadToEnd
<1>4. WholeFrames => WholeFrames'
  BY <1>0, <1>1 DEF WholeFrames, Exhausted
<1>5. phase' \in Opened => phase' = "submit"
  BY <1>0 DEF AfterRead, Opened, Running
<1>6. ASSUME CutFrames, BufCap % Bpf # 0 PROVE CutFrames'
  <2>1. CASE ReadToEnd
    BY <1>3, <2>1 DEF CutFrames
  <2>2. CASE reader.win = reader.pos
    BY <1>0, <1>5, <2>2 DEF CutFrames, AfterRead
  <2>3. CASE reader.win - reader.pos + Len(block) * Bpf <= BufCap /\ ~ReadToEnd
    <3>1. ~AtTotal(wav)
      BY <2>3 DEF ReadToEnd
    <3>2. Len(block) = BlockFrames
      BY <3>1 DEF EndRead
    <3>3. BufCap < BlockFrames * Bpf
      BY <1>0, <1>6, MediaAssumption DEF TypeInv, Bpf
    <3>4. PICK m \in Int : m = BlockFrames * Bpf
      BY <1>0, FrameOfFile, MediaAssumption
    <3>5. reader.pos \in Nat /\ reader.win \in Nat /\ reader.pos <= reader.win /\ BufCap \in Nat
      BY BufCapAssumption DEF TypeInv
    <3> QED
      BY <2>3, <3>2, <3>3, <3>4, <3>5
  <2> QED
    BY <1>6, <2>1, <2>2, <2>3 DEF CutFrames
<1>7. phase' = "ended" => ReadToEnd'
  <2>1. ASSUME phase' = "ended" PROVE AtTotal(wav)
    <3>1. block = <<>>
      BY <1>0, <2>1 DEF AfterRead
    <3> QED
      BY <3>1, MediaAssumption DEF EndRead
  <2> QED
    BY <1>3, <2>1 DEF ReadToEnd
<1>8. reader.win = reader.pos \/ reader.win <= file.size
  BY <1>0 DEF ReaderInv
<1> QED
  BY <1>0, <1>1, <1>4, <1>6, <1>7, <1>8 DEF ReaderInv

\* What a seek leaves behind: an empty buffer at the frame it went to.
LEMMA SeekReader ==
  ASSUME TypeInv, NEW frame \in 0..(wav.total + 1), Seek(frame)
  PROVE  ReaderInv'
<1>1. phase \in Opened /\ phase' = "seeks" /\ file' = file
  BY DEF Seek, Opened, Running, inputVars
<1>2. PICK t \in Nat : t = SeekTarget(wav, frame)
  BY SeekGoesToFrame DEF TypeInv
<1>3. PICK b \in Nat \ {0} : b = Bpf
  BY <1>1, FrameOfFile
<1>4. reader' = [pos |-> t * b, win |-> t * b] /\ wav' = [wav EXCEPT !.position = t]
  BY <1>2, <1>3 DEF Seek, SeekBytes, DataStart
<1>5. Bpf' = b
  BY <1>1, <1>3 DEF Bpf
<1>6. PICK x \in Nat : x = t * b
  OBVIOUS
<1>7. reader'.pos = x /\ reader'.win = x /\ wav'.position = t
  BY <1>4, <1>6 DEF TypeInv
<1>8. WholeFrames'
  <2>1. x - x = 0 * b
    OBVIOUS
  <2> QED
    BY <1>5, <1>6, <1>7, <2>1 DEF WholeFrames
<1>9. CutFrames'
  BY <1>1, <1>7 DEF CutFrames
<1> QED
  BY <1>1, <1>7, <1>8, <1>9 DEF ReaderInv

\* The other steps do not read.
LEMMA NoReadReader ==
  ASSUME TypeInv, CountInv, ReaderInv, reader' = reader, file' = file, wav' = wav,
         failed => failed', failed \in BOOLEAN,
         \/ phase \in Opened /\ phase' \in Opened \ {"read"} /\ phase # "read"
         \/ phase = "read" /\ phase' \in {"read", "submit"} /\ failed'
         \/ phase' = "read" /\ block' = <<>> /\ phase \in {"top", "seeks"}
         \/ phase' \in Final \ {"ended"}
         \/ phase' = "ended" /\ failed'
         \/ phase' = phase /\ block' = block
  PROVE  ReaderInv'
<1> USE DEF Opened, Running, Final
<1>1. Bpf' = Bpf
  BY DEF Bpf
<1>2. Exhausted' <=> Exhausted
  BY DEF Exhausted
<1>3. ReadToEnd => ReadToEnd'
  BY <1>2, Zenon DEF ReadToEnd
<1>4. failed' => ReadToEnd'
  BY Zenon DEF ReadToEnd
<1>5. WholeFrames => WholeFrames'
  BY <1>1 DEF WholeFrames, Exhausted
<1>6. ASSUME CutFrames, phase' \in Opened PROVE CutFrames'
  <2>1. CASE ReadToEnd'
    BY <2>1 DEF CutFrames
  <2>2. CASE phase' = phase /\ block' = block
    BY <1>1, <1>2, <1>3, <1>6, <2>2 DEF CutFrames
  <2>3. CASE phase \in Opened \ {"read"} /\ phase' \in Opened \ {"read"}
    BY <1>3, <1>6, <2>3 DEF CutFrames
  <2>4. CASE phase' = "read" /\ block' = <<>> /\ phase \in {"top", "seeks"}
    BY <1>3, <1>6, <2>4 DEF CutFrames
  <2> QED
    BY <1>4, <1>6, <2>1, <2>2, <2>3, <2>4
<1>7. phase' \in Opened => phase \in Opened
  OBVIOUS
<1>8. phase' = "ended" => ReadToEnd'
  BY <1>3, <1>4 DEF ReaderInv
<1>9. phase' \in Opened => reader'.win = reader'.pos \/ reader'.win <= file'.size
  BY <1>7 DEF ReaderInv
<1>10. phase' \in Opened /\ BufCap % Bpf' = 0 => WholeFrames'
  BY <1>1, <1>5, <1>7 DEF ReaderInv
<1>11. phase' \in Opened /\ BufCap % Bpf' # 0 => CutFrames'
  BY <1>1, <1>6, <1>7 DEF ReaderInv
<1> QED
  BY <1>8, <1>9, <1>10, <1>11 DEF ReaderInv

\* Every step keeps the reader where it should be.
LEMMA ReaderStep == TypeInv /\ CountInv /\ ReaderInv /\ [Next]_vars => ReaderInv'
<1> SUFFICES ASSUME TypeInv, CountInv, ReaderInv, [Next]_vars PROVE ReaderInv'
  OBVIOUS
<1> USE DEF Opened, Running, Final
<1>0. failed \in BOOLEAN
  BY DEF TypeInv
<1>1. CASE OpenCodec
  <2>1. CASE ChosenCodec(file) = "wav" /\ Parses(file)
    <3>1. /\ phase' = "prepared" /\ reader' = [pos |-> 0, win |-> 0] /\ file' = file
          /\ wav' = OpenStream(file)
      BY <1>1, <2>1 DEF OpenCodec, SeekBytes, DataStart, inputVars
    <3>2. PICK b \in Nat : b = BytesPerFrame(file) /\ b = Bpf'
      BY <2>1, <3>1, ParsedFile DEF TypeInv, Bpf
    <3>3. 0 = 0 * b /\ 0 - 0 = 0 * b
      OBVIOUS
    <3>4. wav'.position = 0 /\ reader'.pos = 0 /\ reader'.win = 0
      BY <3>1 DEF OpenStream
    <3>5. WholeFrames'
      BY <3>2, <3>3, <3>4 DEF WholeFrames
    <3>6. CutFrames'
      BY <3>1, <3>4 DEF CutFrames
    <3> QED
      BY <3>1, <3>4, <3>5, <3>6 DEF ReaderInv
  <2>2. CASE ~(ChosenCodec(file) = "wav" /\ Parses(file))
    BY <1>1, <2>2 DEF OpenCodec, ReaderInv
  <2> QED
    BY <2>1, <2>2
<1>2. ASSUME NEW snap \in Snapshots, OpenOutput(snap) PROVE ReaderInv'
  BY <1>0, <1>2, NoReadReader DEF OpenOutput, inputVars, codecVars
<1>3. ASSUME NEW snap \in Snapshots, DeviceLost(snap) PROVE ReaderInv'
  BY <1>0, <1>3, NoReadReader DEF DeviceLost, inputVars, codecVars
<1>4. ASSUME NEW snap \in Snapshots, SubmitLost(snap) PROVE ReaderInv'
  BY <1>0, <1>4, NoReadReader DEF SubmitLost, inputVars
<1>5. CASE OutputFails
  BY <1>0, <1>5, NoReadReader DEF OutputFails, inputVars, codecVars
<1>6. ASSUME NEW frame \in 0..(wav.total + 1), Seek(frame) PROVE ReaderInv'
  BY <1>6, SeekReader
<1>7. CASE BeginRead
  BY <1>0, <1>7, NoReadReader DEF BeginRead, inputVars
<1>8. CASE ReadFrame
  BY <1>8, ReadFrameReader
<1>9. CASE ShortRead
  BY <1>9, ShortReadReader
<1>10. CASE ReadFails
  BY <1>0, <1>10, NoReadReader DEF ReadFails, MoreToRead, AfterRead, inputVars
<1>11. CASE EndRead
  BY <1>11, EndReadReader
<1>12. CASE Submit
  BY <1>0, <1>12, NoReadReader DEF Submit, inputVars
<1>13. CASE UNCHANGED vars
  BY <1>0, <1>13, NoReadReader DEF vars, inputVars, codecVars
<1> QED
  BY <1>1, <1>2, <1>3, <1>4, <1>5, <1>6, <1>7, <1>8, <1>9, <1>10, <1>11, <1>12, <1>13
     DEF Next, Loop

\* The initial states have them.
LEMMA ReaderInit == Init => CountInv /\ ReaderInv
<1> SUFFICES ASSUME Init PROVE CountInv /\ ReaderInv
  OBVIOUS
<1>1. CountInv
  BY DEF Init, CountInv, Opened, Running
<1>2. ReaderInv
  BY DEF Init, ReaderInv, Opened, Running
<1> QED
  BY <1>1, <1>2

\* The counts and the reader, of every reachable state.
LEMMA ReaderCorrect == Spec => [](TypeInv /\ CountInv /\ ReaderInv)
<1>1. Init => TypeInv /\ CountInv /\ ReaderInv
  BY TypeInit, ReaderInit
<1>2. TypeInv /\ CountInv /\ ReaderInv /\ [Next]_vars => (TypeInv /\ CountInv /\ ReaderInv)'
  BY TypeStep, CountStep, ReaderStep
<1> QED
  BY <1>1, <1>2, PTL DEF Spec

\* The frame counter of the decode loop is that of the codec but for the blocks
\* a lost device swallowed, whatever seeks and losses there were; and the reader
\* is at the codec's frame until the file is exhausted.
THEOREM CodecStaysInStep == Spec => []CodecInStep
<1>1. TypeInv /\ CountInv /\ ReaderInv => CodecInStep
  <2> SUFFICES ASSUME TypeInv, CountInv, ReaderInv, phase \in Running PROVE
                 /\ wav.position = decoded + dropped + Len(block)
                 /\ BufCap % Bpf = 0 =>
                      \/ reader.pos = DataStart(file) + wav.position * Bpf
                      \/ reader.pos >= file.size
    BY DEF CodecInStep
  <2>1. phase \in Opened
    BY DEF Opened
  <2>2. PICK x \in Nat : x = wav.position * Bpf
    BY <2>1, FrameOfFile DEF TypeInv
  <2>3. DataStart(file) + wav.position * Bpf = x
    BY <2>2 DEF DataStart
  <2> QED
    BY <2>1, <2>2, <2>3 DEF CountInv, ReaderInv, WholeFrames, Exhausted
<1> QED
  BY <1>1, ReaderCorrect, PTL

\* A read that a buffer boundary cuts short is never taken for the end of the
\* stream: there is a header count reached, a file exhausted or a failed read.
THEOREM StreamsReadToTheEnd == Spec => []ReadsToTheEnd
<1>1. TypeInv /\ CountInv /\ ReaderInv => ReadsToTheEnd
  BY DEF ReaderInv, ReadToEnd, Exhausted, ReadsToTheEnd
<1> QED
  BY <1>1, ReaderCorrect, PTL

-----------------------------------------------------------------------------
(***************************************************************************)
(* The planner.  compare_plan orders the candidates strictly and totally,  *)
(* because no two of them have the same keys; there are finitely many; so  *)
(* there is a first one, and it is the plan.                               *)
(***************************************************************************)

\* The order of two lists of keys.
Before(k, l) ==
  \E i \in 1..8 : k[i] < l[i] /\ \A j \in 1..(i - 1) : k[j] = l[j]

\* No list of keys comes before itself, nor before one that comes before it.
LEMMA BeforeIsTransitive ==
  ASSUME NEW k \in [1..8 -> Int], NEW l \in [1..8 -> Int], NEW m \in [1..8 -> Int],
         Before(k, l), Before(l, m)
  PROVE  Before(k, m)
<1>1. PICK i \in 1..8 : k[i] < l[i] /\ \A j \in 1..(i - 1) : k[j] = l[j]
  BY DEF Before
<1>2. PICK h \in 1..8 : l[h] < m[h] /\ \A j \in 1..(h - 1) : l[j] = m[j]
  BY DEF Before
<1>3. CASE i <= h
  <2>1. k[i] < m[i]
    BY <1>1, <1>2, <1>3
  <2>2. \A j \in 1..(i - 1) : k[j] = m[j]
    BY <1>1, <1>2, <1>3
  <2> QED
    BY <2>1, <2>2 DEF Before
<1>4. CASE h < i
  <2>1. k[h] < m[h]
    BY <1>1, <1>2, <1>4
  <2>2. \A j \in 1..(h - 1) : k[j] = m[j]
    BY <1>1, <1>2, <1>4
  <2> QED
    BY <2>1, <2>2 DEF Before
<1> QED
  BY <1>3, <1>4

\* No key is before itself.
LEMMA BeforeIsIrreflexive ==
  ASSUME NEW k \in [1..8 -> Int]
  PROVE  ~Before(k, k)
BY DEF Before

\* Of two keys that differ one is before the other.
LEMMA BeforeIsTotal ==
  ASSUME NEW k \in [1..8 -> Int], NEW l \in [1..8 -> Int], k # l
  PROVE  Before(k, l) \/ Before(l, k)
<1> DEFINE D == {i \in 1..8 : k[i] # l[i]}
<1>1. D \subseteq Nat /\ D # {}
  OBVIOUS
<1>2. PICK i \in D : \A j \in D : i <= j
  BY <1>1, MinOfNats
<1>3. i \in 1..8 /\ k[i] # l[i] /\ k[i] \in Int /\ l[i] \in Int
  OBVIOUS
<1>4. \A j \in 1..(i - 1) : k[j] = l[j]
  BY <1>2, <1>3
<1>5. k[i] < l[i] \/ l[i] < k[i]
  BY <1>3
<1> QED
  BY <1>3, <1>4, <1>5 DEF Before

\* The candidate of a preference p, a device d, its mode m and the rate r.
CandidateOf(snap, source, p, d, m, r) ==
  [pref |-> p, device |-> snap[d].id, priority |-> snap[d].priority, mode |-> m,
   spec |-> SpecAt(m, r), loss |-> Loss(source, SpecAt(m, r))]

\* Every candidate is one of those.
LEMMA CandidateForm ==
  ASSUME NEW snap, NEW source, NEW wants, NEW c \in Candidates(snap, source, wants)
  PROVE  \E p \in DOMAIN wants, d \in DOMAIN snap : \E m \in snap[d].modes :
           /\ ModeFits(wants[p].mode, m)
           /\ \E r \in WantedRates(wants[p].mode, m, source.rate) :
                c = CandidateOf(snap, source, p, d, m, r)
<1>1. PICK p \in DOMAIN wants :
        c \in UNION {UNION {
          {[pref |-> p, device |-> snap[d].id, priority |-> snap[d].priority, mode |-> m,
            spec |-> SpecAt(m, r), loss |-> Loss(source, SpecAt(m, r))]
              : r \in WantedRates(wants[p].mode, m, source.rate)}
              : m \in {x \in snap[d].modes : ModeFits(wants[p].mode, x)}}
              : d \in {x \in DOMAIN snap : Matches(wants[p].selector, snap[x])}}
  BY DEF Candidates
<1>2. PICK d \in DOMAIN snap :
        c \in UNION {
          {[pref |-> p, device |-> snap[d].id, priority |-> snap[d].priority, mode |-> m,
            spec |-> SpecAt(m, r), loss |-> Loss(source, SpecAt(m, r))]
              : r \in WantedRates(wants[p].mode, m, source.rate)}
              : m \in {x \in snap[d].modes : ModeFits(wants[p].mode, x)}}
  BY <1>1
<1>3. PICK m \in snap[d].modes :
        /\ ModeFits(wants[p].mode, m)
        /\ c \in {[pref |-> p, device |-> snap[d].id, priority |-> snap[d].priority,
                   mode |-> m, spec |-> SpecAt(m, r), loss |-> Loss(source, SpecAt(m, r))]
                    : r \in WantedRates(wants[p].mode, m, source.rate)}
  BY <1>2
<1>4. PICK r \in WantedRates(wants[p].mode, m, source.rate) :
        c = CandidateOf(snap, source, p, d, m, r)
  BY <1>3 DEF CandidateOf
<1> QED
  BY <1>3, <1>4

\* A stream that a planner can be asked for.
StreamSpec == [rate : Nat \ {0}, channels : 1..8, encoding : Encodings]

\* What discovery returns are devices.
LEMMA SnapshotTypes ==
  ASSUME NEW snap \in Snapshots
  PROVE  /\ DOMAIN snap = 1..Len(snap) /\ Len(snap) \in Nat
         /\ \A d \in DOMAIN snap : snap[d] \in OutputDevice
<1>1. snap \in Seq(OutputDevice)
  BY InputAssumption
<1>2. \A d \in 1..Len(snap) : snap[d] \in OutputDevice
  BY <1>1, ElementOfSeq
<1> QED
  BY <1>1, <1>2

\* What a planner is given are devices and preferences.
LEMMA InputTypes ==
  ASSUME NEW snap \in Snapshots, NEW wants \in Preferences
  PROVE  /\ DOMAIN snap = 1..Len(snap) /\ Len(snap) \in Nat
         /\ \A d \in DOMAIN snap : snap[d] \in OutputDevice
         /\ DOMAIN wants = 1..Len(wants) /\ Len(wants) \in Nat
         /\ \A p \in DOMAIN wants : wants[p].mode \in ModePreference
<1>1. snap \in Seq(OutputDevice)
  BY InputAssumption
<1>2. wants \in Seq([selector : DeviceSelector, mode : ModePreference])
  BY InputAssumption
<1>3. \A p \in 1..Len(wants) : wants[p] \in [selector : DeviceSelector, mode : ModePreference]
  BY <1>2, ElementOfSeq
<1>4. \A d \in 1..Len(snap) : snap[d] \in OutputDevice
  BY <1>1, ElementOfSeq
<1> QED
  BY <1>1, <1>2, <1>3, <1>4

\* The rates of a mode are rates that it has.
LEMMA WantedRatesOfMode ==
  ASSUME NEW want \in ModePreference, NEW m \in OutputMode, NEW rate \in Nat,
         ModeFits(want, m), NEW r \in WantedRates(want, m, rate)
  PROVE  r \in Nat /\ r >= m.min /\ r <= m.max
<1>1. want.kind \in {"rate", "exact"} => want.rate \in Nat
  BY DEF ModePreference
<1>2. m.min \in Nat /\ m.max \in Nat /\ m.default \in Nat
  BY DEF OutputMode
<1>3. CASE want.kind = "exact"
  BY <1>1, <1>3 DEF WantedRates, ModeFits, Contains
<1>4. CASE want.kind # "exact"
  <2>1. r \in Rates(m, rate, Requested(want))
    BY <1>4 DEF WantedRates
  <2>2. Contains(m, r) /\ r \in {rate, m.default, m.min, m.max} \cup Requested(want)
    BY <2>1 DEF Rates
  <2> QED
    BY <1>1, <1>2, <2>2 DEF Contains, Requested
<1> QED
  BY <1>3, <1>4

\* What a candidate is made of.
LEMMA CandidateParts ==
  ASSUME NEW snap \in Snapshots, NEW wants \in Preferences, NEW source \in StreamSpec,
         ValidSnapshot(snap), NEW c \in Candidates(snap, source, wants)
  PROVE  \E p \in 1..Len(wants), d \in 1..Len(snap), r \in Nat \ {0} :
         \E m \in snap[d].modes :
           /\ c = CandidateOf(snap, source, p, d, m, r)
           /\ m \in OutputMode /\ m.channels > 0 /\ r >= m.min /\ r <= m.max
<1>1. PICK p \in DOMAIN wants, d \in DOMAIN snap : \E m \in snap[d].modes :
        /\ ModeFits(wants[p].mode, m)
        /\ \E r \in WantedRates(wants[p].mode, m, source.rate) :
             c = CandidateOf(snap, source, p, d, m, r)
  BY CandidateForm
<1>2. PICK m \in snap[d].modes :
        /\ ModeFits(wants[p].mode, m)
        /\ \E r \in WantedRates(wants[p].mode, m, source.rate) :
             c = CandidateOf(snap, source, p, d, m, r)
  BY <1>1
<1>3. PICK r \in WantedRates(wants[p].mode, m, source.rate) :
             c = CandidateOf(snap, source, p, d, m, r)
  BY <1>2
<1>4. p \in 1..Len(wants) /\ d \in 1..Len(snap) /\ snap[d] \in OutputDevice
        /\ wants[p].mode \in ModePreference
  BY InputTypes
<1>5. m \in OutputMode
  BY <1>4 DEF OutputDevice
<1>6. m.channels > 0 /\ m.min > 0
  BY DEF ValidSnapshot
<1>7. r \in Nat /\ r >= m.min /\ r <= m.max
  BY <1>2, <1>4, <1>5, WantedRatesOfMode DEF StreamSpec
<1>8. r # 0
  BY <1>5, <1>6, <1>7 DEF OutputMode
<1> QED
  BY <1>3, <1>4, <1>5, <1>6, <1>7, <1>8

\* No two devices of a snapshot have the same id.
LEMMA DeviceIdsGrow ==
  ASSUME NEW snap \in Snapshots, ValidSnapshot(snap),
         NEW i \in 1..Len(snap), NEW j \in 1..Len(snap), i < j
  PROVE  snap[i].id < snap[j].id
<1>1. \A k \in 1..Len(snap) : snap[k] \in OutputDevice /\ snap[k].id \in Nat
  <2>1. snap \in Seq(OutputDevice)
    BY InputAssumption
  <2>2. \A k \in 1..Len(snap) : snap[k] \in OutputDevice
    BY <2>1, ElementOfSeq
  <2> QED
    BY <2>2 DEF OutputDevice
<1>2. Len(snap) \in Nat
  BY InputAssumption
<1> DEFINE Bad == {k \in 1..Len(snap) : i < k /\ ~(snap[i].id < snap[k].id)}
<1>3. ASSUME Bad # {} PROVE FALSE
  <2>1. Bad \subseteq Nat
    BY <1>2
  <2>2. PICK k \in Bad : \A y \in Bad : k <= y
    BY <1>3, <2>1, MinOfNats
  <2>3. k \in 1..Len(snap) /\ i < k /\ ~(snap[i].id < snap[k].id)
    OBVIOUS
  <2>4. k - 1 \in 1..(Len(snap) - 1)
    BY <1>2, <2>3
  <2>5. snap[k - 1].id < snap[k].id
    <3>1. snap[k - 1].id < snap[(k - 1) + 1].id
      BY <2>4 DEF ValidSnapshot
    <3> QED
      BY <2>3, <3>1
  <2>6. k - 1 # i
    BY <2>3, <2>5
  <2>7. k - 1 \in 1..Len(snap) /\ i < k - 1
    BY <1>2, <2>3, <2>4, <2>6
  <2>8. k - 1 \notin Bad
    BY <2>2, <2>3
  <2>9. snap[i].id < snap[k - 1].id
    BY <2>7, <2>8
  <2> QED
    BY <1>1, <2>3, <2>5, <2>7, <2>9
<1>4. i < j
  OBVIOUS
<1> QED
  BY <1>3, <1>4

\* The ids of a valid snapshot name its devices.
LEMMA DeviceIdsDiffer ==
  ASSUME NEW snap \in Snapshots, ValidSnapshot(snap),
         NEW i \in 1..Len(snap), NEW j \in 1..Len(snap), snap[i].id = snap[j].id
  PROVE  i = j
<1>1. snap[i].id \in Nat
  <2>1. snap \in Seq(OutputDevice)
    BY InputAssumption
  <2>2. snap[i] \in OutputDevice
    BY <2>1, ElementOfSeq
  <2> QED
    BY <2>2 DEF OutputDevice
<1>2. ~(i < j)
  BY <1>1, DeviceIdsGrow
<1>3. ~(j < i)
  BY <1>1, DeviceIdsGrow
<1> QED
  BY <1>2, <1>3

\* A conversion of rates costs nothing or more, and keeping the rate nothing.
LEMMA RateLossIsNat ==
  ASSUME NEW a \in Nat, NEW b \in Nat
  PROVE  RateLoss(a, b) \in Nat /\ RateLoss(a, a) = 0
<1>1. ASSUME NEW x \in Nat PROVE x \div 1000 \in Nat
  OBVIOUS
<1>2. a > b => (a - b) * 100 \in Nat
  OBVIOUS
<1>3. ~(a > b) => (b - a) * 10 \in Nat
  OBVIOUS
<1>4. RateLoss(a, b) \in Nat
  BY <1>1, <1>2, <1>3 DEF RateLoss
<1>5. RateLoss(a, a) = 0
  BY DEF RateLoss
<1> QED
  BY <1>4, <1>5

\* A conversion of channels costs something, unless there is none.
LEMMA ChannelLossIsNat ==
  ASSUME NEW a \in Nat, NEW b \in Nat
  PROVE  ChannelLoss(a, b) \in Nat /\ (ChannelLoss(a, b) = 0 <=> a = b)
BY DEF ChannelLoss

\* The encodings are told apart by their width, and by being float or signed.
LEMMA EncodingsDiffer ==
  ASSUME NEW a \in Encodings, NEW b \in Encodings,
         Bits(a) = Bits(b), IsFloat(a) <=> IsFloat(b), IsSigned(a) <=> IsSigned(b)
  PROVE  a = b
BY DEF Encodings, Bits, IsFloat, IsSigned

\* So does a conversion of the encoding.
LEMMA EncodingLossIsNat ==
  ASSUME NEW a \in Encodings, NEW b \in Encodings
  PROVE  EncodingLoss(a, b) \in Nat /\ (EncodingLoss(a, b) = 0 <=> a = b)
<1>1. PICK x \in Nat, y \in Nat : x = Bits(a) /\ y = Bits(b)
  BY DEF Bits, Encodings
<1>2. PICK m \in Nat : m = Max({Bits(a) - Bits(b), Bits(b) - Bits(a)}) /\ (m = 0 <=> x = y)
  <2>1. Max({x - y, y - x}) = IF x - y >= y - x THEN x - y ELSE y - x
    BY MaxOfTwo
  <2> QED
    BY <1>1, <2>1
<1>3. CASE a = b
  BY <1>3 DEF EncodingLoss
<1>4. CASE a # b
  <2> DEFINE differ == IsFloat(a) # IsFloat(b) \/ IsSigned(a) # IsSigned(b)
  <2>1. EncodingLoss(a, b) = m + (IF differ THEN 20 ELSE 0)
    BY <1>2, <1>4 DEF EncodingLoss
  <2>2. x = y => differ
    <3>1. IsFloat(a) \in BOOLEAN /\ IsFloat(b) \in BOOLEAN
            /\ IsSigned(a) \in BOOLEAN /\ IsSigned(b) \in BOOLEAN
      BY DEF IsFloat, IsSigned
    <3> QED
      BY <1>1, <1>4, <3>1, EncodingsDiffer
  <2> HIDE DEF differ
  <2> QED
    BY <1>2, <1>4, <2>1, <2>2
<1> QED
  BY <1>3, <1>4

\* The loss of a conversion between formats.
LEMMA LossIsNat ==
  ASSUME NEW a \in StreamSpec, NEW b, b.rate \in Nat, b.channels \in Nat, b.encoding \in Encodings
  PROVE  /\ Loss(a, b) \in Nat /\ Loss(a, a) = 0
         /\ Loss(a, b) = 0 => /\ RateLoss(a.rate, b.rate) = 0
                              /\ a.channels = b.channels
                              /\ a.encoding = b.encoding
<1>1. a.rate \in Nat /\ a.channels \in Nat /\ a.encoding \in Encodings
  BY DEF StreamSpec
<1>2. PICK x \in Nat : x = RateLoss(a.rate, b.rate)
  BY <1>1, RateLossIsNat
<1>3. PICK y \in Nat : y = ChannelLoss(a.channels, b.channels) /\ (y = 0 <=> a.channels = b.channels)
  BY <1>1, ChannelLossIsNat
<1>4. PICK z \in Nat : z = EncodingLoss(a.encoding, b.encoding) /\ (z = 0 <=> a.encoding = b.encoding)
  BY <1>1, EncodingLossIsNat
<1>5. Loss(a, b) = x + y + z
  BY <1>2, <1>3, <1>4 DEF Loss
<1>6. Loss(a, a) = 0
  <2>1. RateLoss(a.rate, a.rate) = 0 /\ ChannelLoss(a.channels, a.channels) = 0
          /\ EncodingLoss(a.encoding, a.encoding) = 0
    BY <1>1, RateLossIsNat, ChannelLossIsNat, EncodingLossIsNat
  <2> QED
    BY <2>1 DEF Loss
<1>7. Loss(a, b) = 0 => x = 0 /\ y = 0 /\ z = 0
  BY <1>5
<1>8. Loss(a, b) \in Nat
  BY <1>5
<1> QED
  BY <1>2, <1>3, <1>4, <1>6, <1>7, <1>8

\* What is known of every candidate.
Candidate == [pref : Nat \ {0}, device : Nat, priority : Int, mode : OutputMode,
              spec : [rate : Nat \ {0}, channels : Nat \ {0}, encoding : Encodings], loss : Nat]

\* Every candidate is well formed, and its loss is that of its own spec.
LEMMA CandidateType ==
  ASSUME NEW snap \in Snapshots, NEW wants \in Preferences, NEW source \in StreamSpec,
         ValidSnapshot(snap), NEW c \in Candidates(snap, source, wants)
  PROVE  c \in Candidate /\ c.loss = Loss(source, c.spec)
<1>0. PICK p \in 1..Len(wants), d \in 1..Len(snap), r \in Nat \ {0} :
        \E m \in snap[d].modes :
          /\ c = CandidateOf(snap, source, p, d, m, r)
          /\ m \in OutputMode /\ m.channels > 0
  BY CandidateParts
<1>1. PICK m \in snap[d].modes :
        /\ c = CandidateOf(snap, source, p, d, m, r)
        /\ m \in OutputMode /\ m.channels > 0
  BY <1>0
<1>2. snap[d].id \in Nat /\ snap[d].priority \in Int
  BY InputTypes DEF OutputDevice
<1>3. PICK s : s = SpecAt(m, r)
  OBVIOUS
<1>4. s \in [rate : Nat \ {0}, channels : Nat \ {0}, encoding : Encodings]
  BY <1>1, <1>3 DEF SpecAt, OutputMode
<1>5. Loss(source, s) \in Nat
  BY <1>4, LossIsNat
<1>6. c = [pref |-> p, device |-> snap[d].id, priority |-> snap[d].priority, mode |-> m,
           spec |-> s, loss |-> Loss(source, s)]
  BY <1>1, <1>3 DEF CandidateOf
<1>7. p \in Nat \ {0}
  BY InputTypes
<1> QED
  BY <1>1, <1>2, <1>4, <1>5, <1>6, <1>7 DEF Candidate

\* The keys of a candidate are eight integers.
LEMMA KeysAreIntegers ==
  ASSUME NEW c \in Candidate
  PROVE  Key(c) \in [1..8 -> Int] /\ DOMAIN Key(c) = 1..8
<1>1. /\ c.pref \in Int /\ c.priority \in Int /\ c.loss \in Int /\ c.mode.rank \in Int
      /\ c.spec.rate \in Int /\ c.device \in Int /\ c.mode.id \in Int
  BY DEF Candidate, OutputMode
<1>2. PICK n \in Int : n = IF c.mode.isDefault THEN 0 ELSE 1
  OBVIOUS
<1> QED
  BY <1>1, <1>2 DEF Key

\* compare_plan compares keys.
LEMMA CompareIsBefore ==
  ASSUME NEW a \in Candidate, NEW b \in Candidate
  PROVE  ComparePlan(a, b) <=> Before(Key(a), Key(b))
BY KeysAreIntegers DEF ComparePlan, Before

\* Two candidates with the same keys are one.
LEMMA KeysTellApart ==
  ASSUME NEW snap \in Snapshots, NEW wants \in Preferences, NEW source \in StreamSpec,
         ValidSnapshot(snap),
         NEW a \in Candidates(snap, source, wants), NEW b \in Candidates(snap, source, wants),
         Key(a) = Key(b)
  PROVE  a = b
<1>a. PICK p \in 1..Len(wants), d \in 1..Len(snap), r \in Nat \ {0} :
        \E m \in snap[d].modes :
          a = CandidateOf(snap, source, p, d, m, r) /\ m \in OutputMode
  BY CandidateParts
<1>1. PICK m \in snap[d].modes :
        a = CandidateOf(snap, source, p, d, m, r) /\ m \in OutputMode
  BY <1>a
<1>b. PICK q \in 1..Len(wants), e \in 1..Len(snap), s \in Nat \ {0} :
        \E n \in snap[e].modes :
          b = CandidateOf(snap, source, q, e, n, s) /\ n \in OutputMode
  BY CandidateParts
<1>2. PICK n \in snap[e].modes :
        b = CandidateOf(snap, source, q, e, n, s) /\ n \in OutputMode
  BY <1>b
<1>3. a.pref = p /\ a.device = snap[d].id /\ a.mode = m /\ a.spec.rate = r
  BY <1>1 DEF CandidateOf, SpecAt
<1>4. b.pref = q /\ b.device = snap[e].id /\ b.mode = n /\ b.spec.rate = s
  BY <1>2 DEF CandidateOf, SpecAt
<1>5. /\ Key(a)[1] = a.pref /\ Key(a)[6] = -a.spec.rate
      /\ Key(a)[7] = a.device /\ Key(a)[8] = a.mode.id
  BY DEF Key
<1>6. /\ Key(b)[1] = b.pref /\ Key(b)[6] = -b.spec.rate
      /\ Key(b)[7] = b.device /\ Key(b)[8] = b.mode.id
  BY DEF Key
<1>7. p = q /\ -r = -s /\ snap[d].id = snap[e].id /\ m.id = n.id
  BY <1>3, <1>4, <1>5, <1>6
<1>8. r = s
  BY <1>7
<1>9. d = e
  BY <1>7, DeviceIdsDiffer
<1>10. m = n
  <2>1. d \in DOMAIN snap
    BY InputTypes
  <2> QED
    BY <1>7, <1>9, <2>1, InputAssumption
<1> QED
  BY <1>1, <1>2, <1>7, <1>8, <1>9, <1>10

\* A snapshot has finitely many modes.
LEMMA FinitelyManyModes ==
  ASSUME NEW snap \in Snapshots
  PROVE  IsFiniteSet(UNION {snap[i].modes : i \in DOMAIN snap})
<1> DEFINE S == {snap[i].modes : i \in DOMAIN snap}
           f == [i \in DOMAIN snap |-> snap[i].modes]
<1>1. f \in Surjection(DOMAIN snap, S)
  BY Fun_IsSurj
<1>2. IsFiniteSet(DOMAIN snap)
  BY SnapshotTypes, FS_Interval
<1>3. IsFiniteSet(S)
  BY <1>1, <1>2, FS_Surjection
<1>4. \A T \in S : IsFiniteSet(T)
  BY InputAssumption
<1>5. UNION {snap[i].modes : i \in DOMAIN snap} = UNION S
  OBVIOUS
<1> HIDE DEF S
<1> QED
  BY <1>3, <1>4, <1>5, FS_UNION

\* The rates that modes have.
RatesOf(M) == UNION {m.min..m.max : m \in M}

\* Finitely many modes have finitely many rates between their bounds.
LEMMA FinitelyManyRates ==
  ASSUME NEW M, IsFiniteSet(M), M \subseteq OutputMode
  PROVE  IsFiniteSet(RatesOf(M))
<1> DEFINE S == {m.min..m.max : m \in M}
           f == [m \in M |-> m.min..m.max]
<1>1. f \in Surjection(M, S)
  BY Fun_IsSurj
<1>3. IsFiniteSet(S)
  BY <1>1, FS_Surjection
<1>4. \A T \in S : IsFiniteSet(T)
  BY FS_Interval DEF OutputMode
<1>5. RatesOf(M) = UNION S
  BY DEF RatesOf
<1> HIDE DEF S
<1> QED
  BY <1>3, <1>4, <1>5, FS_UNION

\* There are finitely many candidates.
LEMMA FinitelyManyCandidates ==
  ASSUME NEW snap \in Snapshots, NEW wants \in Preferences, NEW source \in StreamSpec,
         ValidSnapshot(snap)
  PROVE  IsFiniteSet(Candidates(snap, source, wants))
<1> DEFINE M == UNION {snap[i].modes : i \in DOMAIN snap}
           C == Candidates(snap, source, wants)
<1>1. IsFiniteSet(M)
  BY FinitelyManyModes
<1>2. M \subseteq OutputMode
  BY InputTypes DEF OutputDevice
<1> HIDE DEF M, C
<1>3. IsFiniteSet(RatesOf(M))
  BY <1>1, <1>2, FinitelyManyRates
<1> DEFINE A == (1..Len(wants)) \X (1..Len(snap))
           B == M \X RatesOf(M)
           D == A \X B
           f == [t \in D |-> CandidateOf(snap, source, t[1][1], t[1][2], t[2][1], t[2][2])]
           T == {f[t] : t \in D}
<1>4. IsFiniteSet(A)
  <2>1. IsFiniteSet(1..Len(wants)) /\ IsFiniteSet(1..Len(snap))
    BY FS_Interval, InputTypes
  <2> QED
    BY <2>1, FS_Product
<1>5. IsFiniteSet(B)
  BY <1>1, <1>3, FS_Product
<1> HIDE DEF A, B
<1>6. IsFiniteSet(D)
  BY <1>4, <1>5, FS_Product
<1>7. C \subseteq T
  <2> SUFFICES ASSUME NEW c \in C PROVE c \in T
    OBVIOUS
  <2>1. PICK p \in 1..Len(wants), d \in 1..Len(snap), r \in Nat \ {0} :
          \E m \in snap[d].modes :
            /\ c = CandidateOf(snap, source, p, d, m, r)
            /\ m \in OutputMode /\ r >= m.min /\ r <= m.max
    BY CandidateParts DEF C
  <2>2. PICK m \in snap[d].modes :
          /\ c = CandidateOf(snap, source, p, d, m, r)
          /\ m \in OutputMode /\ r >= m.min /\ r <= m.max
    BY <2>1
  <2>3. d \in DOMAIN snap
    BY InputTypes
  <2>4. m \in M
    BY <2>3 DEF M
  <2>5. r \in m.min..m.max
    BY <2>2 DEF OutputMode
  <2>6. r \in RatesOf(M)
    BY <2>4, <2>5 DEF RatesOf
  <2>7. <<p, d>> \in A
    BY DEF A
  <2>8. <<m, r>> \in B
    BY <2>4, <2>6 DEF B
  <2>9. <<<<p, d>>, <<m, r>>>> \in D
    BY <2>7, <2>8
  <2>10. f[<<<<p, d>>, <<m, r>>>>] = c
    BY <2>2, <2>9
  <2> QED
    BY <2>9, <2>10
<1> HIDE DEF D
<1>8. f \in Surjection(D, T)
  BY Fun_IsSurj
<1>9. IsFiniteSet(T)
  BY <1>6, <1>8, FS_Surjection
<1> HIDE DEF f, T
<1> QED
  BY <1>7, <1>9, FS_Subset DEF C

\* Among finitely many things that are ordered there is a first one.
LEMMA FirstOfFinite ==
  ASSUME NEW C, IsFiniteSet(C), C # {}, NEW R \in SUBSET (C \X C),
         \A a \in C : <<a, a>> \notin R,
         \A a, b \in C : a # b => <<a, b>> \in R \/ <<b, a>> \in R,
         \A a, b, c \in C : <<a, b>> \in R /\ <<b, c>> \in R => <<a, c>> \in R
  PROVE  \E c \in C : \A o \in C : o # c => <<c, o>> \in R
<1> DEFINE lower(c) == {x \in C : <<x, c>> \in R}
           N == {Cardinality(lower(c)) : c \in C}
<1>1. \A c \in C : IsFiniteSet(lower(c)) /\ Cardinality(lower(c)) \in Nat
  BY FS_Subset, FS_CardinalityType
<1>2. N \subseteq Nat /\ N # {}
  <2>1. \A c \in C : Cardinality(lower(c)) \in N
    OBVIOUS
  <2>2. PICK c : c \in C
    OBVIOUS
  <2>3. N # {}
    BY <2>1, <2>2
  <2>4. N \subseteq Nat
    <3> HIDE DEF lower
    <3> QED
      BY <1>1
  <2> QED
    BY <2>3, <2>4
<1>3. PICK n \in N : \A k \in N : n <= k
  BY <1>2, MinOfNats
<1>4. PICK c \in C : n = Cardinality(lower(c))
  OBVIOUS
<1>5. ASSUME NEW o \in C, o # c, <<c, o>> \notin R PROVE FALSE
  <2>1. <<o, c>> \in R
    BY <1>5
  <2>2. lower(o) \subseteq lower(c)
    BY <2>1
  <2>3. o \in lower(c) /\ o \notin lower(o)
    BY <2>1
  <2>4. Cardinality(lower(o)) <= Cardinality(lower(c))
          /\ (Cardinality(lower(o)) = Cardinality(lower(c)) => lower(o) = lower(c))
    <3> HIDE DEF lower
    <3> QED
      BY <1>1, <2>2, FS_Subset
  <2>5. n <= Cardinality(lower(o))
    <3>1. Cardinality(lower(o)) \in N
      OBVIOUS
    <3> HIDE DEF N
    <3> QED
      BY <1>3, <3>1
  <2> HIDE DEF lower
  <2> QED
    BY <1>1, <1>4, <2>3, <2>4, <2>5
<1> QED
  BY <1>5

\* The plan is a candidate, and comes before every other.
LEMMA PlanIsFirst ==
  ASSUME NEW snap \in Snapshots, NEW wants \in Preferences, NEW source \in StreamSpec,
         Plannable(snap, source, wants)
  PROVE  /\ PlanOutput(snap, source, wants) \in Candidates(snap, source, wants)
         /\ \A o \in Candidates(snap, source, wants) :
              o # PlanOutput(snap, source, wants) =>
                ComparePlan(PlanOutput(snap, source, wants), o)
<1> DEFINE C == Candidates(snap, source, wants)
           R == {t \in C \X C : ComparePlan(t[1], t[2])}
<1>1. ValidSnapshot(snap) /\ C # {} /\ IsFiniteSet(C)
  BY FinitelyManyCandidates DEF Plannable
<1>2. \A a \in C : a \in Candidate /\ Key(a) \in [1..8 -> Int]
  BY <1>1, CandidateType, KeysAreIntegers
<1>3. ASSUME NEW a \in C, NEW b \in C
      PROVE  ComparePlan(a, b) <=> Before(Key(a), Key(b))
  BY <1>2, CompareIsBefore
<1>4. \A a \in C : \A b \in C : Key(a) = Key(b) => a = b
  BY <1>1, KeysTellApart
<1> HIDE DEF C
<1>5. \A a \in C : \A b \in C : <<a, b>> \in R <=> Before(Key(a), Key(b))
  BY <1>3
<1>6. \A a \in C : <<a, a>> \notin R
  BY <1>2, <1>5, BeforeIsIrreflexive
<1>7. \A a, b \in C : a # b => <<a, b>> \in R \/ <<b, a>> \in R
  <2> SUFFICES ASSUME NEW a \in C, NEW b \in C, a # b
               PROVE  <<a, b>> \in R \/ <<b, a>> \in R
    OBVIOUS
  <2>1. Key(a) # Key(b)
    BY <1>4
  <2>2. Before(Key(a), Key(b)) \/ Before(Key(b), Key(a))
    BY <1>2, <2>1, BeforeIsTotal
  <2> QED
    BY <1>5, <2>2
<1>8. \A a, b, c \in C : <<a, b>> \in R /\ <<b, c>> \in R => <<a, c>> \in R
  <2> SUFFICES ASSUME NEW a \in C, NEW b \in C, NEW c \in C, <<a, b>> \in R, <<b, c>> \in R
               PROVE  <<a, c>> \in R
    OBVIOUS
  <2>1. Before(Key(a), Key(b)) /\ Before(Key(b), Key(c))
    BY <1>5
  <2>2. Before(Key(a), Key(c))
    BY <1>2, <2>1, BeforeIsTransitive
  <2> QED
    BY <1>5, <2>2
<1>9. R \in SUBSET (C \X C)
  OBVIOUS
<1> HIDE DEF R
<1>10. PICK c \in C : \A o \in C : o # c => <<c, o>> \in R
  BY <1>1, <1>6, <1>7, <1>8, <1>9, FirstOfFinite
<1>11. \A o \in C : o # c => ComparePlan(c, o)
  BY <1>3, <1>5, <1>10
<1> QED
  BY <1>11 DEF C, PlanOutput

-----------------------------------------------------------------------------
(***************************************************************************)
(* The session: its plan is the one for the snapshot it was made from, its *)
(* chain converts from the stream's format to the plan's, the workspace is *)
(* the one for that chain.  The chain counts the steps of the source rate: *)
(* rpos is how far the next one lies behind the last frame submitted.      *)
(***************************************************************************)

ChainType ==
  [source : StreamSpec,
   spec : [rate : Nat \ {0}, channels : Nat \ {0}, encoding : Encodings],
   rpos : Nat, has : BOOLEAN, prev : Nat, fed : Nat, made : Nat]

SessionInv ==
  /\ phase \in {"new", "prepared"} => sent = <<>>
  /\ phase = "submit" => block # <<>>
  /\ phase \in Running =>
       /\ snapshot \in Snapshots /\ Plannable(snapshot, SourceSpec, prefs)
       /\ plan = PlanOutput(snapshot, SourceSpec, prefs)
       /\ chain \in ChainType /\ chain.source = SourceSpec /\ chain.spec = plan.spec
       /\ work = Workspace(chain, MaxSamples)

Steady(c) ==
  IF SameRate(c) THEN c.made = c.fed
  ELSE IF c.fed = 0 THEN ~c.has /\ c.rpos = 0 /\ c.made = 0
  ELSE /\ c.has /\ c.prev = c.fed - 1
       /\ c.made = CeilDiv((c.fed - 1) * c.spec.rate, c.source.rate)
       /\ c.rpos = c.made * c.source.rate - (c.fed - 1) * c.spec.rate

Placed(c, frames) ==
  \A k \in DOMAIN frames :
    LET j == c.made - Len(frames) + k - 1
    IN  /\ frames[k].base = (j * c.source.rate) \div c.spec.rate
        /\ frames[k].phase = (j * c.source.rate) % c.spec.rate
        /\ frames[k].phase # 0 => frames[k].next = frames[k].base + 1

ConvertInv == phase \in Running => Steady(chain) /\ Placed(chain, sent)

\* More things take more multiples to reach.
LEMMA CeilDivGrows ==
  ASSUME NEW a \in Nat, NEW b \in Nat, NEW d \in Nat \ {0}, a <= b
  PROVE  CeilDiv(a, d) <= CeilDiv(b, d)
<1>1. PICK k \in Nat : k = CeilDiv(b, d) /\ ~(k * d < b)
  BY CeilDivides
<1>2. PICK h \in Nat : h = CeilDiv(a, d) /\ (k < h <=> k * d < a)
  BY CeilDivides
<1>3. PICK x \in Nat : x = k * d
  OBVIOUS
<1> QED
  BY <1>1, <1>2, <1>3

\* The number of multiples is where they reach.
LEMMA CeilDivUnique ==
  ASSUME NEW n \in Nat, NEW d \in Nat \ {0}, NEW m \in Nat,
         m * d >= n, m = 0 \/ (m - 1) * d < n
  PROVE  m = CeilDiv(n, d)
<1>1. PICK q \in Nat : q = CeilDiv(n, d) /\ \A k \in Nat : k < q <=> k * d < n
  BY CeilDivides
<1>2. ~(m < q)
  BY <1>1
<1>3. CASE m = 0
  BY <1>1, <1>2, <1>3
<1>4. CASE m # 0
  <2>1. m - 1 \in Nat
    BY <1>4
  <2>2. m - 1 < q
    BY <1>1, <1>4, <2>1
  <2> QED
    BY <1>1, <1>2, <2>2
<1> QED
  BY <1>3, <1>4

-----------------------------------------------------------------------------
(* What convert_f32_stateful computes, name by name.                       *)

OffsetOf(c) == IF c.has THEN 1 ELSE 0
StepAt(c, k) == c.rpos + k * c.source.rate
StepsMade(c, n, room) ==
  Cardinality({k \in 0..(room - 1) :
                 StepAt(c, k) + c.spec.rate < (n + OffsetOf(c)) * c.spec.rate})
PreviousOf(c, n, room) ==
  Min({Max({(StepAt(c, StepsMade(c, n, room)) \div c.spec.rate) - OffsetOf(c), 0}), n - 1})

\* The frames that are left before the last one of a block.
LeftOf(c, n) ==
  LET z == ((n + OffsetOf(c)) - 1) * c.spec.rate
  IN  IF z > c.rpos THEN z - c.rpos ELSE 0

\* The frames that convert_f32_stateful makes, with the names above.
LEMMA StatefulFrames ==
  ASSUME NEW c, NEW n, NEW room
  PROVE  Stateful(c, n, room).frames =
           [k \in 1..StepsMade(c, n, room) |->
              [base  |-> SequenceFrame(c, n, OffsetOf(c), StepAt(c, k - 1) \div c.spec.rate),
               next  |-> SequenceFrame(c, n, OffsetOf(c), (StepAt(c, k - 1) \div c.spec.rate) + 1),
               phase |-> StepAt(c, k - 1) % c.spec.rate]]
BY DEF Stateful, OffsetOf, StepAt, StepsMade

\* The chain it leaves, with the names above.
LEMMA StatefulChain ==
  ASSUME NEW c, NEW n, NEW room
  PROVE  Stateful(c, n, room).chain =
           [c EXCEPT !.has = TRUE, !.prev = c.fed + PreviousOf(c, n, room),
                     !.rpos = Max({0, StepAt(c, StepsMade(c, n, room))
                                        - ((n + OffsetOf(c)) - 1) * c.spec.rate}),
                     !.fed = c.fed + n, !.made = c.made + StepsMade(c, n, room)]
BY DEF Stateful, OffsetOf, StepAt, StepsMade, PreviousOf

\* The number of frames made of a block: all the steps, when there is room.
LEMMA StepsMadeIs ==
  ASSUME NEW c \in ChainType, NEW n \in Nat \ {0}, NEW room \in Nat
  PROVE  /\ LeftOf(c, n) \in Nat /\ LeftOf(c, n) <= n * c.spec.rate
         /\ CeilDiv(LeftOf(c, n), c.source.rate) \in Nat
         /\ StepsMade(c, n, room) = IF CeilDiv(LeftOf(c, n), c.source.rate) <= room
                                    THEN CeilDiv(LeftOf(c, n), c.source.rate) ELSE room
         /\ StepsMade(c, n, room) \in Nat
<1>1. PICK in \in Nat \ {0}, out \in Nat \ {0}, rpos \in Nat :
        in = c.source.rate /\ out = c.spec.rate /\ rpos = c.rpos
  BY DEF ChainType, StreamSpec
<1>2. PICK L \in Nat : L = n + OffsetOf(c) - 1 /\ L <= n /\ n + OffsetOf(c) = L + 1
  BY DEF OffsetOf
<1>3. PICK z \in Nat : z = L * out
  OBVIOUS
<1>0. PICK X : X = IF z > rpos THEN z - rpos ELSE 0
  OBVIOUS
<1>4. X \in Nat /\ X = (IF z > rpos THEN z - rpos ELSE 0) /\ X <= z
  BY <1>0
<1>5. LeftOf(c, n) = X
  BY <1>1, <1>2, <1>3, <1>4 DEF LeftOf
<1>6. X <= n * out
  <2>1. L * out <= n * out
    BY <1>2, Times
  <2>2. PICK y \in Nat : y = n * out
    OBVIOUS
  <2> QED
    BY <1>3, <1>4, <2>1, <2>2
<1>7. PICK S : /\ \A k : k \in S <=> k \in 0..(room - 1) /\ rpos + k * in + out < z + out
               /\ StepsMade(c, n, room) = Cardinality(S)
  <2>1. (n + OffsetOf(c)) * c.spec.rate = z + out
    BY <1>1, <1>2, <1>3
  <2> QED
    BY <1>1, <2>1 DEF StepsMade, StepAt
<1>8. PICK K \in Nat : K = CeilDiv(X, in) /\ \A k \in Nat : k < K <=> k * in < X
  BY <1>4, CeilDivides
<1>9. StepsMade(c, n, room) = IF K <= room THEN K ELSE room
  <2>1. PICK M \in Nat : M = IF K <= room THEN K ELSE room
    OBVIOUS
  <2>2. ASSUME NEW k \in Nat
        PROVE  rpos + k * in + out < z + out <=> k < K
    <3>1. PICK y \in Nat : y = k * in
      OBVIOUS
    <3>2. rpos + y + out < z + out <=> y < X
      BY <1>4
    <3> QED
      BY <1>8, <3>1, <3>2
  <2>3. ASSUME NEW k \in S PROVE k \in 0..(M - 1)
    BY <1>7, <2>1, <2>2
  <2>4. ASSUME NEW k \in 0..(M - 1) PROVE k \in S
    <3>1. k \in 0..(room - 1) /\ k < K
      BY <2>1
    <3> QED
      BY <1>7, <2>2, <3>1
  <2>5. S = 0..(M - 1)
    BY <2>3, <2>4
  <2>6. Cardinality(0..(M - 1)) = M
    BY FS_Interval
  <2> QED
    BY <1>7, <2>1, <2>5, <2>6
<1>10. StepsMade(c, n, room) \in Nat
  BY <1>8, <1>9
<1> QED
  BY <1>1, <1>4, <1>5, <1>6, <1>8, <1>9, <1>10

\* A list that is made item by item has as many items.
LEMMA ListMade ==
  ASSUME NEW n \in Nat, NEW f, DOMAIN f = 1..n, f = [k \in 1..n |-> f[k]]
  PROVE  Len(f) = n
<1> DEFINE S == {f[k] : k \in 1..n}
<1>1. f \in [1..n -> S]
  OBVIOUS
<1> HIDE DEF S
<1>2. f \in Seq(S)
  BY <1>1
<1>3. Len(f) \in Nat /\ DOMAIN f = 1..Len(f)
  BY <1>2, LenProperties
<1>4. 1..Len(f) = 1..n
  BY <1>3
<1> QED
  BY <1>3, <1>4

\* A quotient is where its number falls among the multiples.
LEMMA QuotientBounds ==
  ASSUME NEW a \in Int, NEW b \in Nat \ {0}, NEW m \in Int
  PROVE  /\ a >= m * b => a \div b >= m
         /\ a < m * b => a \div b < m
<1>1. PICK q \in Int : q = a \div b
  BY Division
<1>2. PICK r \in 0..(b - 1) : a = b * q + r
  BY <1>1, Division
<1>3. ASSUME a >= m * b, q < m PROVE FALSE
  <2>1. (q + 1) * b <= m * b
    BY <1>3, Times
  <2>2. (q + 1) * b = b * q + b
    OBVIOUS
  <2>3. PICK x \in Int, y \in Int : x = b * q /\ y = m * b
    OBVIOUS
  <2> QED
    BY <1>2, <1>3, <2>1, <2>2, <2>3
<1>4. ASSUME a < m * b, q >= m PROVE FALSE
  <2>1. m * b <= q * b
    BY <1>4, Times
  <2>2. q * b = b * q
    OBVIOUS
  <2>3. PICK x \in Int, y \in Int : x = b * q /\ y = m * b
    OBVIOUS
  <2> QED
    BY <1>2, <1>4, <2>1, <2>2, <2>3
<1> QED
  BY <1>1, <1>3, <1>4

\* What is known where the steps of a block have been made.
LEMMA StepsEnd ==
  ASSUME NEW in \in Nat \ {0}, NEW rpos \in Nat, NEW z \in Nat, NEW X \in Nat,
         z > rpos => X = z - rpos, z <= rpos => X = 0, NEW K, K = CeilDiv(X, in)
  PROVE  /\ K \in Nat /\ rpos + K * in >= z
         /\ \A k \in Nat : k < K => rpos + k * in < z
<1>1. K \in Nat /\ \A k \in Nat : k < K <=> k * in < X
  BY CeilDivides
<1>2. rpos + K * in >= z
  <2>1. PICK y \in Nat : y = K * in
    BY <1>1
  <2>2. ~(y < X)
    BY <1>1, <2>1
  <2> QED
    BY <2>1, <2>2
<1>3. ASSUME NEW k \in Nat, k < K PROVE rpos + k * in < z
  <2>1. PICK y \in Nat : y = k * in
    OBVIOUS
  <2>2. y < X
    BY <1>1, <1>3, <2>1
  <2> QED
    BY <2>1, <2>2
<1> QED
  BY <1>1, <1>2, <1>3

\* With room for them all, the steps of a block leave a steady chain.
LEMMA StatefulSteady ==
  ASSUME NEW c \in ChainType, NEW n \in Nat \ {0}, NEW room \in Nat,
         ~SameRate(c), Steady(c), CeilDiv(LeftOf(c, n), c.source.rate) <= room
  PROVE  LET r == Stateful(c, n, room)
         IN  /\ r.chain \in ChainType /\ r.chain.source = c.source /\ r.chain.spec = c.spec
             /\ Steady(r.chain)
             /\ r.chain.made = c.made + StepsMade(c, n, room)
             /\ r.chain.fed = c.fed + n
<1>1. PICK in \in Nat \ {0}, out \in Nat \ {0}, rpos \in Nat :
        in = c.source.rate /\ out = c.spec.rate /\ rpos = c.rpos
  BY DEF ChainType, StreamSpec
<1>2. PICK fed \in Nat, made \in Nat : fed = c.fed /\ made = c.made
  BY DEF ChainType
<1>3. PICK off \in {0, 1} : off = OffsetOf(c)
  BY DEF OffsetOf
<1>4. off = 0 <=> fed = 0
  BY <1>2, <1>3 DEF Steady, OffsetOf
<1>5. PICK L \in Nat : L = (n + off) - 1
  BY <1>3
<1>6. PICK z \in Nat : z = L * out
  OBVIOUS
<1>7. PICK X \in Nat : X = LeftOf(c, n)
  BY StepsMadeIs
<1>8. X = IF z > rpos THEN z - rpos ELSE 0
  BY <1>1, <1>3, <1>5, <1>6, <1>7 DEF LeftOf
<1>9. PICK K \in Nat : K = CeilDiv(X, in) /\ rpos + K * in >= z
                         /\ \A k \in Nat : k < K => rpos + k * in < z
  <2>1. (z > rpos => X = z - rpos) /\ (z <= rpos => X = 0)
    BY <1>8
  <2>2. PICK K : K = CeilDiv(X, in)
    OBVIOUS
  <2>3. K \in Nat /\ rpos + K * in >= z /\ \A k \in Nat : k < K => rpos + k * in < z
    BY <2>1, <2>2, StepsEnd
  <2> QED
    BY <2>2, <2>3
<1>10. StepsMade(c, n, room) = K
  BY <1>1, <1>7, <1>9, StepsMadeIs
<1>11. PICK at \in Nat : at = StepAt(c, K) /\ at = rpos + K * in /\ at >= z
  <2>1. PICK x \in Nat : x = K * in
    OBVIOUS
  <2> QED
    BY <1>1, <1>9, <2>1 DEF StepAt
<1>12. PreviousOf(c, n, room) = n - 1
  <2>1. PICK q \in Int : q = at \div out /\ q >= L
    <3>1. at \div out >= L
      BY <1>6, <1>11, QuotientBounds
    <3>2. at \div out \in Int
      BY Division
    <3> QED
      BY <3>1, <3>2
  <2>2. Max({q - off, 0}) = q - off
    BY <1>5, <2>1, MaxOfTwo
  <2>3. Min({q - off, n - 1}) = n - 1
    BY <1>5, <2>1, MinOfTwo
  <2> QED
    BY <1>1, <1>3, <1>10, <1>11, <2>1, <2>2, <2>3 DEF PreviousOf
<1>13. Max({0, at - z}) = at - z
  BY <1>11, MaxOfTwo
<1>14. Stateful(c, n, room).chain =
         [c EXCEPT !.has = TRUE, !.prev = fed + (n - 1), !.rpos = at - z,
                   !.fed = fed + n, !.made = made + K]
  <2>1. ((n + OffsetOf(c)) - 1) * c.spec.rate = z
    BY <1>1, <1>3, <1>5, <1>6
  <2>2. Stateful(c, n, room).chain =
          [c EXCEPT !.has = TRUE, !.prev = c.fed + PreviousOf(c, n, room),
                    !.rpos = Max({0, StepAt(c, StepsMade(c, n, room))
                                       - ((n + OffsetOf(c)) - 1) * c.spec.rate}),
                    !.fed = c.fed + n, !.made = c.made + StepsMade(c, n, room)]
    BY StatefulChain, ZenonT(60)
  <2>3. Max({0, StepAt(c, StepsMade(c, n, room)) - ((n + OffsetOf(c)) - 1) * c.spec.rate}) = at - z
    BY <1>10, <1>11, <1>13, <2>1
  <2> QED
    BY <1>2, <1>10, <1>12, <2>2, <2>3
<1>15. PICK d : d = Stateful(c, n, room).chain
  OBVIOUS
<1>16. /\ d \in ChainType /\ d.source = c.source /\ d.spec = c.spec
       /\ d.has = TRUE /\ d.prev = (fed + n) - 1 /\ d.rpos = at - z
       /\ d.fed = fed + n /\ d.made = made + K
  <2>1. fed + (n - 1) \in Nat /\ at - z \in Nat /\ fed + n \in Nat /\ made + K \in Nat
          /\ fed + (n - 1) = (fed + n) - 1
    BY <1>11
  <2> QED
    BY <1>14, <1>15, <2>1, ZenonT(60) DEF ChainType
<1>17. PICK v \in Nat : v = ((fed + n) - 1) * out
  OBVIOUS
<1>18. made + K = CeilDiv(v, in) /\ at - z = (made + K) * in - v
  <2>1. CASE fed = 0
    <3>1. rpos = 0 /\ made = 0
      BY <1>1, <1>2, <2>1 DEF Steady
    <3>2. v = z
      BY <1>4, <1>5, <1>6, <1>17, <2>1
    <3>3. X = z
      BY <1>8, <3>1
    <3> QED
      BY <1>9, <1>11, <3>1, <3>2, <3>3
  <2>2. CASE fed # 0
    <3>1. PICK y \in Nat : y = (fed - 1) * out
      BY <2>2
    <3>2. made = CeilDiv(y, in) /\ rpos = made * in - y
      BY <1>1, <1>2, <2>2, <3>1 DEF Steady
    <3>3. v = y + z
      <4>1. L = n
        BY <1>4, <1>5, <2>2
      <4>2. ((fed + n) - 1) * out = (fed - 1) * out + n * out
        BY <2>2
      <4> QED
        BY <1>6, <1>17, <3>1, <4>1, <4>2
    <3>4. PICK x \in Nat, w \in Nat : x = made * in /\ w = K * in /\ (made + K) * in = x + w
      OBVIOUS
    <3>5. (made + K) * in >= v
      BY <1>9, <3>2, <3>3, <3>4
    <3>6. made + K = 0 \/ ((made + K) - 1) * in < v
      <4>1. CASE K = 0
        <5>1. made = 0 \/ (made - 1) * in < y
          <6>1. made # 0 => made - 1 \in Nat /\ made - 1 < made
            OBVIOUS
          <6> QED
            BY <3>2, <6>1, CeilDivides
        <5>2. made # 0 => ((made + K) - 1) * in = (made - 1) * in /\ (made - 1) * in \in Nat
          BY <4>1
        <5> QED
          BY <3>3, <4>1, <5>1, <5>2
      <4>2. CASE K # 0
        <5>1. K - 1 \in Nat /\ rpos + (K - 1) * in < z
          BY <1>9, <4>2
        <5>2. (K - 1) * in = w - in /\ ((made + K) - 1) * in = x + w - in
          BY <3>4
        <5> QED
          BY <3>2, <3>3, <3>4, <5>1, <5>2
      <4> QED
        BY <4>1, <4>2
    <3>7. made + K = CeilDiv(v, in)
      BY <3>5, <3>6, CeilDivUnique
    <3> QED
      BY <1>11, <3>2, <3>3, <3>4, <3>7
  <2> QED
    BY <2>1, <2>2
<1>19. Steady(d)
  <2>1. ~SameRate(d) /\ d.fed # 0 /\ d.source.rate = in /\ d.spec.rate = out
    BY <1>1, <1>16 DEF SameRate
  <2> QED
    BY <1>16, <1>17, <1>18, <2>1 DEF Steady
<1> QED
  BY <1>2, <1>10, <1>15, <1>16, <1>19

\* The frame at an index of the sequence: the frames since the one before the
\* last block, in order.
LEMMA SequenceInOrder ==
  ASSUME NEW c \in ChainType, NEW n \in Nat \ {0}, ~SameRate(c), Steady(c), NEW i \in Nat,
         i < n + OffsetOf(c)
  PROVE  SequenceFrame(c, n, OffsetOf(c), i) = (c.fed - OffsetOf(c)) + i
<1>1. PICK fed \in Nat : fed = c.fed
  BY DEF ChainType
<1>2. CASE fed = 0
  <2>1. OffsetOf(c) = 0 /\ i < n
    BY <1>1, <1>2 DEF Steady, OffsetOf
  <2>2. Min({i - 0, n - 1}) = i - 0
    BY <2>1, MinOfTwo
  <2> QED
    BY <1>1, <2>1, <2>2 DEF SequenceFrame
<1>3. CASE fed # 0
  <2>1. OffsetOf(c) = 1 /\ c.prev = fed - 1 /\ i < n + 1
    BY <1>1, <1>3 DEF Steady, OffsetOf
  <2>2. Min({i - 1, n - 1}) = i - 1
    BY <2>1, MinOfTwo
  <2> QED
    BY <1>1, <2>1, <2>2 DEF SequenceFrame
<1> QED
  BY <1>2, <1>3

\* With room for them all, the frames made of a block lie where the steps of
\* the source rate fall.
LEMMA StatefulPlaced ==
  ASSUME NEW c \in ChainType, NEW n \in Nat \ {0}, NEW room \in Nat,
         ~SameRate(c), Steady(c), CeilDiv(LeftOf(c, n), c.source.rate) <= room
  PROVE  /\ Placed(Stateful(c, n, room).chain, Stateful(c, n, room).frames)
         /\ Len(Stateful(c, n, room).frames) = StepsMade(c, n, room)
<1>1. PICK in \in Nat \ {0}, out \in Nat \ {0}, rpos \in Nat :
        in = c.source.rate /\ out = c.spec.rate /\ rpos = c.rpos
  BY DEF ChainType, StreamSpec
<1>2. PICK fed \in Nat, made \in Nat : fed = c.fed /\ made = c.made
  BY DEF ChainType
<1>3. PICK off \in {0, 1} : off = OffsetOf(c)
  BY DEF OffsetOf
<1>4. off = 0 <=> fed = 0
  BY <1>2, <1>3 DEF Steady, OffsetOf
<1>5. PICK L \in Nat : L = (n + off) - 1
  BY <1>3
<1>6. PICK z \in Nat : z = L * out
  OBVIOUS
<1>7. PICK X \in Nat : X = LeftOf(c, n)
  BY StepsMadeIs
<1>8. X = IF z > rpos THEN z - rpos ELSE 0
  BY <1>1, <1>3, <1>5, <1>6, <1>7 DEF LeftOf
<1>9. PICK K \in Nat : K = CeilDiv(X, in) /\ \A k \in Nat : k < K => rpos + k * in < z
  <2>1. (z > rpos => X = z - rpos) /\ (z <= rpos => X = 0)
    BY <1>8
  <2>2. PICK K : K = CeilDiv(X, in)
    OBVIOUS
  <2>3. K \in Nat /\ \A k \in Nat : k < K => rpos + k * in < z
    BY <2>1, <2>2, StepsEnd
  <2> QED
    BY <2>2, <2>3
<1>10. StepsMade(c, n, room) = K
  BY <1>1, <1>7, <1>9, StepsMadeIs
<1>11. PICK f : f = Stateful(c, n, room).frames
  OBVIOUS
<1>12. f = [k \in 1..K |->
              [base  |-> SequenceFrame(c, n, OffsetOf(c), StepAt(c, k - 1) \div c.spec.rate),
               next  |-> SequenceFrame(c, n, OffsetOf(c), (StepAt(c, k - 1) \div c.spec.rate) + 1),
               phase |-> StepAt(c, k - 1) % c.spec.rate]]
  BY <1>10, <1>11, StatefulFrames
<1>13. Len(f) = K
  <2>1. DOMAIN f = 1..K /\ f = [k \in 1..K |-> f[k]]
    BY <1>12
  <2> QED
    BY <2>1, ListMade
<1>14. PICK d : d = Stateful(c, n, room).chain /\ d.made = made + K
                  /\ d.source.rate = in /\ d.spec.rate = out
  BY <1>1, <1>2, <1>10, StatefulSteady
<1>15. ASSUME NEW k \in 1..K
       PROVE  /\ f[k].base = ((made + k - 1) * in) \div out
              /\ f[k].phase = ((made + k - 1) * in) % out
              /\ f[k].next = f[k].base + 1
  <2>1. PICK h \in Nat : h = k - 1 /\ h < K
    OBVIOUS
  <2>2. PICK at \in Nat : at = StepAt(c, h) /\ at = rpos + h * in /\ at < z
    <3>1. PICK x \in Nat : x = h * in
      OBVIOUS
    <3> QED
      BY <1>1, <1>9, <2>1, <3>1 DEF StepAt
  <2>b. /\ at \div out \in Int /\ at % out \in 0..(out - 1)
        /\ at = out * (at \div out) + (at % out)
    <3>1. at \in Int /\ out \in Nat \ {0}
      BY <2>2
    <3> QED
      BY <3>1, Division, Zenon
  <2>3. PICK i \in Int : i = at \div out
    BY <2>b
  <2>a. PICK ph \in 0..(out - 1) : ph = at % out
    BY <2>b
  <2>4. at = out * i + ph
    BY <2>b, <2>3, <2>a
  <2>5. i \in Nat /\ i < L
    <3>1. at \div out < L
      BY <1>6, <2>2, QuotientBounds
    <3>2. at >= 0 * out
      OBVIOUS
    <3>3. at \div out >= 0
      BY <3>2, QuotientBounds
    <3> QED
      BY <2>3, <3>1, <3>3
  <2>6. f[k] = [base  |-> SequenceFrame(c, n, OffsetOf(c), i),
                next  |-> SequenceFrame(c, n, OffsetOf(c), i + 1),
                phase |-> ph]
    <3>1. f[k] = [base  |-> SequenceFrame(c, n, OffsetOf(c), StepAt(c, k - 1) \div c.spec.rate),
                  next  |-> SequenceFrame(c, n, OffsetOf(c), (StepAt(c, k - 1) \div c.spec.rate) + 1),
                  phase |-> StepAt(c, k - 1) % c.spec.rate]
      BY <1>12
    <3> QED
      BY <1>1, <2>1, <2>2, <2>3, <2>a, <3>1
  <2>7. SequenceFrame(c, n, OffsetOf(c), i) = (fed - off) + i
    BY <1>2, <1>3, <1>5, <2>5, SequenceInOrder
  <2>8. SequenceFrame(c, n, OffsetOf(c), i + 1) = (fed - off) + (i + 1)
    BY <1>2, <1>3, <1>5, <2>5, SequenceInOrder
  <2>9. PICK m \in Int : m = (fed - off) + i
    BY <1>3
  <2>10. (made + k - 1) * in = out * m + ph
    <3>1. PICK x \in Nat, y \in Nat : x = made * in /\ y = h * in /\ (made + k - 1) * in = x + y
      BY <2>1
    <3>2. PICK w \in Int : w = out * i
      OBVIOUS
    <3>3. CASE fed = 0
      <4>1. rpos = 0 /\ made = 0 /\ m = i
        BY <1>1, <1>2, <1>3, <1>4, <2>9, <3>3 DEF Steady
      <4> QED
        BY <2>2, <2>4, <3>1, <3>2, <4>1
    <3>4. CASE fed # 0
      <4>1. PICK v \in Nat : v = (fed - 1) * out
        BY <3>4
      <4>2. rpos = x - v
        BY <1>1, <1>2, <3>1, <3>4, <4>1 DEF Steady
      <4>3. out * m = v + w
        BY <1>3, <1>4, <2>9, <3>2, <3>4, <4>1
      <4> QED
        BY <2>2, <2>4, <3>1, <3>2, <4>2, <4>3
    <3> QED
      BY <3>3, <3>4
  <2>11. ((made + k - 1) * in) \div out = m /\ ((made + k - 1) * in) % out = ph
    BY <2>10, DivisionUnique
  <2> QED
    BY <2>6, <2>7, <2>8, <2>9, <2>11
<1>16. Placed(d, f)
  <2> SUFFICES ASSUME NEW k \in DOMAIN f
               PROVE  LET j == d.made - Len(f) + k - 1
                      IN  /\ f[k].base = (j * d.source.rate) \div d.spec.rate
                          /\ f[k].phase = (j * d.source.rate) % d.spec.rate
                          /\ f[k].phase # 0 => f[k].next = f[k].base + 1
    BY DEF Placed
  <2>1. k \in 1..K
    BY <1>12
  <2>2. d.made - Len(f) + k - 1 = made + k - 1
    BY <1>13, <1>14, <2>1
  <2> QED
    BY <1>14, <1>15, <2>1, <2>2
<1> QED
  BY <1>10, <1>11, <1>13, <1>14, <1>16

\* With equal rates, an output frame is its source frame.
LEMMA StatelessPlaced ==
  ASSUME NEW c \in ChainType, NEW n \in Nat \ {0}, SameRate(c), Steady(c)
  PROVE  LET r == Stateless(c, n)
         IN  /\ r.chain \in ChainType /\ r.chain.source = c.source /\ r.chain.spec = c.spec
             /\ Steady(r.chain) /\ Placed(r.chain, r.frames)
             /\ Len(r.frames) = n
<1>1. PICK in \in Nat \ {0} : in = c.source.rate /\ in = c.spec.rate
  BY DEF ChainType, StreamSpec, SameRate
<1>2. PICK fed \in Nat : fed = c.fed /\ fed = c.made
  BY DEF ChainType, Steady
<1>3. PICK d : d = Stateless(c, n).chain
  OBVIOUS
<1>4. d = [c EXCEPT !.fed = fed + n, !.made = fed + n]
  BY <1>2, <1>3 DEF Stateless
<1>5. /\ d \in ChainType /\ d.source = c.source /\ d.spec = c.spec
      /\ d.fed = fed + n /\ d.made = fed + n
  <2>1. PICK g \in Nat : g = fed + n
    OBVIOUS
  <2>2. d = [c EXCEPT !.fed = g, !.made = g]
    BY <1>4, <2>1
  <2>3. d \in ChainType
    BY <2>2 DEF ChainType
  <2> QED
    BY <2>1, <2>2 DEF ChainType
<1>6. Steady(d)
  BY <1>5 DEF Steady, SameRate
<1>7. PICK f : f = Stateless(c, n).frames
  OBVIOUS
<1>8. f = [k \in 1..n |-> [base |-> (fed + k) - 1, next |-> fed + Min({k, n - 1}), phase |-> 0]]
  <2>1. \A k \in 1..n : (fed + k) - 1 = fed + (k - 1)
    OBVIOUS
  <2>2. f = [k \in 1..n |-> [base |-> fed + (k - 1), next |-> fed + Min({k, n - 1}), phase |-> 0]]
    BY <1>2, <1>7 DEF Stateless
  <2> QED
    BY <2>1, <2>2
<1>9. Len(f) = n
  <2>1. DOMAIN f = 1..n /\ f = [k \in 1..n |-> f[k]]
    BY <1>8
  <2> QED
    BY <2>1, ListMade
<1>10. Placed(d, f)
  <2> SUFFICES ASSUME NEW k \in DOMAIN f
               PROVE  LET j == d.made - Len(f) + k - 1
                      IN  /\ f[k].base = (j * d.source.rate) \div d.spec.rate
                          /\ f[k].phase = (j * d.source.rate) % d.spec.rate
                          /\ f[k].phase # 0 => f[k].next = f[k].base + 1
    BY DEF Placed
  <2>1. k \in 1..n
    BY <1>8
  <2>2. PICK j \in Nat : j = d.made - Len(f) + k - 1 /\ j = (fed + k) - 1
    BY <1>5, <1>9, <2>1
  <2>3. j * in = in * j + 0
    OBVIOUS
  <2>4. (j * in) \div in = j /\ (j * in) % in = 0
    BY <2>3, DivisionUnique
  <2>5. f[k].base = j /\ f[k].phase = 0
    BY <1>8, <2>1, <2>2
  <2> QED
    BY <1>1, <1>5, <2>2, <2>4, <2>5
<1> QED
  BY <1>3, <1>5, <1>6, <1>7, <1>9, <1>10

\* NeededFrames is more than the steps a block may take.
LEMMA NeededIsEnough ==
  ASSUME NEW c \in ChainType, NEW n \in Nat \ {0}
  PROVE  /\ NeededFrames(c, n) \in Nat
         /\ CeilDiv(LeftOf(c, n), c.source.rate) <= NeededFrames(c, n)
         /\ \A m \in Nat : n <= m => NeededFrames(c, n) <= NeededFrames(c, m)
         /\ SameRate(c) => n <= NeededFrames(c, n)
<1>1. PICK in \in Nat \ {0}, out \in Nat \ {0} : in = c.source.rate /\ out = c.spec.rate
  BY DEF ChainType, StreamSpec
<1>2. PICK X \in Nat : X = LeftOf(c, n) /\ X <= n * out
  BY <1>1, StepsMadeIs
<1>3. PICK y \in Nat : y = n * out
  OBVIOUS
<1>4. PICK q \in Nat : q = CeilDiv(y, in) /\ \A k \in Nat : k < q <=> k * in < y
  BY CeilDivides
<1>5. NeededFrames(c, n) = q + 2
  BY <1>1, <1>3, <1>4 DEF NeededFrames
<1>6. CeilDiv(X, in) \in Nat /\ CeilDiv(X, in) <= q
  BY <1>2, <1>3, <1>4, CeilDivGrows, CeilDivides
<1>7. ASSUME NEW m \in Nat, n <= m PROVE NeededFrames(c, n) <= NeededFrames(c, m)
  <2>1. PICK x \in Nat : x = m * out /\ y <= x
    <3>1. n * out <= m * out
      BY <1>7, Times
    <3>2. m * out \in Nat
      OBVIOUS
    <3> QED
      BY <1>3, <3>1, <3>2
  <2>2. CeilDiv(x, in) \in Nat /\ q <= CeilDiv(x, in)
    BY <1>4, <2>1, CeilDivGrows, CeilDivides
  <2> QED
    BY <1>1, <1>5, <2>1, <2>2 DEF NeededFrames
<1>8. ASSUME in = out PROVE n <= q
  <2>1. n - 1 \in Nat /\ (n - 1) * in = n * in - in
    OBVIOUS
  <2>2. PICK x \in Nat : x = n * in /\ x = y
    BY <1>3, <1>8
  <2>3. n - 1 < q
    BY <1>4, <2>1, <2>2
  <2> QED
    BY <2>3
<1> QED
  BY <1>1, <1>2, <1>5, <1>6, <1>7, <1>8 DEF SameRate

\* What a conversion that fits leaves: a steady chain, and frames in place.
LEMMA ConvertSteady ==
  ASSUME NEW c \in ChainType, NEW n \in Nat \ {0}, NEW w, Steady(c),
         Room(c, w) \in Nat, Required(c, n) <= Room(c, w)
  PROVE  LET r == Convert(c, n, w)
         IN  /\ r.chain \in ChainType /\ r.chain.source = c.source /\ r.chain.spec = c.spec
             /\ Steady(r.chain) /\ Placed(r.chain, r.frames)
             /\ Len(r.frames) \in Nat /\ Len(r.frames) <= NeededFrames(c, n)
<1>1. CASE SameRate(c)
  <2>1. Convert(c, n, w) = Stateless(c, n)
    BY <1>1 DEF Convert
  <2>2. n <= NeededFrames(c, n)
    BY <1>1, NeededIsEnough
  <2> QED
    BY <1>1, <2>1, <2>2, StatelessPlaced
<1>2. CASE ~SameRate(c)
  <2>1. PICK room \in Nat : room = Room(c, w)
    OBVIOUS
  <2>2. Convert(c, n, w) = Stateful(c, n, room)
    BY <1>2, <2>1 DEF Convert
  <2>3. PICK K \in Nat : K = CeilDiv(LeftOf(c, n), c.source.rate)
    BY StepsMadeIs
  <2>4. PICK q \in Nat : q = NeededFrames(c, n) /\ K <= q
    BY <2>3, NeededIsEnough
  <2>5. q <= room
    BY <1>2, <2>1, <2>4 DEF Required
  <2>6. K <= room
    BY <2>4, <2>5
  <2>7. /\ Stateful(c, n, room).chain \in ChainType
        /\ Stateful(c, n, room).chain.source = c.source
        /\ Stateful(c, n, room).chain.spec = c.spec
        /\ Steady(Stateful(c, n, room).chain)
    BY <1>2, <2>3, <2>6, StatefulSteady
  <2>8. /\ Placed(Stateful(c, n, room).chain, Stateful(c, n, room).frames)
        /\ Len(Stateful(c, n, room).frames) = StepsMade(c, n, room)
    BY <1>2, <2>3, <2>6, StatefulPlaced
  <2>9. StepsMade(c, n, room) = K
    BY <2>3, <2>6, StepsMadeIs
  <2> QED
    BY <2>2, <2>4, <2>7, <2>8, <2>9
<1> QED
  BY <1>1, <1>2

\* The workspace for full blocks has room for every block.
LEMMA EveryBlockFits ==
  ASSUME NEW c \in ChainType, Steady(c), NEW n \in Nat \ {0}, n <= BlockFrames,
         NEW samples, samples = BlockFrames * c.source.channels
  PROVE  Fits(c, n, Workspace(c, samples)) /\ Room(c, Workspace(c, samples)) \in Nat
<1>1. BlockFrames \in Nat \ {0}
  BY MediaAssumption
<1>2. PICK ch \in Nat \ {0}, oc \in Nat \ {0} : ch = c.source.channels /\ oc = c.spec.channels
  BY DEF ChainType, StreamSpec
<1>3. PICK B \in Nat : B = SpecBytes(c.spec)
  <2>1. c.spec.encoding \in Encodings
    BY DEF ChainType
  <2>2. PICK y \in Nat : y = Bits(c.spec.encoding) \div 8
    BY <2>1 DEF Bits, Encodings
  <2>3. oc * y \in Nat
    OBVIOUS
  <2> QED
    BY <1>2, <2>2, <2>3 DEF SpecBytes
<1>4. PICK s \in Nat : s = samples /\ s = BlockFrames * ch
  BY <1>1, <1>2
<1>5. s \div ch = BlockFrames
  <2>1. s = ch * BlockFrames + 0
    BY <1>1, <1>4
  <2> QED
    BY <1>1, <2>1, DivisionUnique
<1>6. PICK F \in Nat : F = NeededFrames(c, BlockFrames)
  BY <1>1, NeededIsEnough
<1>7. PICK y \in Nat : y = F * oc
  OBVIOUS
<1>8. PICK p \in Nat : p = Max({s, y}) /\ p >= s /\ p >= y
  BY MaxOfTwo
<1>9. PICK w : w = Workspace(c, samples)
  OBVIOUS
<1>10. w = [decode |-> s, processing |-> p, output |-> F * B]
  BY <1>2, <1>3, <1>4, <1>5, <1>6, <1>7, <1>8, <1>9 DEF Workspace
<1>11. PICK room \in Nat : room = Room(c, w) /\ F <= room
  <2>1. Room(c, w) = p \div oc
    BY <1>2, <1>10 DEF Room
  <2>2. p >= F * oc
    BY <1>7, <1>8
  <2>3. p \div oc >= F
    BY <2>2, QuotientBounds
  <2>4. p \div oc \in Int
    BY Division
  <2> QED
    BY <2>1, <2>3, <2>4
<1>12. n * c.source.channels <= s
  <2>1. n * ch <= BlockFrames * ch
    BY <1>1, Times
  <2> QED
    BY <1>2, <1>4, <2>1
<1>13. n * c.source.channels <= p
  <2>1. PICK x \in Nat : x = n * ch
    OBVIOUS
  <2> QED
    BY <1>2, <1>8, <1>12, <2>1
<1>14. PICK q \in Nat : q = NeededFrames(c, n) /\ q <= F
  BY <1>1, <1>6, NeededIsEnough
<1>15. Required(c, n) <= room
  <2>1. CASE SameRate(c)
    <3>1. n <= q
      BY <1>14, <2>1, NeededIsEnough
    <3> QED
      BY <1>11, <1>14, <2>1, <3>1 DEF Required
  <2>2. CASE ~SameRate(c)
    BY <1>11, <1>14, <2>2 DEF Required
  <2> QED
    BY <2>1, <2>2
<1>16. PICK l \in Nat : l = Len(Convert(c, n, w).frames) /\ l <= F
  <2>1. Len(Convert(c, n, w).frames) \in Nat /\ Len(Convert(c, n, w).frames) <= q
    BY <1>11, <1>14, <1>15, ConvertSteady
  <2> QED
    BY <1>14, <2>1
<1>17. l * B <= F * B
  BY <1>16, Times
<1>18. Fits(c, n, w)
  BY <1>3, <1>10, <1>11, <1>12, <1>13, <1>15, <1>16, <1>17 DEF Fits
<1> QED
  BY <1>9, <1>11, <1>18

-----------------------------------------------------------------------------
(***************************************************************************)
(* The steps of the session.                                               *)
(***************************************************************************)

\* What an open file is played as.
LEMMA SourceSpecType ==
  ASSUME TypeInv, phase \in Opened
  PROVE  SourceSpec \in StreamSpec /\ prefs \in Preferences
<1>1. file \in Files /\ Parses(file) /\ prefs \in Preferences
  BY DEF TypeInv
<1>2. file.rate \in Nat \ {0}
  BY <1>1, MediaAssumption, InputAssumption
<1>3. Channels(file) \in 1..8
  BY <1>1, ParsedFile
<1> QED
  BY <1>1, <1>2, <1>3 DEF SourceSpec, StreamSpec, Encodings

\* A chain as it is set up for a plan is steady.
LEMMA ChainSetUp ==
  ASSUME TypeInv, phase \in Opened, NEW snap \in Snapshots,
         Plannable(snap, SourceSpec, prefs),
         NEW p, p = PlanOutput(snap, SourceSpec, prefs),
         NEW c, \/ c = BuildChain(SourceSpec, p.spec)
                \/ \E d \in ChainType : d.source = SourceSpec /\ c = ReconfigureOutput(d, p.spec)
  PROVE  c \in ChainType /\ c.source = SourceSpec /\ c.spec = p.spec /\ Steady(c)
<1>1. SourceSpec \in StreamSpec /\ prefs \in Preferences
  BY SourceSpecType
<1>2. p \in Candidates(snap, SourceSpec, prefs) /\ ValidSnapshot(snap)
  BY <1>1, PlanIsFirst DEF Plannable
<1>3. p \in Candidate
  BY <1>1, <1>2, CandidateType
<1>4. p.spec \in [rate : Nat \ {0}, channels : Nat \ {0}, encoding : Encodings]
  BY <1>3 DEF Candidate
<1>5. c = [source |-> SourceSpec, spec |-> p.spec, rpos |-> 0, has |-> FALSE, prev |-> 0,
           fed |-> 0, made |-> 0]
  <2>1. CASE c = BuildChain(SourceSpec, p.spec)
    BY <2>1 DEF BuildChain
  <2>2. ASSUME NEW d \in ChainType, d.source = SourceSpec, c = ReconfigureOutput(d, p.spec)
        PROVE  c = [source |-> SourceSpec, spec |-> p.spec, rpos |-> 0, has |-> FALSE, prev |-> 0,
                    fed |-> 0, made |-> 0]
    BY <2>2 DEF ReconfigureOutput, ChainType
  <2> QED
    BY <2>1, <2>2
<1>6. c \in ChainType /\ c.source = SourceSpec /\ c.spec = p.spec
  BY <1>1, <1>4, <1>5 DEF ChainType
<1>7. Steady(c)
  BY <1>5 DEF Steady
<1> QED
  BY <1>6, <1>7

\* Nothing that no step changes changes the session.
LEMMA SessionKept ==
  ASSUME SessionInv, ConvertInv, file' = file, prefs' = prefs, snapshot' = snapshot,
         plan' = plan, chain' = chain, work' = work, sent' = sent,
         phase' \in Running => phase \in Running,
         phase' \in {"new", "prepared"} => phase \in {"new", "prepared"},
         phase' = "submit" => block' # <<>>
  PROVE  SessionInv' /\ ConvertInv'
<1>1. SourceSpec' = SourceSpec /\ MaxSamples' = MaxSamples
  BY DEF SourceSpec, MaxSamples
<1>2. SessionInv'
  BY <1>1 DEF SessionInv
<1>3. ConvertInv'
  BY DEF ConvertInv, Placed
<1> QED
  BY <1>2, <1>3

\* A session that has been planned anew.
LEMMA SessionMade ==
  ASSUME TypeInv, SessionInv, phase \in Opened, file' = file, prefs' = prefs,
         NEW snap \in Snapshots, Plannable(snap, SourceSpec, prefs),
         plan' = PlanOutput(snap, SourceSpec, prefs), snapshot' = snap,
         \/ chain' = BuildChain(SourceSpec, plan'.spec)
         \/ phase \in Running /\ chain' = ReconfigureOutput(chain, plan'.spec),
         work' = Workspace(chain', MaxSamples), sent' = <<>>,
         phase' = "top"
  PROVE  SessionInv' /\ ConvertInv'
<1>1. SourceSpec' = SourceSpec /\ MaxSamples' = MaxSamples
  BY DEF SourceSpec, MaxSamples
<1>2. phase \in Running => chain \in ChainType /\ chain.source = SourceSpec
  BY DEF SessionInv
<1>3. PICK p : p = PlanOutput(snap, SourceSpec, prefs) /\ p = plan'
  OBVIOUS
<1>4. PICK c : c = chain'
  OBVIOUS
<1>5. c \in ChainType /\ c.source = SourceSpec /\ c.spec = p.spec /\ Steady(c)
  <2>1. \/ c = BuildChain(SourceSpec, p.spec)
        \/ \E d \in ChainType : d.source = SourceSpec /\ c = ReconfigureOutput(d, p.spec)
    BY <1>2, <1>3, <1>4
  <2> QED
    BY <1>3, <2>1, ChainSetUp
<1>6. SessionInv'
  BY <1>1, <1>3, <1>4, <1>5 DEF SessionInv
<1>7. Placed(c, <<>>)
  BY DEF Placed
<1>8. ConvertInv'
  <2>1. Steady(chain') /\ Placed(chain', sent')
    BY <1>4, <1>5, <1>7
  <2> QED
    BY <2>1 DEF ConvertInv, Placed
<1> QED
  BY <1>6, <1>8

\* A block that is submitted fits, and leaves the chain steady.
LEMMA SubmitConverts ==
  ASSUME TypeInv, SessionInv, ConvertInv, Submit
  PROVE  SessionInv' /\ ConvertInv' /\ phase' = "top"
<1>1. phase = "submit" /\ phase \in Running /\ phase \in Opened /\ file' = file /\ prefs' = prefs
  BY DEF Submit, Opened, Running, inputVars
<1>2. SourceSpec' = SourceSpec /\ MaxSamples' = MaxSamples
  BY <1>1 DEF SourceSpec, MaxSamples
<1>3. chain \in ChainType /\ chain.source = SourceSpec /\ work = Workspace(chain, MaxSamples)
        /\ Steady(chain) /\ chain.spec = plan.spec
  BY <1>1 DEF SessionInv, ConvertInv
<1>4. PICK n \in Nat \ {0} : n = Len(block) /\ n <= BlockFrames
  BY <1>1 DEF TypeInv, SessionInv
<1>5. MaxSamples = BlockFrames * chain.source.channels
  BY <1>3 DEF MaxSamples, SourceSpec
<1>6. Fits(chain, n, work) /\ Room(chain, work) \in Nat
  BY <1>3, <1>4, <1>5, EveryBlockFits
<1>7. PICK r : r = Convert(chain, n, work)
  OBVIOUS
<1>8. /\ r.chain \in ChainType /\ r.chain.source = SourceSpec /\ r.chain.spec = plan.spec
      /\ Steady(r.chain) /\ Placed(r.chain, r.frames)
  <2>1. Required(chain, n) <= Room(chain, work)
    BY <1>6 DEF Fits
  <2> QED
    BY <1>3, <1>6, <1>7, <2>1, ConvertSteady
<1>9. /\ chain' = r.chain /\ sent' = r.frames /\ phase' = "top"
      /\ work' = work /\ plan' = plan /\ snapshot' = snapshot
  BY <1>4, <1>6, <1>7 DEF Submit
<1>10. Workspace(r.chain, MaxSamples) = Workspace(chain, MaxSamples)
  BY <1>3, <1>8 DEF Workspace, NeededFrames
<1>11. SessionInv'
  BY <1>1, <1>2, <1>3, <1>8, <1>9, <1>10 DEF SessionInv
<1>12. ConvertInv'
  <2>1. Steady(chain') /\ Placed(chain', sent')
    BY <1>8, <1>9
  <2> QED
    BY <2>1 DEF ConvertInv, Placed
<1> QED
  BY <1>9, <1>11, <1>12

\* Every step keeps the session, and never finds the workspace too small.
LEMMA SessionStep ==
  ASSUME TypeInv, SessionInv, ConvertInv, phase # "tooSmall", [Next]_vars
  PROVE  SessionInv' /\ ConvertInv' /\ phase' # "tooSmall"
<1> USE DEF Opened, Running, Final
<1>1. CASE OpenCodec
  BY <1>1, SessionKept DEF OpenCodec, inputVars, sessionVars
<1>2. ASSUME NEW snap \in Snapshots, OpenOutput(snap)
      PROVE  SessionInv' /\ ConvertInv' /\ phase' # "tooSmall"
  <2>1. CASE Plannable(snap, SourceSpec, prefs)
    <3>1. phase = "prepared" /\ phase' = "top" /\ sent' = sent /\ file' = file /\ prefs' = prefs
      BY <1>2, <2>1 DEF OpenOutput, inputVars
    <3>2. /\ plan' = PlanOutput(snap, SourceSpec, prefs) /\ snapshot' = snap
          /\ chain' = BuildChain(SourceSpec, plan'.spec) /\ work' = Workspace(chain', MaxSamples)
      BY <1>2, <2>1 DEF OpenOutput
    <3>3. sent' = <<>>
      BY <3>1 DEF SessionInv
    <3> QED
      BY <2>1, <3>1, <3>2, <3>3, SessionMade
  <2>2. CASE ~Plannable(snap, SourceSpec, prefs)
    BY <1>2, <2>2, SessionKept DEF OpenOutput, inputVars
  <2> QED
    BY <2>1, <2>2
<1>3. ASSUME NEW snap \in Snapshots, DeviceLost(snap) \/ SubmitLost(snap)
      PROVE  SessionInv' /\ ConvertInv' /\ phase' # "tooSmall"
  <2>1. /\ phase \in {"top", "submit"} /\ phase' = "top" /\ file' = file /\ prefs' = prefs
        /\ Plannable(snap, SourceSpec, prefs)
    BY <1>3 DEF DeviceLost, SubmitLost, inputVars
  <2>2. /\ plan' = PlanOutput(snap, SourceSpec, prefs) /\ snapshot' = snap /\ sent' = <<>>
        /\ chain' = ReconfigureOutput(chain, plan'.spec) /\ work' = Workspace(chain', MaxSamples)
    BY <1>3 DEF DeviceLost, SubmitLost, Rebind
  <2> QED
    BY <2>1, <2>2, SessionMade
<1>4. CASE OutputFails
  BY <1>4, SessionKept DEF OutputFails, inputVars, codecVars, sessionVars
<1>5. ASSUME NEW frame \in 0..(wav.total + 1), Seek(frame)
      PROVE  SessionInv' /\ ConvertInv' /\ phase' # "tooSmall"
  BY <1>5, SessionKept DEF Seek, inputVars, sessionVars
<1>6. CASE BeginRead
  BY <1>6, SessionKept DEF BeginRead, inputVars, sessionVars
<1>7. CASE ReadFrame
  BY <1>7, SessionKept DEF ReadFrame, MoreToRead, inputVars, sessionVars
<1>8. CASE ShortRead
  BY <1>8, SessionKept DEF ShortRead, MoreToRead, AfterRead, inputVars, sessionVars
<1>9. CASE ReadFails
  BY <1>9, SessionKept DEF ReadFails, MoreToRead, AfterRead, inputVars, sessionVars
<1>10. CASE EndRead
  BY <1>10, SessionKept DEF EndRead, AfterRead, inputVars, codecVars, sessionVars
<1>11. CASE Submit
  BY <1>11, SubmitConverts
<1>12. CASE UNCHANGED vars
  <2>1. phase' = "submit" => block' # <<>>
    BY <1>12 DEF vars, codecVars, SessionInv
  <2> QED
    BY <1>12, <2>1, SessionKept DEF vars, inputVars, sessionVars
<1> QED
  BY <1>1, <1>2, <1>3, <1>4, <1>5, <1>6, <1>7, <1>8, <1>9, <1>10, <1>11, <1>12 DEF Next, Loop

\* The session, in every reachable state.
LEMMA SessionCorrect ==
  Spec => [](TypeInv /\ SessionInv /\ ConvertInv /\ phase # "tooSmall")
<1>1. Init => TypeInv /\ SessionInv /\ ConvertInv /\ phase # "tooSmall"
  <2>1. Init => SessionInv /\ ConvertInv /\ phase # "tooSmall"
    BY DEF Init, SessionInv, ConvertInv, Running
  <2> QED
    BY <2>1, TypeInit
<1>2. TypeInv /\ SessionInv /\ ConvertInv /\ phase # "tooSmall" /\ [Next]_vars
        => (TypeInv /\ SessionInv /\ ConvertInv /\ phase # "tooSmall")'
  BY TypeStep, SessionStep
<1> QED
  BY <1>1, <1>2, PTL DEF Spec

\* The workspace that is made for a full block has room for every block there
\* is, whatever mode the session was replanned to: no block ever ends a stream.
THEOREM EveryBlockHasRoom == Spec => []WorkspaceSuffices
<1>1. TypeInv /\ SessionInv /\ ConvertInv /\ phase # "tooSmall" => WorkspaceSuffices
  BY DEF WorkspaceSuffices
<1> QED
  BY <1>1, SessionCorrect, PTL

\* However reads, seeks and buffers cut a stream into blocks, its output frames
\* lie where the steps of the source rate fall, and as many are made of it.
THEOREM BlocksDoNotShow == Spec => []SplitIndependent
<1>1. TypeInv /\ SessionInv /\ ConvertInv /\ phase # "tooSmall" => SplitIndependent
  <2> SUFFICES ASSUME phase \in Running, Steady(chain), Placed(chain, sent)
               PROVE  LET in  == chain.source.rate
                          out == chain.spec.rate
                      IN  /\ chain.made = IF in = out THEN chain.fed
                                          ELSE IF chain.fed = 0 THEN 0
                                          ELSE CeilDiv((chain.fed - 1) * out, in)
                          /\ \A k \in DOMAIN sent :
                               LET j == chain.made - Len(sent) + k - 1
                               IN  /\ sent[k].base = (j * in) \div out
                                   /\ sent[k].phase = (j * in) % out
                                   /\ sent[k].phase # 0 => sent[k].next = sent[k].base + 1
    BY DEF SplitIndependent, ConvertInv
  <2>1. chain.made = IF chain.source.rate = chain.spec.rate THEN chain.fed
                     ELSE IF chain.fed = 0 THEN 0
                     ELSE CeilDiv((chain.fed - 1) * chain.spec.rate, chain.source.rate)
    BY DEF Steady, SameRate
  <2> QED
    BY <2>1 DEF Placed
<1> QED
  BY <1>1, SessionCorrect, PTL

\* Among the candidates of the plan's own preference and priority, one that
\* converts nothing is never passed over for one that does.
THEOREM NothingConvertedNeedlessly == Spec => []NoNeedlessConversion
<1>1. TypeInv /\ SessionInv /\ ConvertInv /\ phase # "tooSmall" => NoNeedlessConversion
  <2> SUFFICES ASSUME TypeInv, SessionInv, phase \in Running
               PROVE  /\ \A c \in Candidates(snapshot, SourceSpec, prefs) : c.pref >= plan.pref
                      /\ ( /\ \E c \in Rivals : c.spec = SourceSpec
                           /\ ~\E c \in Rivals : Near(c) ) => plan.spec = SourceSpec
    BY DEF NoNeedlessConversion
  <2>1. SourceSpec \in StreamSpec /\ prefs \in Preferences
    BY SourceSpecType DEF Opened
  <2>2. /\ snapshot \in Snapshots /\ Plannable(snapshot, SourceSpec, prefs)
        /\ plan = PlanOutput(snapshot, SourceSpec, prefs)
    BY DEF SessionInv
  <2> DEFINE C == Candidates(snapshot, SourceSpec, prefs)
  <2>3. plan \in C /\ \A o \in C : o # plan => ComparePlan(plan, o)
    BY <2>1, <2>2, PlanIsFirst
  <2>4. \A c \in C : c \in Candidate /\ c.loss = Loss(SourceSpec, c.spec)
    BY <2>1, <2>2, CandidateType DEF Plannable
  <2>5. ASSUME NEW c \in C
        PROVE  /\ c.pref >= plan.pref
               /\ c.pref = plan.pref /\ c.priority = plan.priority => c.loss >= plan.loss
    <3>1. CASE c = plan
      BY <2>4, <3>1 DEF Candidate
    <3>2. CASE c # plan
      <4>1. PICK i \in DOMAIN Key(plan) :
              Key(plan)[i] < Key(c)[i] /\ \A j \in 1..(i - 1) : Key(plan)[j] = Key(c)[j]
        BY <2>3, <3>2 DEF ComparePlan
      <4>2. i \in 1..8
        BY <2>3, <2>4, KeysAreIntegers
      <4>3. /\ Key(plan)[1] = plan.pref /\ Key(plan)[2] = -plan.priority
            /\ Key(plan)[3] = plan.loss
        BY DEF Key
      <4>4. Key(c)[1] = c.pref /\ Key(c)[2] = -c.priority /\ Key(c)[3] = c.loss
        BY DEF Key
      <4>5. /\ c.pref \in Nat /\ plan.pref \in Nat /\ c.priority \in Int
            /\ plan.priority \in Int /\ c.loss \in Nat /\ plan.loss \in Nat
        BY <2>3, <2>4 DEF Candidate
      <4>6. CASE i = 1
        BY <4>1, <4>3, <4>4, <4>5, <4>6
      <4>7. CASE i = 2
        BY <4>1, <4>3, <4>4, <4>5, <4>7
      <4>8. CASE i = 3
        BY <4>1, <4>3, <4>4, <4>5, <4>8
      <4>9. CASE i > 3
        BY <4>1, <4>2, <4>3, <4>4, <4>5, <4>9
      <4> QED
        BY <4>2, <4>6, <4>7, <4>8, <4>9
    <3> QED
      BY <3>1, <3>2
  <2>6. ASSUME NEW c \in Rivals, c.spec = SourceSpec, ~\E o \in Rivals : Near(o)
        PROVE  plan.spec = SourceSpec
    <3>1. c \in C /\ c.pref = plan.pref /\ c.priority = plan.priority
      BY DEF Rivals
    <3>2. c.loss = 0
      <4>1. SourceSpec.rate \in Nat /\ SourceSpec.channels \in Nat
              /\ SourceSpec.encoding \in Encodings
        BY <2>1 DEF StreamSpec
      <4>2. Loss(SourceSpec, SourceSpec) = 0
        BY <2>1, <4>1, LossIsNat
      <4> QED
        BY <2>4, <2>6, <3>1, <4>2
    <3>3. plan.spec \in [rate : Nat \ {0}, channels : Nat \ {0}, encoding : Encodings]
            /\ plan.loss \in Nat
      BY <2>3, <2>4 DEF Candidate
    <3>4. plan.loss = 0
      BY <2>5, <3>1, <3>2, <3>3
    <3>5. Loss(SourceSpec, plan.spec) = 0
      BY <2>3, <2>4, <3>4
    <3>6. /\ RateLoss(SourceSpec.rate, plan.spec.rate) = 0
          /\ SourceSpec.channels = plan.spec.channels
          /\ SourceSpec.encoding = plan.spec.encoding
      BY <2>1, <3>3, <3>5, LossIsNat
    <3>7. plan \in Rivals
      BY <2>3 DEF Rivals
    <3>8. SourceSpec.rate = plan.spec.rate
      BY <2>6, <3>6, <3>7 DEF Near
    <3> QED
      BY <2>1, <3>3, <3>6, <3>8 DEF StreamSpec
  <2> QED
    BY <2>5, <2>6
<1> QED
  BY <1>1, SessionCorrect, PTL

-----------------------------------------------------------------------------
(***************************************************************************)
(* The encoding of a sample.                                               *)
(***************************************************************************)

\* Rounding moves a quotient by half a unit at most.
LEMMA RoundIsNear ==
  ASSUME NEW n \in Int, NEW d \in Nat \ {0}
  PROVE  Round(n, d) \in Int /\ 2 * (Round(n, d) * d) - 2 * n \in (-d)..d
<1>1. ASSUME NEW m \in Nat
      PROVE  RoundUp(m, d) \in Int /\ 2 * (RoundUp(m, d) * d) - 2 * m \in (-d)..d
  <2>1. /\ m \div d \in Int /\ m % d \in 0..(d - 1)
        /\ m = d * (m \div d) + (m % d)
    BY Division
  <2>2. PICK q \in Int : q = m \div d
    BY <2>1
  <2>3. PICK r \in 0..(d - 1) : r = m % d
    BY <2>1
  <2>4. PICK y \in Int : y = q * d /\ m = y + r /\ (q + 1) * d = y + d
    BY <2>1, <2>2, <2>3
  <2>5. CASE 2 * r >= d
    <3>1. RoundUp(m, d) = q + 1
      BY <2>2, <2>3, <2>5 DEF RoundUp
    <3> QED
      BY <2>4, <2>5, <3>1
  <2>6. CASE ~(2 * r >= d)
    <3>1. RoundUp(m, d) = q
      BY <2>2, <2>3, <2>6 DEF RoundUp
    <3> QED
      BY <2>4, <2>6, <3>1
  <2> QED
    BY <2>5, <2>6
<1>2. CASE n >= 0
  BY <1>1, <1>2 DEF Round
<1>3. CASE n < 0
  <2>1. PICK m \in Nat : m = -n
    BY <1>3
  <2>2. PICK R \in Int : R = RoundUp(m, d) /\ 2 * (R * d) - 2 * m \in (-d)..d
    BY <1>1
  <2>3. Round(n, d) = -R
    BY <1>3, <2>1, <2>2 DEF Round
  <2>4. PICK x \in Int : x = R * d /\ (-R) * d = -x
    BY <2>2
  <2> QED
    BY <2>1, <2>2, <2>3, <2>4
<1> QED
  BY <1>2, <1>3

\* Rounding stays between the whole numbers a quotient is between.
LEMMA RoundIsBounded ==
  ASSUME NEW n \in Int, NEW d \in Nat \ {0}, NEW m \in Int
  PROVE  /\ n <= m * d => Round(n, d) <= m
         /\ m * d <= n => m <= Round(n, d)
<1>1. PICK R \in Int : R = Round(n, d) /\ 2 * (R * d) - 2 * n \in (-d)..d
  BY RoundIsNear
<1>2. PICK x \in Int, y \in Int : x = R * d /\ y = m * d
  OBVIOUS
<1>3. ASSUME n <= m * d, R > m PROVE FALSE
  <2>1. (m + 1) * d <= R * d
    BY <1>3, Times
  <2>2. (m + 1) * d = y + d
    BY <1>2
  <2> QED
    BY <1>1, <1>2, <1>3, <2>1, <2>2
<1>4. ASSUME m * d <= n, R < m PROVE FALSE
  <2>1. (R + 1) * d <= m * d
    BY <1>4, Times
  <2>2. (R + 1) * d = x + d
    BY <1>2
  <2> QED
    BY <1>1, <1>2, <1>4, <2>1, <2>2
<1> QED
  BY <1>1, <1>3, <1>4

\* Rounding keeps the order.
LEMMA RoundIsMonotone ==
  ASSUME NEW n \in Int, NEW m \in Int, NEW d \in Nat \ {0}, n <= m
  PROVE  Round(n, d) <= Round(m, d)
<1>1. CASE n = m
  BY <1>1, RoundIsNear
<1>2. CASE n < m
  <2>1. PICK P \in Int : P = Round(n, d) /\ 2 * (P * d) - 2 * n \in (-d)..d
    BY RoundIsNear
  <2>2. PICK R \in Int : R = Round(m, d) /\ 2 * (R * d) - 2 * m \in (-d)..d
    BY RoundIsNear
  <2>3. PICK x \in Int, y \in Int : x = P * d /\ y = R * d
    OBVIOUS
  <2>4. ASSUME P > R PROVE FALSE
    <3>1. (R + 1) * d <= P * d
      BY <2>4, Times
    <3>2. (R + 1) * d = y + d
      BY <2>3
    <3> QED
      BY <1>2, <2>1, <2>2, <2>3, <3>1, <3>2
  <2> QED
    BY <2>1, <2>2, <2>4
<1> QED
  BY <1>1, <1>2

\* A clamp that has nothing to do.
LEMMA ClampKeeps ==
  ASSUME NEW lo \in Int, NEW hi \in Int, NEW v \in lo..hi
  PROVE  Clamp(v, lo, hi) = v
<1>1. Min({v, hi}) = v
  BY MinOfTwo
<1>2. Max({lo, v}) = v
  BY MaxOfTwo
<1> QED
  BY <1>1, <1>2 DEF Clamp

\* The codes of a signed and of an unsigned encoding, counted from silence.
SignedCode(v, scale, half) == Round(v * (IF v < 0 THEN half ELSE half - 1), scale)
UnsignedCode(v, scale, half) == Round((v + scale) * (2 * half - 1), 2 * scale) - half

\* A signed code is in range, within one and a half steps, of the same sign.
LEMMA SignedCodeIs ==
  ASSUME NEW scale \in Nat \ {0}, NEW half \in Nat \ {0}, NEW v \in (-scale)..scale
  PROVE  /\ SignedCode(v, scale, half) \in (-half)..(half - 1)
         /\ 2 * (SignedCode(v, scale, half) * scale - v * half) \in (-3 * scale)..(3 * scale)
         /\ v <= 0 => SignedCode(v, scale, half) <= 0
         /\ v >= 0 => SignedCode(v, scale, half) >= 0
<1>1. PICK x \in Int : x = v * half
  OBVIOUS
<1>2. CASE v < 0
  <2>1. PICK R \in Int : R = Round(x, scale) /\ 2 * (R * scale) - 2 * x \in (-scale)..scale
    BY RoundIsNear
  <2>2. SignedCode(v, scale, half) = R
    BY <1>1, <1>2, <2>1 DEF SignedCode
  <2>3. x <= 0 * scale
    <3>1. v * half <= 0 * half
      BY <1>2, Times
    <3> QED
      BY <1>1, <3>1
  <2>4. (-half) * scale <= x
    <3>1. (-scale) * half <= v * half
      BY Times
    <3>2. (-scale) * half = (-half) * scale
      OBVIOUS
    <3> QED
      BY <1>1, <3>1, <3>2
  <2>5. R <= 0 /\ -half <= R
    BY <2>1, <2>3, <2>4, RoundIsBounded
  <2>6. PICK y \in Int : y = R * scale
    BY <2>1
  <2> QED
    BY <1>1, <1>2, <2>1, <2>2, <2>5, <2>6
<1>3. CASE v >= 0
  <2>1. PICK z \in Int : z = v * (half - 1) /\ z = x - v
    BY <1>1
  <2>2. PICK R \in Int : R = Round(z, scale) /\ 2 * (R * scale) - 2 * z \in (-scale)..scale
    BY RoundIsNear
  <2>3. SignedCode(v, scale, half) = R
    BY <1>3, <2>1, <2>2 DEF SignedCode
  <2>4. 0 * scale <= z
    <3>1. 0 * (half - 1) <= v * (half - 1)
      BY <1>3, Times
    <3> QED
      BY <2>1, <3>1
  <2>5. z <= (half - 1) * scale
    <3>1. v * (half - 1) <= scale * (half - 1)
      BY Times
    <3>2. scale * (half - 1) = (half - 1) * scale
      OBVIOUS
    <3> QED
      BY <2>1, <3>1, <3>2
  <2>6. 0 <= R /\ R <= half - 1
    BY <2>2, <2>4, <2>5, RoundIsBounded
  <2>7. PICK y \in Int : y = R * scale
    BY <2>2
  <2> QED
    BY <1>1, <1>3, <2>1, <2>2, <2>3, <2>6, <2>7
<1> QED
  BY <1>2, <1>3

\* Signed codes keep the order.
LEMMA SignedCodesKeepOrder ==
  ASSUME NEW scale \in Nat \ {0}, NEW half \in Nat \ {0},
         NEW v \in (-scale)..scale, NEW w \in (-scale)..scale, v <= w
  PROVE  SignedCode(v, scale, half) <= SignedCode(w, scale, half)
<1>1. CASE w < 0
  <2>1. v * half <= w * half
    BY Times
  <2>2. Round(v * half, scale) <= Round(w * half, scale)
    BY <2>1, RoundIsMonotone
  <2> QED
    BY <1>1, <2>2 DEF SignedCode
<1>2. CASE v >= 0
  <2>1. v * (half - 1) <= w * (half - 1)
    BY Times
  <2>2. Round(v * (half - 1), scale) <= Round(w * (half - 1), scale)
    BY <2>1, RoundIsMonotone
  <2> QED
    BY <1>2, <2>2 DEF SignedCode
<1>3. CASE v < 0 /\ w >= 0
  <2>1. SignedCode(v, scale, half) <= 0 /\ SignedCode(v, scale, half) \in Int
    BY <1>3, SignedCodeIs
  <2>2. SignedCode(w, scale, half) >= 0 /\ SignedCode(w, scale, half) \in Int
    BY <1>3, SignedCodeIs
  <2> QED
    BY <2>1, <2>2
<1> QED
  BY <1>1, <1>2, <1>3

\* An unsigned code is in range and within one and a half steps.
LEMMA UnsignedCodeIs ==
  ASSUME NEW scale \in Nat \ {0}, NEW half \in Nat \ {0}, NEW v \in (-scale)..scale
  PROVE  /\ UnsignedCode(v, scale, half) \in (-half)..(half - 1)
         /\ 2 * (UnsignedCode(v, scale, half) * scale - v * half) \in (-3 * scale)..(3 * scale)
         /\ v = 0 => UnsignedCode(v, scale, half) = 0
<1>1. PICK x \in Int, t \in Int : x = v * half /\ t = scale * half
  OBVIOUS
<1>2. PICK z \in Int : z = (v + scale) * (2 * half - 1) /\ z = 2 * x + 2 * t - v - scale
  BY <1>1
<1>3. PICK d \in Nat \ {0} : d = 2 * scale
  OBVIOUS
<1>4. PICK R \in Int : R = Round(z, d) /\ 2 * (R * d) - 2 * z \in (-d)..d
  BY RoundIsNear
<1>5. UnsignedCode(v, scale, half) = R - half
  BY <1>2, <1>3, <1>4 DEF UnsignedCode
<1>6. 0 * d <= z
  <2>1. 0 * (2 * half - 1) <= (v + scale) * (2 * half - 1)
    BY Times
  <2> QED
    BY <1>2, <2>1
<1>7. z <= (2 * half - 1) * d
  <2>1. (v + scale) * (2 * half - 1) <= d * (2 * half - 1)
    BY <1>3, Times
  <2>2. d * (2 * half - 1) = (2 * half - 1) * d
    OBVIOUS
  <2> QED
    BY <1>2, <2>1, <2>2
<1>8. 0 <= R /\ R <= 2 * half - 1
  BY <1>4, <1>6, <1>7, RoundIsBounded
<1>9. PICK y \in Int : y = R * scale /\ R * d = 2 * y /\ (R - half) * scale = y - t
  BY <1>1, <1>3, <1>4
<1>10. 2 * ((R - half) * scale - v * half) \in (-3 * scale)..(3 * scale)
  BY <1>1, <1>2, <1>3, <1>4, <1>9
<1>11. ASSUME v = 0 PROVE R = half
  <2>1. z = 2 * t - scale
    BY <1>1, <1>2, <1>11
  <2>2. z = d * (half - 1) + scale
    BY <1>1, <1>3, <2>1
  <2>3. z \div d = half - 1 /\ z % d = scale
    BY <1>3, <2>2, DivisionUnique
  <2>4. z >= 0
    BY <1>6
  <2> QED
    BY <1>3, <1>4, <2>3, <2>4 DEF Round, RoundUp
<1> QED
  BY <1>5, <1>8, <1>10, <1>11

\* Unsigned codes keep the order.
LEMMA UnsignedCodesKeepOrder ==
  ASSUME NEW scale \in Nat \ {0}, NEW half \in Nat \ {0},
         NEW v \in (-scale)..scale, NEW w \in (-scale)..scale, v <= w
  PROVE  UnsignedCode(v, scale, half) <= UnsignedCode(w, scale, half)
<1>1. PICK d \in Nat \ {0} : d = 2 * scale
  OBVIOUS
<1>2. (v + scale) * (2 * half - 1) <= (w + scale) * (2 * half - 1)
  BY Times
<1>3. PICK x \in Int, y \in Int : x = (v + scale) * (2 * half - 1) /\ y = (w + scale) * (2 * half - 1)
  OBVIOUS
<1>4. Round(x, d) <= Round(y, d) /\ Round(x, d) \in Int /\ Round(y, d) \in Int
  BY <1>2, <1>3, RoundIsMonotone, RoundIsNear
<1> QED
  BY <1>1, <1>3, <1>4 DEF UnsignedCode

\* A fact of arithmetic that takes an induction, and that no prover here knows.
PowersArePositive == \A n \in Nat : 2^n \in Nat \ {0}

\* Half the codes of an encoding are a positive number.
LEMMA HalfIsPositive ==
  ASSUME PowersArePositive, NEW e \in Encodings
  PROVE  2^(Bits(e) - 1) \in Nat \ {0}
<1>1. PICK n \in Nat : n = Bits(e) - 1
  BY DEF Bits, Encodings
<1>2. 2^n \in Nat \ {0}
  BY Zenon DEF PowersArePositive
<1> QED
  BY <1>1, <1>2

\* Neither clamp of write_sample ever has anything to do: a sample is written
\* as its code, counted from the silence of the encoding.
LEMMA WriteSampleIs ==
  ASSUME NEW e \in Encodings, ~IsFloat(e), NEW scale \in Nat \ {0},
         NEW half \in Nat \ {0}, half = 2^(Bits(e) - 1), NEW v \in (-scale)..scale
  PROVE  WriteSample(v, scale, e) = IF IsSigned(e) THEN SignedCode(v, scale, half)
                                                   ELSE UnsignedCode(v, scale, half) + half
<1>1. Clamp(v, -scale, scale) = v
  BY ClampKeeps
<1>2. CASE IsSigned(e)
  <2>1. PICK R \in (-half)..(half - 1) : R = SignedCode(v, scale, half)
    BY SignedCodeIs
  <2>2. Clamp(R, -half, half - 1) = R
    BY ClampKeeps
  <2>3. R = Round(v * (IF v < 0 THEN half ELSE half - 1), scale)
    BY <2>1 DEF SignedCode
  <2> QED
    BY <1>1, <1>2, <2>1, <2>2, <2>3 DEF WriteSample
<1>3. CASE ~IsSigned(e)
  <2>1. PICK R \in (-half)..(half - 1) : R = UnsignedCode(v, scale, half)
    BY UnsignedCodeIs
  <2>2. PICK T \in Int : T = Round((v + scale) * (2 * half - 1), 2 * scale)
    <3>1. (v + scale) * (2 * half - 1) \in Int /\ 2 * scale \in Nat \ {0}
      OBVIOUS
    <3> QED
      BY <3>1, RoundIsNear
  <2>3. T = R + half /\ T \in 0..(2 * half - 1)
    BY <2>1, <2>2 DEF UnsignedCode
  <2>4. Clamp(T, 0, 2 * half - 1) = T
    BY <2>3, ClampKeeps
  <2> QED
    BY <1>1, <1>3, <2>1, <2>2, <2>3, <2>4 DEF WriteSample
<1> QED
  BY <1>2, <1>3

\* Every sample of a depth the codec knows, and every integer encoding a
\* device may have: the code is in range, close to the sample, in order, and
\* silence stays silence.
LEMMA WriteSampleFaithful ==
  ASSUME NEW e \in Encodings, ~IsFloat(e), NEW scale \in Nat \ {0},
         NEW half \in Nat \ {0}, half = 2^(Bits(e) - 1),
         NEW zero, zero = IF IsSigned(e) THEN 0 ELSE half
  PROVE  /\ WriteSample(0, scale, e) - zero = 0
         /\ \A v \in (-scale)..scale :
              /\ WriteSample(v, scale, e) - zero \in (-half)..(half - 1)
              /\ 2 * ((WriteSample(v, scale, e) - zero) * scale - v * half)
                   \in (-3 * scale)..(3 * scale)
              /\ \A w \in (-scale)..scale : v <= w =>
                   WriteSample(v, scale, e) - zero <= WriteSample(w, scale, e) - zero
<1>1. CASE IsSigned(e)
  <2>1. zero = 0
    BY <1>1
  <2>2. ASSUME NEW v \in (-scale)..scale
        PROVE  /\ WriteSample(v, scale, e) - zero = SignedCode(v, scale, half)
               /\ SignedCode(v, scale, half) \in (-half)..(half - 1)
    <3>1. PICK R \in (-half)..(half - 1) : R = SignedCode(v, scale, half)
      BY SignedCodeIs
    <3>2. WriteSample(v, scale, e) = R
      BY <1>1, <3>1, WriteSampleIs
    <3> QED
      BY <2>1, <3>1, <3>2
  <2>3. SignedCode(0, scale, half) = 0
    <3>1. PICK u \in (-scale)..scale : u = 0
      OBVIOUS
    <3>2. PICK R \in (-half)..(half - 1) : R = SignedCode(u, scale, half)
      BY SignedCodeIs
    <3>3. /\ u <= 0 => SignedCode(u, scale, half) <= 0
          /\ u >= 0 => SignedCode(u, scale, half) >= 0
      BY SignedCodeIs
    <3> QED
      BY <3>1, <3>2, <3>3
  <2>4. ASSUME NEW v \in (-scale)..scale
        PROVE  2 * ((WriteSample(v, scale, e) - zero) * scale - v * half)
                   \in (-3 * scale)..(3 * scale)
    BY <2>2, SignedCodeIs
  <2>5. ASSUME NEW v \in (-scale)..scale, NEW w \in (-scale)..scale, v <= w
        PROVE  WriteSample(v, scale, e) - zero <= WriteSample(w, scale, e) - zero
    BY <2>2, <2>5, SignedCodesKeepOrder
  <2>6. WriteSample(0, scale, e) - zero = 0
    <3>1. PICK u \in (-scale)..scale : u = 0
      OBVIOUS
    <3> QED
      BY <2>2, <2>3, <3>1
  <2>7. \A v \in (-scale)..scale : WriteSample(v, scale, e) - zero \in (-half)..(half - 1)
    BY <2>2
  <2> QED
    BY <2>4, <2>5, <2>6, <2>7, Zenon
<1>2. CASE ~IsSigned(e)
  <2>1. zero = half
    BY <1>2
  <2>2. ASSUME NEW v \in (-scale)..scale
        PROVE  /\ WriteSample(v, scale, e) - zero = UnsignedCode(v, scale, half)
               /\ UnsignedCode(v, scale, half) \in (-half)..(half - 1)
    <3>1. PICK R \in (-half)..(half - 1) : R = UnsignedCode(v, scale, half)
      BY UnsignedCodeIs
    <3>2. WriteSample(v, scale, e) = R + half
      BY <1>2, <3>1, WriteSampleIs
    <3> QED
      BY <2>1, <3>1, <3>2
  <2>3. UnsignedCode(0, scale, half) = 0
    <3>1. PICK u \in (-scale)..scale : u = 0
      OBVIOUS
    <3>2. PICK R \in (-half)..(half - 1) : R = UnsignedCode(u, scale, half)
      BY UnsignedCodeIs
    <3>3. u = 0 => UnsignedCode(u, scale, half) = 0
      BY UnsignedCodeIs
    <3> QED
      BY <3>1, <3>2, <3>3
  <2>4. ASSUME NEW v \in (-scale)..scale
        PROVE  2 * ((WriteSample(v, scale, e) - zero) * scale - v * half)
                   \in (-3 * scale)..(3 * scale)
    BY <2>2, UnsignedCodeIs
  <2>5. ASSUME NEW v \in (-scale)..scale, NEW w \in (-scale)..scale, v <= w
        PROVE  WriteSample(v, scale, e) - zero <= WriteSample(w, scale, e) - zero
    BY <2>2, <2>5, UnsignedCodesKeepOrder
  <2>6. WriteSample(0, scale, e) - zero = 0
    <3>1. PICK u \in (-scale)..scale : u = 0
      OBVIOUS
    <3> QED
      BY <2>2, <2>3, <3>1
  <2>7. \A v \in (-scale)..scale : WriteSample(v, scale, e) - zero \in (-half)..(half - 1)
    BY <2>2
  <2> QED
    BY <2>4, <2>5, <2>6, <2>7, Zenon
<1> QED
  BY <1>1, <1>2

\* A sample reaches a device of any integer encoding as a code of its range,
\* within one and a half steps of its value, in order, and silence as silence.
THEOREM SamplesAreEncodedFaithfully ==
  ASSUME PowersArePositive
  PROVE  Spec => []EncodingFaithful
<1>1. TypeInv /\ SessionInv /\ ConvertInv /\ phase # "tooSmall" => EncodingFaithful
  <2> SUFFICES ASSUME TypeInv, SessionInv, phase \in Running,
                      ~IsFloat(plan.spec.encoding), Depth(file) <= 16
               PROVE  EncodingFaithful
    BY DEF EncodingFaithful
  <2>1. SourceSpec \in StreamSpec /\ prefs \in Preferences
    BY SourceSpecType DEF Opened
  <2>2. /\ snapshot \in Snapshots /\ Plannable(snapshot, SourceSpec, prefs)
        /\ plan = PlanOutput(snapshot, SourceSpec, prefs)
    BY DEF SessionInv
  <2>3. plan \in Candidates(snapshot, SourceSpec, prefs)
    BY <2>1, <2>2, PlanIsFirst
  <2>4. plan \in Candidate
    BY <2>1, <2>2, <2>3, CandidateType DEF Plannable
  <2>5. PICK e \in Encodings : e = plan.spec.encoding
    BY <2>4 DEF Candidate
  <2>6. PICK scale \in Nat \ {0} : scale = DecodeScale(Depth(file)) /\ scale \in {128, 32768}
    <3>1. Depth(file) \in {8, 16}
      BY DEF TypeInv, Opened, Parses
    <3>2. 2^7 = 128 /\ 2^15 = 32768
      OBVIOUS
    <3>3. CASE Depth(file) = 8
      BY <3>2, <3>3 DEF DecodeScale
    <3>4. CASE Depth(file) = 16
      BY <3>2, <3>4 DEF DecodeScale
    <3> QED
      BY <3>1, <3>3, <3>4
  <2>7. ~IsFloat(e)
    BY <2>5
  <2>8. PICK half \in Nat \ {0} : half = 2^(Bits(e) - 1)
    BY HalfIsPositive
  <2>9. PICK zero : zero = IF IsSigned(e) THEN 0 ELSE half
    OBVIOUS
  <2>10. Probes(Depth(file)) \subseteq (-scale)..scale
    BY <2>6 DEF Probes
  <2> DEFINE Code(v) == WriteSample(v, scale, e) - zero
             Good == /\ Code(0) = 0
                     /\ \A v \in Probes(Depth(file)) :
                          /\ Code(v) \in (-half)..(half - 1)
                          /\ 2 * (Code(v) * scale - v * half) \in (-3 * scale)..(3 * scale)
                          /\ \A w \in Probes(Depth(file)) : v <= w => Code(v) <= Code(w)
  <2>11. Good
    BY <2>7, <2>8, <2>9, <2>10, WriteSampleFaithful, Zenon
  <2>12. EncodingFaithful <=> Good
    BY <2>5, <2>6, <2>7, <2>8, <2>9 DEF EncodingFaithful
  <2> QED
    BY <2>11, <2>12
<1> QED
  BY <1>1, SessionCorrect, PTL
=============================================================================
