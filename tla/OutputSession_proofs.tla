------------------------ MODULE OutputSession_proofs ------------------------
(***************************************************************************)
(* For any devices, formats, track, block, ring and buffer sizes: a        *)
(* session never turns a block of its own stream down; the driver reads    *)
(* whole frames, and while a binding lasts no byte is missing between what *)
(* it has read and what has been decoded.                                  *)
(***************************************************************************)
EXTENDS OutputProperties, TLAPS

\* A block that the codec may return fits the workspace.
LEMMA BlockFits ==
  ASSUME NEW w \in Nat, NEW n \in 0 .. MaxBlock
  PROVE  ~(n * w > (MaxBlock + 2) * w)
<1>1. MaxBlock \in Nat
  BY ConstantsAssumption
<1>2. PICK d \in Nat : MaxBlock + 2 = n + d
  <2>1. MaxBlock + 2 - n \in Nat
    BY <1>1
  <2> QED
    BY <1>1, <2>1
<1>3. (n + d) * w = n * w + d * w
  OBVIOUS
<1>4. n * w \in Nat /\ d * w \in Nat
  OBVIOUS
<1> QED
  BY <1>2, <1>3, <1>4

\* The inductive invariant: chain, binding and workspace agree, devices report
\* lists of formats, and nothing has been refused.
AgreementInv ==
  /\ hw \in [Units -> Configs]
  /\ SessionAgrees
  /\ NoBlockRefused

\* Nothing is bound at first.
LEMMA AgreementInit == Init => AgreementInv
<1> SUFFICES ASSUME Init PROVE AgreementInv
  OBVIOUS
<1>1. 0 \in 0 .. MaxBlock
  BY ConstantsAssumption
<1> QED
  BY <1>1 DEF Init, AgreementInv, SessionAgrees, NoBlockRefused

\* Every candidate of the planner has a format of some device.
LEMMA CandidateFormat ==
  ASSUME hw \in [Units -> Configs], NEW c \in Candidates
  PROVE  c.spec \in Formats
<1>1. PICK u \in Present : \E i \in DOMAIN hw[u] :
        c = [device |-> DeviceId(u), mode |-> i, spec |-> hw[u][i]]
  BY DEF Candidates
<1>2. PICK i \in DOMAIN hw[u] : c.spec = hw[u][i]
  BY <1>1
<1>3. hw[u] \in Seq(Formats)
  BY ConstantsAssumption DEF Present
<1> QED
  BY <1>2, <1>3

\* Every step keeps chain, binding and workspace in agreement.
LEMMA AgreementStep == AgreementInv /\ [Next]_vars => AgreementInv'
<1> SUFFICES ASSUME AgreementInv, [Next]_vars PROVE AgreementInv'
  OBVIOUS
<1> USE DEF AgreementInv, SessionAgrees, NoBlockRefused, session, env
<1>0. 0 \in 0 .. MaxBlock
  BY ConstantsAssumption
<1>1. CASE Plan
  <2>1. PICK c \in Candidates : draft' = c
    BY <1>1 DEF Plan
  <2>2. c.spec \in Formats
    BY CandidateFormat
  <2> QED
    BY <1>1, <2>1, <2>2 DEF Plan, WorkspaceFor
<1>2. CASE Open
  BY <1>2 DEF Open, BindsOn, NewBinding, WorkspaceFor
<1>3. CASE Rebind
  BY <1>3 DEF Rebind, BindsOn, NewBinding, WorkspaceFor
<1>4. CASE CloseFails
  BY <1>4 DEF CloseFails
<1>5. CASE OutputFails
  BY <1>5 DEF OutputFails
<1>6. CASE Break
  BY <1>6 DEF Break
<1>7. CASE DeviceNotice
  BY <1>7 DEF DeviceNotice, AfterLoss, WorkspaceFor
<1>8. CASE Decode
  <2>1. PICK n \in 1 .. MaxBlock : block' = n
    BY <1>8 DEF Decode
  <2>2. n \in 0 .. MaxBlock
    BY ConstantsAssumption
  <2> QED
    BY <1>8, <2>1, <2>2 DEF Decode, WorkspaceFor
<1>9. CASE EndOfTrack
  BY <1>9 DEF EndOfTrack
<1>10. CASE Submit
  <2>1. CASE binding.lost
    BY <1>0, <1>10, <2>1 DEF Submit, LoseBlock, AfterLoss, WorkspaceFor
  <2>2. CASE ~binding.lost
    <3>1. spec \in Formats /\ binding.spec = spec /\ ~binding.closed
      BY <1>10 DEF Submit
    <3>2. workspace = (MaxBlock + 2) * Width[spec] /\ Width[spec] \in Nat
      BY <1>10, <3>1, ConstantsAssumption DEF Submit, WorkspaceFor
    <3>3. ~(block * Width[spec] > workspace)
      BY <3>2, BlockFits
    <3>4. ~Refused
      BY <3>1, <3>3 DEF Refused
    <3> QED
      BY <1>10, <2>2, <3>4 DEF Submit, WorkspaceFor
  <2> QED
    BY <2>1, <2>2
<1>11. CASE Push
  BY <1>0, <1>11 DEF Push, WorkspaceFor
<1>12. CASE PushLost
  BY <1>0, <1>12 DEF PushLost, LoseBlock, AfterLoss, WorkspaceFor
<1>13. CASE DropSession
  BY <1>13 DEF DropSession
<1>14. CASE Callback
  BY <1>14 DEF Callback, WorkspaceFor
<1>15. CASE ErrorCallback
  BY <1>15 DEF ErrorCallback, WorkspaceFor
<1>16. CASE Replug
  BY <1>16 DEF Replug, WorkspaceFor
<1>17. CASE UNCHANGED vars
  BY <1>17 DEF vars, WorkspaceFor
<1> QED
  BY <1>1, <1>2, <1>3, <1>4, <1>5, <1>6, <1>7, <1>8, <1>9, <1>10, <1>11,
     <1>12, <1>13, <1>14, <1>15, <1>16, <1>17 DEF Next, Loop

\* Chain, binding and workspace agree whenever the session is in use.
THEOREM SessionAlwaysAgrees == Spec => []SessionAgrees
<1>1. AgreementInv => SessionAgrees
  BY DEF AgreementInv
<1> QED
  BY AgreementInit, AgreementStep, <1>1, PTL DEF Spec

\* No block of the stream is ever refused by the chain or by the binding.
THEOREM NeverRefused == Spec => []NoBlockRefused
<1>1. AgreementInv => NoBlockRefused
  BY DEF AgreementInv
<1> QED
  BY AgreementInit, AgreementStep, <1>1, PTL DEF Spec

\* Every step that changes the bound format binds one that a device with the
\* planned id reports in that very state.
THEOREM OnlyOfferedFormats == Spec => BoundFormatIsOffered
<1> DEFINE Offered ==
      \E u \in Present : /\ DeviceId(u) = draft.device
                         /\ \E i \in DOMAIN hw[u] : hw[u][i] = binding'.spec
      Binds == \/ binding'.spec # binding.spec
               \/ pc' = "ready" /\ pc \in {"bindNew", "bindAgain"}
<1>1. [Next]_vars => [Binds => Offered]_vars
  <2> SUFFICES ASSUME Next, Binds PROVE Offered
    OBVIOUS
  <2> USE DEF session
  <2>1. CASE Open \/ Rebind
    <3>1. PICK u \in Units : Offers(u, draft)
      BY <2>1 DEF Open, Rebind
    <3>2. binding'.spec = draft.spec
      BY <2>1 DEF Open, Rebind, BindsOn, NewBinding
    <3> QED
      BY <3>1, <3>2 DEF Offers
  <2>2. CASE CloseFails \/ DropSession
    <3>1. CASE CloseFails
      BY <3>1 DEF CloseFails
    <3>2. CASE DropSession
      BY <3>2 DEF DropSession
    <3> QED
      BY <2>2, <3>1, <3>2
  <2>3. CASE ErrorCallback
    <3>1. binding'.spec = binding.spec /\ pc' = pc
      BY <2>3 DEF ErrorCallback
    <3> QED
      BY <3>1
  <2>4. CASE Plan \/ OutputFails
    BY <2>4 DEF Plan, OutputFails
  <2>5. CASE Break \/ DeviceNotice \/ Decode \/ EndOfTrack
    BY <2>5 DEF Break, DeviceNotice, Decode, EndOfTrack
  <2>6. CASE Submit \/ Push \/ PushLost
    BY <2>6 DEF Submit, Push, PushLost
  <2>7. CASE Callback \/ Replug
    BY <2>7 DEF Callback, Replug
  <2> QED
    BY <2>1, <2>2, <2>3, <2>4, <2>5, <2>6, <2>7 DEF Next, Loop
<1> QED
  BY <1>1, PTL DEF Spec, BoundFormatIsOffered
-----------------------------------------------------------------------------

(***************************************************************************)
(* Multiples of a frame's width.                                           *)
(***************************************************************************)
Multiple(n, w) == \E q \in Nat : n = q * w

\* Sums of multiples are multiples.
LEMMA MultipleSum ==
  ASSUME NEW w \in Nat, NEW a, NEW b, Multiple(a, w), Multiple(b, w)
  PROVE  Multiple(a + b, w)
<1>1. PICK p \in Nat : a = p * w
  BY DEF Multiple
<1>2. PICK q \in Nat : b = q * w
  BY DEF Multiple
<1>3. p + q \in Nat /\ (p + q) * w = p * w + q * w
  OBVIOUS
<1> QED
  BY <1>1, <1>2, <1>3 DEF Multiple

\* So are differences.
LEMMA MultipleDifference ==
  ASSUME NEW w \in Nat \ {0}, NEW a, NEW b, Multiple(a, w), Multiple(b, w), b <= a
  PROVE  Multiple(a - b, w)
<1>1. PICK p \in Nat : a = p * w
  BY DEF Multiple
<1>2. PICK q \in Nat : b = q * w
  BY DEF Multiple
<1>3. q <= p
  <2> SUFFICES ASSUME p < q PROVE FALSE
    OBVIOUS
  <2>1. PICK d \in Nat : q = p + 1 + d
    <3>1. q - p - 1 \in Nat
      OBVIOUS
    <3> QED
      BY <3>1
  <2>2. q * w = p * w + w + d * w
    BY <2>1
  <2>3. p * w \in Nat /\ d * w \in Nat
    OBVIOUS
  <2> QED
    BY <1>1, <1>2, <2>2, <2>3
<1>4. p - q \in Nat /\ (p - q) * w = p * w - q * w
  BY <1>3
<1> QED
  BY <1>1, <1>2, <1>4 DEF Multiple

\* A positive number of frames has at least one byte.
LEMMA PositiveProduct ==
  ASSUME NEW n \in Nat \ {0}, NEW w \in Nat \ {0}
  PROVE  n * w \in Nat /\ n * w >= 1
<1>1. PICK d \in Nat : n = d + 1
  <2>1. n - 1 \in Nat
    OBVIOUS
  <2> QED
    BY <2>1
<1>2. n * w = d * w + w /\ d * w \in Nat
  BY <1>1
<1> QED
  BY <1>2

\* A multiple's quotient is at most the multiple: the two ways to say that bytes
\* make whole frames agree.
LEMMA MultipleIsWhole ==
  ASSUME NEW w \in Nat \ {0}, NEW n \in Nat, Multiple(n, w)
  PROVE  \E q \in 0 .. n : n = q * w
<1>1. PICK q \in Nat : n = q * w
  BY DEF Multiple
<1>2. PICK d \in Nat : w = d + 1
  <2>1. w - 1 \in Nat
    OBVIOUS
  <2> QED
    BY <2>1
<1>3. q * w = q * d + q /\ q * d \in Nat
  BY <1>2
<1>4. q \in 0 .. n
  BY <1>1, <1>3
<1> QED
  BY <1>1, <1>4

(***************************************************************************)
(* The inductive invariant.                                                *)
(***************************************************************************)
FrameWidth == Width[binding.spec]
Bound      == {"ready", "submit", "push", "rebind", "bindAgain", "ending"}
Unbound    == {"open", "bindNew", "done"}

RingTypes ==
  /\ pc \in Bound \cup Unbound
  /\ ring \in Seq(Nat) /\ rest \in Seq(Nat)
  /\ heard \in Nat /\ next \in Nat \ {0}
  /\ pc \in Bound => FrameWidth \in Nat \ {0}
  /\ pc \in Unbound => ring = <<>>

\* Queue and rest carry on from the last byte heard, up to the last frame
\* decoded, or up to the block that is being submitted.
NoGapInv ==
  /\ pc \in Bound => \A i \in 1 .. Len(ring) : ring[i] = heard + i
  /\ pc = "push" => \A i \in 1 .. Len(rest) : rest[i] = heard + Len(ring) + i
  /\ pc \notin {"push", "ending", "done"} => rest = <<>>
  /\ pc = "submit" => /\ block \in 1 .. next - 1
                     /\ heard + Len(ring) = (next - 1 - block) * FrameWidth
  /\ pc \in {"ready", "push"} =>
       heard + Len(ring) + Len(rest) = (next - 1) * FrameWidth

WholeInv ==
  /\ pc \in Bound => Multiple(heard, FrameWidth) /\ Multiple(Len(ring), FrameWidth)
  /\ pc = "push" => Multiple(Len(rest), FrameWidth)

RingInv == RingTypes /\ NoGapInv /\ WholeInv

\* Nothing is queued at first.
LEMMA RingInit == Init => RingInv
  BY DEF Init, RingInv, RingTypes, NoGapInv, WholeInv, Bound, Unbound

\* The steps that leave queue, block and binding alone and stay inside or
\* outside of the session.
LEMMA RingUnmoved ==
  ASSUME RingInv, RingTypes',
         UNCHANGED <<ring, heard, next>>, binding'.spec = binding.spec,
         pc' \in Bound => pc \in Bound,
         pc' \in {"ready", "submit", "push"} => pc' = pc /\ UNCHANGED <<rest, block>>,
         pc' \notin {"push", "ending", "done"} => rest' = <<>>
  PROVE  RingInv'
  BY DEF RingInv, NoGapInv, WholeInv, FrameWidth

\* Every step keeps queue and rest byte by byte.
LEMMA RingStep == AgreementInv /\ RingInv /\ [Next]_vars => RingInv'
<1> SUFFICES ASSUME AgreementInv, RingInv, [Next]_vars PROVE RingInv'
  OBVIOUS
<1> USE DEF session, env
<1>1. CASE Plan
  BY <1>1, RingUnmoved DEF Plan, RingInv, RingTypes, NoGapInv, Bound, Unbound, FrameWidth
<1>2. CASE Open \/ Rebind
  <2>1. /\ pc' = "ready" /\ ring' = <<>> /\ rest' = rest /\ next' = next
        /\ binding'.spec = draft.spec
        /\ heard' = (next - 1) * Width[draft.spec]
    BY <1>2 DEF Open, Rebind, BindsOn, NewBinding
  <2>2. rest = <<>>
    BY <1>2 DEF Open, Rebind, RingInv, NoGapInv
  <2>3. draft.spec \in Formats
    BY <1>2 DEF Open, Rebind, AgreementInv, SessionAgrees
  <2>4. Width[draft.spec] \in Nat \ {0}
    BY <2>3, ConstantsAssumption
  <2>5. next - 1 \in Nat /\ next \in Nat \ {0}
    BY DEF RingInv, RingTypes
  <2>6. (next - 1) * Width[draft.spec] \in Nat
    BY <2>4, <2>5
  <2>7. RingTypes'
    BY <2>1, <2>2, <2>4, <2>5, <2>6 DEF RingTypes, Bound, Unbound, FrameWidth
  <2>8. NoGapInv'
    BY <2>1, <2>2, <2>6 DEF NoGapInv, FrameWidth
  <2>9. Multiple((next - 1) * Width[draft.spec], Width[draft.spec])
    BY <2>5 DEF Multiple
  <2>10. Multiple(0, Width[draft.spec])
    BY <2>4 DEF Multiple
  <2>11. WholeInv'
    BY <2>1, <2>9, <2>10 DEF WholeInv, FrameWidth
  <2> QED
    BY <2>7, <2>8, <2>11 DEF RingInv
<1>3. CASE CloseFails
  <2>1. /\ pc' = "ending" /\ ring' = <<>> /\ UNCHANGED <<rest, next, heard>>
        /\ pc = "bindAgain" /\ binding'.spec = binding.spec
    BY <1>3 DEF CloseFails
  <2>2. FrameWidth \in Nat \ {0} /\ Multiple(0, FrameWidth) /\ Multiple(heard, FrameWidth)
    BY <2>1 DEF RingInv, RingTypes, WholeInv, Multiple, Bound
  <2> QED
    BY <2>1, <2>2
    DEF RingInv, RingTypes, NoGapInv, WholeInv, Bound, Unbound, FrameWidth
<1>4. CASE OutputFails
  BY <1>4, RingUnmoved DEF OutputFails, RingInv, RingTypes, NoGapInv, Bound, Unbound, FrameWidth
<1>5. CASE Break
  BY <1>5, RingUnmoved DEF Break, RingInv, RingTypes, Bound, Unbound, FrameWidth
<1>6. CASE DeviceNotice
  BY <1>6, RingUnmoved DEF DeviceNotice, AfterLoss, RingInv, RingTypes, NoGapInv, Bound, Unbound, FrameWidth
<1>7. CASE Decode
  <2>1. PICK n \in 1 .. MaxBlock : block' = n /\ next' = next + n
    BY <1>7 DEF Decode
  <2>2. /\ pc = "ready" /\ pc' = "submit"
        /\ UNCHANGED <<ring, rest, heard, binding>>
    BY <1>7 DEF Decode
  <2>3. n \in Nat \ {0} /\ next \in Nat \ {0}
    BY ConstantsAssumption DEF RingInv, RingTypes
  <2>4. /\ next' \in Nat \ {0} /\ block' \in 1 .. next' - 1
        /\ next' - 1 - block' = next - 1
    BY <2>1, <2>3
  <2>5. heard + Len(ring) = (next - 1) * FrameWidth
    BY <2>2 DEF RingInv, RingTypes, NoGapInv
  <2>6. RingTypes'
    BY <2>2, <2>4 DEF RingInv, RingTypes, Bound, Unbound, FrameWidth
  <2>7. NoGapInv'
    BY <2>2, <2>4, <2>5 DEF RingInv, NoGapInv, Bound, FrameWidth
  <2> QED
    BY <2>2, <2>6, <2>7 DEF RingInv, WholeInv, Bound, FrameWidth
<1>8. CASE EndOfTrack
  BY <1>8, RingUnmoved DEF EndOfTrack, RingInv, RingTypes, Bound, Unbound, FrameWidth
<1>9. CASE Submit
  <2>0. pc = "submit" /\ UNCHANGED <<ring, heard, binding, next>>
    BY <1>9 DEF Submit, LoseBlock
  <2>1. CASE pc' # "push"
    <3>1. /\ pc' \in {"rebind", "ending"}
          /\ rest' \in Seq(Nat)
          /\ pc' = "rebind" => rest' = <<>>
      <4>1. CASE binding.lost
        BY <1>9, <4>1 DEF Submit, LoseBlock, AfterLoss
      <4>2. CASE ~binding.lost
        BY <1>9, <2>1, <4>2 DEF Submit, RingInv, RingTypes
      <4> QED
        BY <4>1, <4>2
    <3> QED
      BY <2>0, <3>1, RingUnmoved DEF RingInv, RingTypes, Bound, Unbound, FrameWidth
  <2>2. CASE pc' = "push"
    <3> DEFINE base == (next - 1 - block) * FrameWidth
    <3>1. spec = binding.spec
      BY <2>0 DEF AgreementInv, SessionAgrees
    <3>2. rest' = Encode(next - block, next - 1, spec)
      BY <1>9, <2>2 DEF Submit, LoseBlock, AfterLoss
    <3>3. /\ next \in Nat \ {0} /\ block \in 1 .. next - 1
          /\ FrameWidth \in Nat \ {0} /\ heard \in Nat
          /\ ring \in Seq(Nat) /\ heard + Len(ring) = base
      BY <2>0 DEF RingInv, RingTypes, NoGapInv, Bound
    <3>4. /\ next - 1 - (next - block) + 1 = block
          /\ next - block - 1 = next - 1 - block
          /\ next - 1 - block \in Nat /\ block \in Nat \ {0}
      BY <3>3
    <3>5. base \in Nat /\ block * FrameWidth \in Nat
      BY <3>3, <3>4
    <3>6. rest' = [i \in 1 .. block * FrameWidth |-> base + i]
      BY <3>1, <3>2, <3>4 DEF Encode, FrameWidth
    <3> HIDE DEF base
    <3>7. rest' \in Seq(Nat) /\ Len(rest') = block * FrameWidth
      BY <3>5, <3>6
    <3>8. \A i \in 1 .. Len(rest') : rest'[i] = base + i
      BY <3>6, <3>7
    <3>9. base + block * FrameWidth = (next - 1) * FrameWidth
      <4>1. PICK d \in Nat : next - 1 = d + block
        BY <3>3, <3>4
      <4>2. d = next - 1 - block
        BY <4>1, <3>3
      <4>3. (d + block) * FrameWidth = d * FrameWidth + block * FrameWidth
        BY <3>3, <3>4
      <4> QED
        BY <4>1, <4>2, <4>3 DEF base
    <3>10. RingTypes'
      BY <2>0, <2>2, <3>3, <3>7 DEF RingTypes, Bound, Unbound, FrameWidth
    <3>11. heard + Len(ring) + Len(rest') = (next - 1) * FrameWidth
      BY <3>3, <3>7, <3>9
    <3>12. NoGapInv'
      BY <2>0, <2>2, <3>3, <3>8, <3>11 DEF RingInv, NoGapInv, Bound, FrameWidth
    <3>13. Multiple(Len(rest'), FrameWidth)
      BY <3>4, <3>7 DEF Multiple
    <3>14. WholeInv'
      BY <2>0, <2>2, <3>13 DEF RingInv, WholeInv, Bound, FrameWidth
    <3> QED
      BY <3>10, <3>12, <3>14 DEF RingInv
  <2> QED
    BY <2>1, <2>2
<1>10. CASE Push
  <2> DEFINE k == Min2(Capacity - Len(ring), Len(rest))
  <2>1. /\ pc = "push" /\ k > 0
        /\ ring' = ring \o SubSeq(rest, 1, k)
        /\ rest' = SubSeq(rest, k + 1, Len(rest))
        /\ UNCHANGED <<binding, next, heard>>
    BY <1>10 DEF Push
  <2>2. \/ pc' = "ready" /\ rest' = <<>>
        \/ pc' = "push"
    BY <1>10, <2>1 DEF Push
  <2>3. /\ ring \in Seq(Nat) /\ rest \in Seq(Nat) /\ heard \in Nat
        /\ FrameWidth \in Nat \ {0} /\ next \in Nat \ {0}
        /\ Multiple(Len(ring), FrameWidth) /\ Multiple(Len(rest), FrameWidth)
    BY <2>1 DEF RingInv, RingTypes, WholeInv, Bound
  <2>4. Capacity \in Nat /\ Multiple(Capacity, FrameWidth)
    <3>1. RingFrames \in Nat
      BY ConstantsAssumption
    <3>2. Capacity = RingFrames * FrameWidth
      BY DEF Capacity, FrameWidth
    <3>3. RingFrames * FrameWidth \in Nat
      BY <2>3, <3>1
    <3> QED
      BY <3>1, <3>2, <3>3 DEF Multiple
  <2>5. k \in 1 .. Len(rest) /\ Multiple(k, FrameWidth)
    <3>1. CASE Capacity - Len(ring) < Len(rest)
      <4>1. k = Capacity - Len(ring)
        BY <3>1 DEF Min2
      <4>2. Len(ring) <= Capacity
        BY <2>1, <2>3, <2>4, <4>1
      <4> QED
        BY <2>1, <2>3, <2>4, <3>1, <4>1, <4>2, MultipleDifference
    <3>2. CASE ~(Capacity - Len(ring) < Len(rest))
      BY <2>1, <2>3, <3>2 DEF Min2
    <3> QED
      BY <3>1, <3>2
  <2> HIDE DEF k
  <2>6. /\ ring' \in Seq(Nat) /\ Len(ring') = Len(ring) + k
        /\ \A i \in 1 .. Len(ring') :
             ring'[i] = IF i <= Len(ring) THEN ring[i] ELSE rest[i - Len(ring)]
    BY <2>1, <2>3, <2>5, SMTT(60)
  <2>7. /\ rest' \in Seq(Nat) /\ Len(rest') = Len(rest) - k
        /\ \A i \in 1 .. Len(rest') : rest'[i] = rest[k + i]
    BY <2>1, <2>3, <2>5, SMTT(60)
  <2>8. /\ \A i \in 1 .. Len(ring) : ring[i] = heard + i
        /\ \A i \in 1 .. Len(rest) : rest[i] = heard + Len(ring) + i
    BY <2>1 DEF RingInv, NoGapInv, Bound
  <2>a. heard + Len(ring) + Len(rest) = (next - 1) * FrameWidth
    BY <2>1 DEF RingInv, NoGapInv
  <2>b. Len(ring) \in Nat /\ Len(rest) \in Nat /\ k \in Nat
    BY <2>3, <2>5
  <2>9. \A i \in 1 .. Len(ring') : ring'[i] = heard + i
    <3> SUFFICES ASSUME NEW i \in 1 .. Len(ring') PROVE ring'[i] = heard + i
      OBVIOUS
    <3>1. CASE i <= Len(ring)
      <4>1. i \in 1 .. Len(ring) /\ ring'[i] = ring[i]
        BY <2>b, <2>6, <3>1
      <4> QED
        BY <2>8, <4>1
    <3>2. CASE ~(i <= Len(ring))
      <4>1. i - Len(ring) \in 1 .. Len(rest) /\ ring'[i] = rest[i - Len(ring)]
        BY <2>b, <2>5, <2>6, <3>2
      <4>2. ring'[i] = heard + Len(ring) + (i - Len(ring))
        BY <2>8, <4>1
      <4>3. i \in Int /\ heard \in Nat
        BY <2>3
      <4> QED
        BY <2>b, <4>2, <4>3
    <3> QED
      BY <3>1, <3>2
  <2>10. \A i \in 1 .. Len(rest') : rest'[i] = heard + Len(ring') + i
    <3> SUFFICES ASSUME NEW i \in 1 .. Len(rest')
                 PROVE  rest'[i] = heard + Len(ring') + i
      OBVIOUS
    <3>1. k + i \in 1 .. Len(rest) /\ rest'[i] = rest[k + i]
      BY <2>b, <2>5, <2>7
    <3>2. rest'[i] = heard + Len(ring) + (k + i)
      BY <2>8, <3>1
    <3>3. i \in Int /\ heard \in Nat /\ Len(ring') = Len(ring) + k
      BY <2>3, <2>6
    <3> QED
      BY <2>b, <3>2, <3>3
  <2>11. heard + Len(ring') + Len(rest') = (next - 1) * FrameWidth
    <3>1. heard \in Nat /\ Len(ring') = Len(ring) + k /\ Len(rest') = Len(rest) - k
      BY <2>3, <2>6, <2>7
    <3>2. heard + Len(ring') + Len(rest') = heard + Len(ring) + Len(rest)
      BY <2>b, <3>1
    <3> QED
      BY <2>a, <3>2
  <2>12. Multiple(Len(ring'), FrameWidth) /\ Multiple(Len(rest'), FrameWidth)
    <3>1. Multiple(Len(ring) + k, FrameWidth)
      BY <2>3, <2>5, MultipleSum
    <3>2. k <= Len(rest)
      BY <2>5, <2>b
    <3>3. Multiple(Len(rest) - k, FrameWidth)
      BY <2>3, <2>5, <3>2, MultipleDifference
    <3>4. Len(ring') = Len(ring) + k /\ Len(rest') = Len(rest) - k
      BY <2>6, <2>7
    <3> QED
      BY <3>1, <3>3, <3>4
  <2>13. RingTypes'
    BY <2>1, <2>2, <2>3, <2>6, <2>7 DEF RingTypes, Bound, Unbound, FrameWidth
  <2>14. NoGapInv'
    BY <2>1, <2>2, <2>9, <2>10, <2>11 DEF NoGapInv, FrameWidth
  <2>15. WholeInv'
    BY <2>1, <2>2, <2>12 DEF RingInv, WholeInv, Bound, FrameWidth
  <2> QED
    BY <2>13, <2>14, <2>15 DEF RingInv
<1>11. CASE PushLost
  BY <1>11, RingUnmoved DEF PushLost, LoseBlock, AfterLoss, RingInv, RingTypes, Bound, Unbound, FrameWidth
<1>12. CASE DropSession
  BY <1>12 DEF DropSession, RingInv, RingTypes, NoGapInv, WholeInv, Bound, Unbound
<1>13. CASE Callback
  <2>1. /\ ring # <<>>
        /\ UNCHANGED <<pc, binding, rest, block, next>>
    BY <1>13 DEF Callback
  <2>2. pc \in Bound
    BY <2>1 DEF RingInv, RingTypes
  <2>3. /\ ring \in Seq(Nat) /\ heard \in Nat /\ FrameWidth \in Nat \ {0}
        /\ Multiple(Len(ring), FrameWidth) /\ Multiple(heard, FrameWidth)
        /\ \A i \in 1 .. Len(ring) : ring[i] = heard + i
    BY <2>2 DEF RingInv, RingTypes, NoGapInv, WholeInv
  <2>4. PICK n \in 1 .. MaxPull :
          /\ heard' = ring[Min2(n * FrameWidth, Len(ring))]
          /\ ring' = SubSeq(ring, Min2(n * FrameWidth, Len(ring)) + 1, Len(ring))
    BY <1>13 DEF Callback, FrameWidth
  <2>5. n \in Nat \ {0}
    BY ConstantsAssumption
  <2> DEFINE k == Min2(n * FrameWidth, Len(ring))
  <2>6. k \in 1 .. Len(ring) /\ Multiple(k, FrameWidth)
    <3>1. n * FrameWidth \in Nat /\ n * FrameWidth >= 1
      BY <2>3, <2>5, PositiveProduct
    <3>2. Multiple(n * FrameWidth, FrameWidth)
      BY <2>5 DEF Multiple
    <3>3. Len(ring) \in Nat /\ Len(ring) >= 1
      BY <2>1, <2>3
    <3> QED
      BY <2>3, <3>1, <3>2, <3>3 DEF Min2
  <2>7. heard' = ring[k] /\ ring' = SubSeq(ring, k + 1, Len(ring))
    BY <2>4
  <2> HIDE DEF k
  <2>8. heard' = heard + k /\ heard' \in Nat
    BY <2>3, <2>6, <2>7
  <2>9. /\ ring' \in Seq(Nat) /\ Len(ring') = Len(ring) - k
        /\ \A i \in 1 .. Len(ring') : ring'[i] = ring[k + i]
    <3>1. ring \in Seq(Nat)
      BY <2>3
    <3>2. k \in 1 .. Len(ring)
      BY <2>6
    <3> QED
      BY <2>7, <3>1, <3>2, SMTT(60)
  <2>10. \A i \in 1 .. Len(ring') : ring'[i] = heard' + i
    <3> SUFFICES ASSUME NEW i \in 1 .. Len(ring') PROVE ring'[i] = heard' + i
      OBVIOUS
    <3>1. k + i \in 1 .. Len(ring)
      BY <2>3, <2>6, <2>9
    <3> QED
      BY <2>3, <2>6, <2>8, <2>9, <3>1, SMTT(60)
  <2>11. heard' + Len(ring') = heard + Len(ring)
    BY <2>3, <2>6, <2>8, <2>9
  <2>12. Multiple(heard', FrameWidth) /\ Multiple(Len(ring'), FrameWidth)
    <3>1. Multiple(heard + k, FrameWidth)
      BY <2>3, <2>6, MultipleSum
    <3>2. k <= Len(ring)
      BY <2>3, <2>6
    <3>3. Multiple(Len(ring) - k, FrameWidth)
      BY <2>3, <2>6, <3>2, MultipleDifference
    <3>4. heard' = heard + k /\ Len(ring') = Len(ring) - k
      BY <2>8, <2>9
    <3> QED
      BY <3>1, <3>3, <3>4
  <2>13. RingTypes'
    BY <2>1, <2>2, <2>8, <2>9 DEF RingInv, RingTypes, Bound, Unbound, FrameWidth
  <2>14. NoGapInv'
    BY <2>1, <2>10, <2>11 DEF RingInv, NoGapInv, FrameWidth
  <2>15. WholeInv'
    BY <2>1, <2>12 DEF RingInv, WholeInv, FrameWidth
  <2> QED
    BY <2>13, <2>14, <2>15 DEF RingInv
<1>14. CASE ErrorCallback
  <2>1. binding'.spec = binding.spec /\ UNCHANGED <<pc, ring, rest, block, next, heard>>
    BY <1>14 DEF ErrorCallback
  <2> QED
    BY <2>1, RingUnmoved DEF RingInv, RingTypes, NoGapInv, Bound, Unbound, FrameWidth
<1>15. CASE Replug
  BY <1>15, RingUnmoved DEF Replug, RingInv, RingTypes, NoGapInv, Bound, Unbound, FrameWidth
<1>16. CASE UNCHANGED vars
  BY <1>16, RingUnmoved DEF vars, RingInv, RingTypes, NoGapInv, Bound, Unbound, FrameWidth
<1> QED
  BY <1>1, <1>2, <1>3, <1>4, <1>5, <1>6, <1>7, <1>8, <1>9, <1>10, <1>11,
     <1>12, <1>13, <1>14, <1>15, <1>16 DEF Next, Loop

\* Queue and rest, in every reachable state.
LEMMA RingInvariant == Spec => []RingInv
  BY AgreementInit, AgreementStep, RingInit, RingStep, PTL DEF Spec

\* The driver always finds whole frames, from the first byte of a frame on.
THEOREM DriverReadsFrames == Spec => []FramesStayWhole
<1>1. RingInv => FramesStayWhole
  <2> SUFFICES ASSUME RingInv, ring # <<>>
               PROVE  WholeFrames(Len(ring)) /\ WholeFrames(Head(ring) - 1)
    BY DEF FramesStayWhole
  <2>1. pc \in Bound
    BY DEF RingInv, RingTypes
  <2>2. /\ ring \in Seq(Nat) /\ heard \in Nat /\ FrameWidth \in Nat \ {0}
        /\ Multiple(Len(ring), FrameWidth) /\ Multiple(heard, FrameWidth)
        /\ \A i \in 1 .. Len(ring) : ring[i] = heard + i
    BY <2>1 DEF RingInv, RingTypes, NoGapInv, WholeInv
  <2>3. Head(ring) - 1 = heard
    BY <2>2
  <2>4. Len(ring) \in Nat
    BY <2>2
  <2>5. /\ \E q \in 0 .. Len(ring) : Len(ring) = q * FrameWidth
        /\ \E q \in 0 .. heard : heard = q * FrameWidth
    BY <2>2, <2>4, MultipleIsWhole
  <2> QED
    BY <2>3, <2>5 DEF WholeFrames, FrameWidth
<1> QED
  BY RingInvariant, <1>1, PTL

\* While a binding lasts, no byte is missing between the last one heard and the
\* last one decoded.
THEOREM NothingDropped == Spec => []NoGapWhileBound
<1>1. RingInv => NoGapWhileBound
  <2> SUFFICES ASSUME RingInv, pc \in {"ready", "push"}
               PROVE  /\ \A i \in DOMAIN (ring \o rest) : (ring \o rest)[i] = heard + i
                      /\ heard + Len(ring \o rest) = (next - 1) * Width[binding.spec]
    BY DEF NoGapWhileBound
  <2>1. /\ ring \in Seq(Nat) /\ rest \in Seq(Nat) /\ heard \in Nat
        /\ \A i \in 1 .. Len(ring) : ring[i] = heard + i
        /\ heard + Len(ring) + Len(rest) = (next - 1) * Width[binding.spec]
    BY DEF RingInv, RingTypes, NoGapInv, Bound, FrameWidth
  <2>2. \A i \in 1 .. Len(rest) : rest[i] = heard + Len(ring) + i
    BY <2>1 DEF RingInv, NoGapInv
  <2>3. /\ ring \o rest \in Seq(Nat) /\ Len(ring \o rest) = Len(ring) + Len(rest)
        /\ DOMAIN (ring \o rest) = 1 .. Len(ring) + Len(rest)
    BY <2>1
  <2>4. ASSUME NEW i \in 1 .. Len(ring) + Len(rest)
        PROVE  (ring \o rest)[i] = heard + i
    <3>1. CASE i <= Len(ring)
      BY <2>1, <3>1
    <3>2. CASE ~(i <= Len(ring))
      <4>1. i - Len(ring) \in 1 .. Len(rest)
        BY <2>1, <3>2
      <4>2. (ring \o rest)[i] = rest[i - Len(ring)]
        BY <2>1, <3>2
      <4> QED
        BY <2>1, <2>2, <4>1, <4>2
    <3> QED
      BY <3>1, <3>2
  <2> QED
    BY <2>1, <2>3, <2>4
<1> QED
  BY RingInvariant, <1>1, PTL

(***************************************************************************)
(* What is heard never runs ahead of what is decoded, so that a binding    *)
(* that starts at the frame to be decoded next repeats nothing.            *)
(***************************************************************************)
BehindDecoder ==
  /\ pc \in {"open", "bindNew"} => heard = 0
  /\ pc \in Bound => heard + Len(ring) <= (next - 1) * FrameWidth

\* A step that hears nothing and decodes nothing keeps it.
LEMMA BehindUnmoved ==
  ASSUME BehindDecoder,
         UNCHANGED <<ring, heard, next>>, binding'.spec = binding.spec,
         pc' \in Bound => pc \in Bound,
         pc' \in {"open", "bindNew"} => pc \in {"open", "bindNew"}
  PROVE  BehindDecoder'
BY DEF BehindDecoder, FrameWidth

\* Quotient and remainder.
LEMMA Quotient ==
  ASSUME NEW a \in Int, NEW w \in Nat \ {0}
  PROVE  a \div w \in Int /\ \E r \in 0 .. (w - 1) : a = w * (a \div w) + r
<1>1. a \div w \in Int /\ a % w \in 0 .. (w - 1)
  OBVIOUS
<1>2. a % w = a - w * (a \div w)
  OBVIOUS
<1>3. PICK p \in Int : p = w * (a \div w)
  BY <1>1
<1>4. PICK r \in 0 .. (w - 1) : r = a % w
  BY <1>1
<1>5. a = p + r
  BY <1>2, <1>3, <1>4
<1> QED
  BY <1>1, <1>3, <1>4, <1>5

\* A read of the driver takes bytes from the queue, and only those.
LEMMA CallbackMoves ==
  ASSUME RingInv, Callback
  PROVE  /\ heard' \in Nat /\ heard <= heard'
         /\ heard' + Len(ring') = heard + Len(ring)
<1>1. ring # <<>> /\ pc \in Bound
  BY DEF Callback, RingInv, RingTypes
<1>2. /\ ring \in Seq(Nat) /\ heard \in Nat /\ FrameWidth \in Nat \ {0}
      /\ \A i \in 1 .. Len(ring) : ring[i] = heard + i
  BY <1>1 DEF RingInv, RingTypes, NoGapInv
<1>3. PICK n \in 1 .. MaxPull :
        /\ heard' = ring[Min2(n * FrameWidth, Len(ring))]
        /\ ring' = SubSeq(ring, Min2(n * FrameWidth, Len(ring)) + 1, Len(ring))
  BY DEF Callback, FrameWidth
<1>4. PICK m \in Nat : m = n * FrameWidth /\ m >= 1
  <2>1. n \in Nat \ {0}
    BY ConstantsAssumption
  <2> QED
    BY <1>2, <2>1, PositiveProduct
<1>5. PICK k \in 1 .. Len(ring) : k = Min2(m, Len(ring))
  <2>1. Len(ring) \in Nat /\ Len(ring) >= 1
    BY <1>1, <1>2
  <2> QED
    BY <1>4, <2>1 DEF Min2
<1>6. heard' = ring[k] /\ ring' = SubSeq(ring, k + 1, Len(ring))
  BY <1>3, <1>4, <1>5
<1>7. heard' = heard + k
  BY <1>2, <1>5, <1>6
<1>8. Len(ring') = Len(ring) - k
  <2>1. ring \in Seq(Nat) /\ k \in 1 .. Len(ring)
    BY <1>2, <1>5
  <2> QED
    BY <1>6, <2>1
<1>9. PICK l \in Nat : l = Len(ring)
  BY <1>2
<1>10. heard' \in Nat /\ heard <= heard'
  BY <1>2, <1>5, <1>7, <1>9
<1>11. heard + k + (l - k) = heard + l
  BY <1>2, <1>5, <1>9
<1> QED
  BY <1>7, <1>8, <1>9, <1>10, <1>11

\* The driver never hears more than was decoded, and nothing before it is bound.
LEMMA BehindStep ==
  AgreementInv /\ RingInv /\ RingInv' /\ BehindDecoder /\ [Next]_vars => BehindDecoder'
<1> SUFFICES ASSUME AgreementInv, RingInv, RingInv', BehindDecoder, [Next]_vars
             PROVE  BehindDecoder'
  OBVIOUS
<1> USE DEF session, env
<1>0. /\ next \in Nat \ {0} /\ next' \in Nat \ {0}
      /\ heard \in Nat /\ ring \in Seq(Nat) /\ rest \in Seq(Nat) /\ rest' \in Seq(Nat)
  BY DEF RingInv, RingTypes
<1>1. CASE Plan \/ OutputFails
  BY <1>1, BehindUnmoved DEF Plan, OutputFails, Bound
<1>2. CASE Open \/ Rebind
  <2>1. /\ pc' = "ready" /\ ring' = <<>> /\ next' = next
        /\ heard' = (next - 1) * Width[draft.spec] /\ binding'.spec = draft.spec
    BY <1>2 DEF Open, Rebind, BindsOn, NewBinding
  <2>2. heard' \in Nat
    BY DEF RingInv, RingTypes
  <2> QED
    BY <2>1, <2>2 DEF BehindDecoder, FrameWidth
<1>3. CASE CloseFails
  <2>1. /\ pc = "bindAgain" /\ pc' = "ending" /\ ring' = <<>>
        /\ UNCHANGED <<heard, next>> /\ binding'.spec = binding.spec
    BY <1>3 DEF CloseFails
  <2>2. FrameWidth \in Nat
    BY <2>1 DEF RingInv, RingTypes, Bound
  <2>3. PICK n \in Nat, w \in Nat : n = next - 1 /\ w = FrameWidth
    BY <1>0, <2>2
  <2>4. PICK top \in Nat : top = n * w
    OBVIOUS
  <2>5. heard + Len(ring) <= top /\ Len(ring) \in Nat
    BY <1>0, <2>1, <2>3, <2>4 DEF BehindDecoder, Bound
  <2>6. heard' + Len(ring') <= (next' - 1) * FrameWidth'
    BY <1>0, <2>1, <2>3, <2>4, <2>5 DEF FrameWidth
  <2> QED
    BY <2>1, <2>6 DEF BehindDecoder
<1>4. CASE Break \/ DeviceNotice \/ EndOfTrack
  BY <1>4, BehindUnmoved DEF Break, DeviceNotice, AfterLoss, EndOfTrack, Bound
<1>5. CASE Decode \/ Push
  <2>1. pc' \in {"submit", "push", "ready"}
    BY <1>5 DEF Decode, Push
  <2>2. /\ heard' \in Nat /\ ring' \in Seq(Nat) /\ rest' \in Seq(Nat)
        /\ FrameWidth' \in Nat
    BY <2>1 DEF RingInv, RingTypes, Bound
  <2>3. PICK n \in Nat : n = next' - 1
    <3>1. PICK m \in Nat \ {0} : m = next'
      BY <1>0
    <3>2. m - 1 \in Nat
      OBVIOUS
    <3> QED
      BY <3>1, <3>2
  <2>4. PICK w \in Nat : w = FrameWidth'
    BY <2>2
  <2>5. PICK top \in Nat : top = n * w
    OBVIOUS
  <2>6. top = (next' - 1) * FrameWidth'
    BY <2>3, <2>4, <2>5
  <2>7. CASE pc' = "submit"
    <3>1. block' \in 1 .. next' - 1 /\ heard' + Len(ring') = (next' - 1 - block') * FrameWidth'
      BY <2>7 DEF RingInv, NoGapInv
    <3>2. PICK b \in 1 .. n : b = block'
      BY <2>3, <2>4, <3>1
    <3>3. PICK x \in Nat : x = b * w /\ (n - b) * w = top - x
      BY <2>5
    <3>4. heard' + Len(ring') <= top
      <4>1. heard' + Len(ring') = (n - b) * w
        BY <2>3, <2>4, <3>1, <3>2
      <4> QED
        BY <3>3, <4>1
    <3> QED
      BY <2>6, <2>7, <3>4 DEF BehindDecoder
  <2>8. CASE pc' \in {"push", "ready"}
    <3>1. heard' + Len(ring') + Len(rest') = top
      BY <2>6, <2>8 DEF RingInv, NoGapInv
    <3> QED
      BY <2>2, <2>6, <2>8, <3>1 DEF BehindDecoder
  <2> QED
    BY <2>1, <2>7, <2>8
<1>6. CASE Submit
  <2>1. /\ pc = "submit" /\ UNCHANGED <<ring, heard, binding, next>>
        /\ pc' \in {"rebind", "ending", "push"}
    BY <1>6 DEF Submit, LoseBlock, AfterLoss
  <2> QED
    BY <2>1, BehindUnmoved DEF Bound
<1>7. CASE PushLost
  BY <1>7, BehindUnmoved DEF PushLost, LoseBlock, AfterLoss, Bound
<1>8. CASE DropSession
  BY <1>8 DEF DropSession, BehindDecoder, Bound
<1>9. CASE Callback
  <2>1. UNCHANGED <<pc, binding, next>> /\ pc \in Bound
    BY <1>9 DEF Callback, RingInv, RingTypes
  <2>2. heard' + Len(ring') = heard + Len(ring)
    BY <1>9, CallbackMoves
  <2> QED
    BY <2>1, <2>2 DEF BehindDecoder, Bound, FrameWidth
<1>10. CASE ErrorCallback \/ Replug \/ UNCHANGED vars
  <2>1. /\ binding'.spec = binding.spec
        /\ UNCHANGED <<pc, ring, heard, next>>
    <3>1. CASE ErrorCallback
      BY <3>1 DEF ErrorCallback
    <3>2. CASE Replug
      BY <3>2 DEF Replug
    <3>3. CASE UNCHANGED vars
      BY <3>3 DEF vars
    <3> QED
      BY <1>10, <3>1, <3>2, <3>3
  <2> QED
    BY <2>1, BehindUnmoved
<1> QED
  BY <1>1, <1>2, <1>3, <1>4, <1>5, <1>6, <1>7, <1>8, <1>9, <1>10 DEF Next, Loop

\* The bytes of whole and begun frames: the frame of a byte.
LEMMA LastFrame ==
  ASSUME NEW w \in Nat \ {0}
  PROVE  /\ \A n \in Nat : (n * w + w - 1) \div w = n
         /\ \A a \in Nat, b \in Nat : a <= b => (a + w - 1) \div w <= (b + w - 1) \div w
<1>1. ASSUME NEW n \in Nat PROVE (n * w + w - 1) \div w = n
  <2>1. (w * n + (w - 1)) \div w = n
    OBVIOUS
  <2>2. w * n + (w - 1) = n * w + w - 1
    OBVIOUS
  <2> QED
    BY <2>1, <2>2
<1>2. ASSUME NEW a \in Nat, NEW b \in Nat, a <= b
      PROVE  (a + w - 1) \div w <= (b + w - 1) \div w
  <2>1. PICK x \in Int, y \in Int : x = a + w - 1 /\ y = b + w - 1
    OBVIOUS
  <2>2. PICK p \in Int, r \in 0 .. (w - 1) : p = x \div w /\ x = w * p + r
    BY Quotient
  <2>3. PICK q \in Int, s \in 0 .. (w - 1) : q = y \div w /\ y = w * q + s
    BY Quotient
  <2>4. ~(q + 1 <= p)
    <3> SUFFICES ASSUME q + 1 <= p PROVE FALSE
      OBVIOUS
    <3>1. (q + 1) * w <= p * w
      OBVIOUS
    <3>2. (q + 1) * w = w * q + w /\ p * w = w * p
      OBVIOUS
    <3>3. PICK g \in Int, h \in Int : g = w * p /\ h = w * q
      OBVIOUS
    <3> QED
      BY <1>2, <2>1, <2>2, <2>3, <3>1, <3>2, <3>3
  <2> QED
    BY <2>1, <2>2, <2>3, <2>4
<1> QED
  BY <1>1, <1>2

\* Over every loss, rebind and given-up block, no frame is heard again.
THEOREM NothingHeardTwice == Spec => NothingReplayed
<1>1. AgreementInv /\ RingInv /\ BehindDecoder /\ [Next]_vars
        => (LastFrameHeard' >= LastFrameHeard \/ UNCHANGED vars)
  <2> SUFFICES ASSUME AgreementInv, RingInv, BehindDecoder, [Next]_vars
               PROVE  LastFrameHeard' >= LastFrameHeard
    OBVIOUS
  <2>0. heard \in Nat /\ next - 1 \in Nat
    BY DEF RingInv, RingTypes
  <2>1. LastFrameHeard \in Nat
    <3>1. CASE binding.spec \in Formats
      <4>1. PICK w \in Nat \ {0} : w = Width[binding.spec]
        BY <3>1, ConstantsAssumption
      <4>2. PICK x \in Nat : x = heard + w - 1
        BY <2>0
      <4>3. x \div w \in Nat
        OBVIOUS
      <4> QED
        BY <3>1, <4>1, <4>2, <4>3 DEF LastFrameHeard
    <3>2. CASE binding.spec \notin Formats
      BY <3>2 DEF LastFrameHeard
    <3> QED
      BY <3>1, <3>2
  <2>2. CASE Open \/ Rebind
    <3>1. /\ heard' = (next - 1) * Width[draft.spec] /\ binding'.spec = draft.spec
          /\ pc \in {"bindNew", "bindAgain"}
      BY <2>2 DEF Open, Rebind, BindsOn, NewBinding
    <3>2. draft.spec \in Formats
      BY <3>1 DEF AgreementInv, SessionAgrees
    <3>3. PICK v \in Nat \ {0} : v = Width[draft.spec]
      BY <3>2, ConstantsAssumption
    <3>4. ((next - 1) * v + v - 1) \div v = next - 1
      BY <2>0, <3>3, LastFrame
    <3>5. LastFrameHeard' = next - 1
      BY <3>1, <3>2, <3>3, <3>4 DEF LastFrameHeard
    <3>6. CASE binding.spec \notin Formats
      BY <2>0, <3>5, <3>6 DEF LastFrameHeard
    <3>7. CASE binding.spec \in Formats
      <4>1. PICK w \in Nat \ {0} : w = Width[binding.spec]
        BY <3>7, ConstantsAssumption
      <4>2. PICK top \in Nat : top = (next - 1) * w
        BY <2>0
      <4>3. heard <= top
        <5>1. CASE pc = "bindNew"
          BY <5>1, <4>2 DEF BehindDecoder
        <5>2. CASE pc = "bindAgain"
          <6>1. heard + Len(ring) <= top /\ Len(ring) \in Nat
            BY <4>1, <4>2, <5>2 DEF BehindDecoder, Bound, FrameWidth, RingInv, RingTypes
          <6> QED
            BY <2>0, <6>1
        <5> QED
          BY <3>1, <5>1, <5>2
      <4>4. (heard + w - 1) \div w <= (top + w - 1) \div w
        BY <2>0, <4>3, LastFrame
      <4>5. ((next - 1) * w + w - 1) \div w = next - 1
        BY <2>0, LastFrame
      <4> QED
        BY <3>5, <3>7, <4>1, <4>2, <4>4, <4>5 DEF LastFrameHeard
    <3> QED
      BY <3>6, <3>7
  <2>3. CASE Callback
    <3>1. heard' \in Nat /\ heard <= heard' /\ binding' = binding /\ pc \in Bound
      <4>1. binding' = binding
        BY <2>3 DEF Callback, session
      <4>2. pc \in Bound
        BY <2>3 DEF Callback, RingInv, RingTypes
      <4> QED
        BY <2>3, <4>1, <4>2, CallbackMoves
    <3>2. CASE binding.spec \in Formats
      <4>1. PICK w \in Nat \ {0} : w = Width[binding.spec]
        BY <3>2, ConstantsAssumption
      <4>2. (heard + w - 1) \div w <= (heard' + w - 1) \div w
        BY <2>0, <3>1, LastFrame
      <4> QED
        BY <3>1, <3>2, <4>1, <4>2 DEF LastFrameHeard
    <3>3. CASE binding.spec \notin Formats
      BY <3>1, <3>3 DEF LastFrameHeard
    <3> QED
      BY <3>2, <3>3
  <2>4. CASE ~(Open \/ Rebind \/ Callback)
    <3>1. heard' = heard /\ binding'.spec = binding.spec
      <4>1. CASE CloseFails
        BY <4>1 DEF CloseFails
      <4>2. CASE DropSession
        BY <4>2 DEF DropSession
      <4>3. CASE ErrorCallback
        BY <4>3 DEF ErrorCallback
      <4>4. CASE Plan \/ OutputFails
        BY <4>4 DEF Plan, OutputFails, session
      <4>5. CASE Break \/ DeviceNotice \/ Decode \/ EndOfTrack
        BY <4>5 DEF Break, DeviceNotice, Decode, EndOfTrack, session
      <4>6. CASE Submit \/ Push \/ PushLost
        BY <4>6 DEF Submit, Push, PushLost, session
      <4>7. CASE Replug
        BY <4>7 DEF Replug, session
      <4>8. CASE UNCHANGED vars
        BY <4>8 DEF vars, session
      <4> QED
        BY <2>4, <4>1, <4>2, <4>3, <4>4, <4>5, <4>6, <4>7, <4>8 DEF Next, Loop
    <3>2. LastFrameHeard' = LastFrameHeard
      BY <3>1 DEF LastFrameHeard
    <3> QED
      BY <2>1, <3>2
  <2> QED
    BY <2>2, <2>3, <2>4
<1>2. Init => BehindDecoder
  BY DEF Init, BehindDecoder, Bound
<1>3. AgreementInv /\ RingInv /\ [Next]_vars => RingInv' /\ AgreementInv'
  BY RingStep, AgreementStep
<1> QED
  BY <1>1, <1>2, <1>3, AgreementInit, RingInit, BehindStep, PTL DEF Spec, NothingReplayed
=============================================================================
