--------------------------- MODULE OutputPlanner ----------------------------
(***************************************************************************)
(* plan_output: which device, which of its modes and which rate a stream   *)
(* is played at.  A snapshot is the sequence of devices that discovery     *)
(* returned; ids are numbers, since only their order matters.              *)
(***************************************************************************)
EXTENDS Integers, Sequences, FiniteSets, FiniteSetsExt

MaxSpecChannels == 32     \* SampleSpec::validate

Encodings == {"I8", "I16", "I24", "I32", "I48", "I64",
              "U8", "U16", "U24", "U32", "U48", "U64", "F32", "F64"}

OutputMode ==
  [id : Nat, channels : Nat, encoding : Encodings, min : Nat, max : Nat, default : Nat,
   isDefault : BOOLEAN, rank : Nat]

OutputDevice ==
  [id : Nat, name : STRING, category : STRING, priority : Int, modes : SUBSET OutputMode]

DeviceSelector == [kind : {"exact"}, value : Nat] \cup [kind : {"any"}]
                    \cup [kind : {"name", "category"}, value : STRING]

ModePreference == [kind : {"any"}] \cup [kind : {"rate"}, rate : Nat]
                    \cup [kind : {"encoding"}, encoding : Encodings]
                    \cup [kind : {"exact"}, rate : Nat, encoding : Encodings, channels : Nat]

\* PcmEncoding: width and kind of each encoding.
Bits(e) == CASE e \in {"I8", "U8"}         -> 8
             [] e \in {"I16", "U16"}       -> 16
             [] e \in {"I24", "U24"}       -> 24
             [] e \in {"I32", "U32", "F32"} -> 32
             [] e \in {"I48", "U48"}       -> 48
             [] e \in {"I64", "U64", "F64"} -> 64
IsFloat(e)  == e \in {"F32", "F64"}
IsSigned(e) == e \in {"I8", "I16", "I24", "I32", "I48", "I64"}

SpecBytes(spec) == spec.channels * (Bits(spec.encoding) \div 8)

\* DeviceSnapshot::validate
ValidSnapshot(snap) ==
  /\ \A i \in 1..(Len(snap) - 1) : snap[i].id < snap[i + 1].id
  /\ \A i \in DOMAIN snap : \A m \in snap[i].modes :
        m.channels > 0 /\ m.min > 0 /\ m.max >= m.min

Contains(m, rate) == rate >= m.min /\ rate <= m.max

\* SampleRateRange::candidates; req is the requested rates, at most one.
Rates(m, source, req) ==
  {r \in {source, m.default, m.min, m.max} \cup req : Contains(m, r)}

Matches(sel, dev) ==
  CASE sel.kind = "exact"    -> dev.id = sel.value
    [] sel.kind = "name"     -> dev.name = sel.value
    [] sel.kind = "category" -> dev.category = sel.value
    [] sel.kind = "any"      -> TRUE

-----------------------------------------------------------------------------
(* Loss of a conversion.  Every quotient is rounded down.                  *)

RateLoss(in, out) == IF in > out THEN ((in - out) * 100) \div 1000
                                 ELSE ((out - in) * 10) \div 1000
ChannelLoss(in, out) == IF in > out THEN (in - out) * 80 ELSE (out - in) * 5
EncodingLoss(in, out) ==
  IF in = out THEN 0
  ELSE Max({Bits(in) - Bits(out), Bits(out) - Bits(in)})
         + IF IsFloat(in) # IsFloat(out) \/ IsSigned(in) # IsSigned(out) THEN 20 ELSE 0

\* Both sides are interleaved and of native byte order here.
Loss(in, out) == RateLoss(in.rate, out.rate)
                   + ChannelLoss(in.channels, out.channels)
                   + EncodingLoss(in.encoding, out.encoding)

-----------------------------------------------------------------------------
(* A candidate for each preference, device, mode and rate that fit.        *)

Requested(want) == IF want.kind \in {"rate", "exact"} THEN {want.rate} ELSE {}

ModeFits(want, m) ==
  /\ want.kind \in {"encoding", "exact"} => m.encoding = want.encoding
  /\ want.kind = "exact" => m.channels = want.channels /\ Contains(m, want.rate)

WantedRates(want, m, source) ==
  IF want.kind = "exact" THEN {want.rate} ELSE Rates(m, source, Requested(want))

SpecAt(m, rate) == [rate |-> rate, channels |-> m.channels, encoding |-> m.encoding]

Candidates(snap, source, prefs) ==
  UNION {UNION {UNION {
     {[pref |-> p, device |-> snap[d].id, priority |-> snap[d].priority, mode |-> m,
       spec |-> SpecAt(m, r), loss |-> Loss(source, SpecAt(m, r))]
        : r \in WantedRates(prefs[p].mode, m, source.rate)}
        : m \in {x \in snap[d].modes : ModeFits(prefs[p].mode, x)}}
        : d \in {x \in DOMAIN snap : Matches(prefs[p].selector, snap[x])}}
        : p \in DOMAIN prefs}

\* The bug of comparing the quality of a mode before what it would cost.
KeyRankFirst(c) == <<c.pref, -c.priority, -c.mode.rank, c.loss,
                     IF c.mode.isDefault THEN 0 ELSE 1, -c.spec.rate, c.device, c.mode.id>>

\* compare_plan: the keys in the order they decide.
Key(c) == <<c.pref, -c.priority, c.loss, -c.mode.rank,
            IF c.mode.isDefault THEN 0 ELSE 1, -c.spec.rate, c.device, c.mode.id>>

ComparePlan(a, b) ==
  \E i \in DOMAIN Key(a) : Key(a)[i] < Key(b)[i] /\ \A j \in 1..(i - 1) : Key(a)[j] = Key(b)[j]

\* One mode with more channels than a SampleSpec may have fails the whole plan.
Plannable(snap, source, prefs) ==
  /\ ValidSnapshot(snap)
  /\ prefs # <<>>
  /\ Candidates(snap, source, prefs) # {}
  /\ \A c \in Candidates(snap, source, prefs) : c.spec.channels <= MaxSpecChannels

PlanOutput(snap, source, prefs) ==
  CHOOSE c \in Candidates(snap, source, prefs) :
    \A o \in Candidates(snap, source, prefs) : o # c => ComparePlan(c, o)
=============================================================================
