---------------------------- MODULE MCMediaPath -----------------------------
(***************************************************************************)
(* Instance of MediaPath: a buffer of 8 bytes and blocks of 4 frames keep  *)
(* the proportion of the program's 8192 and 4096.                          *)
(***************************************************************************)
EXTENDS MediaProperties

Chunk(id, len) == [id |-> id, len |-> len]

Wav(chunks, channels, depth, rate, size) ==
  [riff |-> TRUE, pcm |-> TRUE, chunks |-> chunks, channels |-> channels,
   depth |-> depth, rate |-> rate, size |-> size, rival |-> 60]

\* 8 bit, 16 bit behind a chunk of another kind, no length announced (and half
\* a frame at the end), and more frames announced than the file has.
Aligned == {
  Wav(<<Chunk("fmt", 16), Chunk("data", 7)>>, 1, 8, 44100, 51),
  Wav(<<Chunk("other", 4), Chunk("fmt", 18), Chunk("data", 12)>>, 1, 16, 48000, 70),
  Wav(<<Chunk("fmt", 16), Chunk("data", 0)>>, 2, 16, 22050, 46),
  Wav(<<Chunk("fmt", 16), Chunk("data", 36)>>, 258, 16, 44100, 26)}

\* Frames of three bytes, which a buffer does not hold a whole number of.
Packed == {Wav(<<Chunk("fmt", 16), Chunk("data", 21)>>, 1, 24, 44100, 65)}

\* An odd chunk before the data, no RIFF header, no format, a float format, and
\* a file another codec is surer of.
Refused == {
  Wav(<<Chunk("other", 5), Chunk("fmt", 16), Chunk("data", 4)>>, 1, 16, 48000, 70),
  [Wav(<<Chunk("fmt", 16), Chunk("data", 4)>>, 1, 16, 48000, 48) EXCEPT !.riff = FALSE, !.rival = 20],
  Wav(<<Chunk("data", 4), Chunk("fmt", 16)>>, 1, 16, 48000, 48),
  [Wav(<<Chunk("fmt", 16), Chunk("data", 4)>>, 1, 16, 48000, 48) EXCEPT !.rival = 95],
  [Wav(<<Chunk("fmt", 16), Chunk("data", 4)>>, 1, 32, 48000, 48) EXCEPT !.pcm = FALSE]}

AllFiles  == Aligned \cup Packed \cup Refused

Mode(id, channels, encoding, min, max, default, rank) ==
  [id |-> id, channels |-> channels, encoding |-> encoding, min |-> min, max |-> max,
   default |-> default, isDefault |-> id = 0, rank |-> rank]

Device(id, name, category, priority, modes) ==
  [id |-> id, name |-> name, category |-> category, priority |-> priority, modes |-> modes]

Speakers == Device(1, "speakers", "onboard", 0,
  {Mode(0, 2, "I16", 48000, 48000, 48000, 2), Mode(1, 1, "F32", 44100, 48000, 48000, 1)})
Headset  == Device(2, "headset", "usb", 0, {Mode(0, 1, "U8", 11025, 22050, 16000, 0)})
Dock     == Device(3, "dock", "usb", 5,
  {Mode(0, 2, "F32", 22050, 44100, 22050, 0), Mode(1, 2, "I16", 96000, 96000, 96000, 3)})
Mixer    == Device(4, "mixer", "other", 0, {Mode(0, 40, "F32", 44100, 48000, 48000, 1)})

MCSnapshots == {<<Speakers>>, <<Headset>>, <<Speakers, Dock>>,
                <<>>, <<Headset, Speakers>>, <<Speakers, Mixer>>}

Any  == [kind |-> "any"]
MCPreferences == {
  <<[selector |-> Any, mode |-> Any]>>,
  <<[selector |-> [kind |-> "name", value |-> "headset"],
     mode |-> [kind |-> "rate", rate |-> 12000]],
    [selector |-> [kind |-> "category", value |-> "usb"],
     mode |-> [kind |-> "encoding", encoding |-> "I16"]],
    [selector |-> [kind |-> "exact", value |-> 1],
     mode |-> [kind |-> "exact", rate |-> 48000, encoding |-> "I16", channels |-> 2]]>>}
=============================================================================
