------------------------------ MODULE SpcFile ------------------------------
(***************************************************************************)
(* How one SPC file becomes one track at scan time: Parse in               *)
(* src/internal/formats/spc/spc.go, buildTrackList and newTrackFile in     *)
(* src/internal/vfs/vfs.go, and the WAV header of module WavLayout.        *)
(*                                                                         *)
(* The file is what a dumping tool wrote, in one of the two encodings of   *)
(* docs/specs/spc.md, which the file does not tell apart; its tools are    *)
(* external.  Texts are sequences of ASCII codes.  The bytes from 0xA9 on  *)
(* are one sequence, because the two encodings divide it differently.      *)
(***************************************************************************)
EXTENDS WavLayout, FiniteSetsExt, SequencesExt, Durations

CONSTANTS
    Written,            \* what tools wrote: see WrittenAssumption
    Album, AlbumArtists,    \* the folder's name, and artists it may have
    DefaultPlayMs, DefaultFadeMs, MaxPlayMs, MaxFadeMs,
    SampleRate, Channels,
    MaxBinaryPlaySec, MaxBinaryFadeMs,
    Nil

Byte == 0..255
ASCII == 0..127

Dumps ==
    [format : {"text", "binary", "none", "cut", "other"},
     dated : BOOLEAN,           \* 0xA0 is '/'
     play : Nat, fade : Nat,    \* zero when the tool leaves them blank
     pad : {0, 32},             \* how it fills the fields of a text tag
     title : Seq(ASCII), artist : Seq(ASCII),
     channels : Byte]           \* those to be silent, a bit of each

(* Numbers fit their fields, of three and five digits or three and four    *)
(* bytes, and so do texts.                                                 *)
Fits(w) ==
    /\ w.format = "text" => w.play < 1000 /\ w.fade < 100 * 1000
    /\ w.format = "binary" => w.play \div (256 * 256) < 256 /\ w.fade \div (256 * 256 * 256) < 256
    /\ Len(w.title) <= 32 /\ Len(w.artist) <= 32

ASSUME WrittenAssumption == Written \subseteq Dumps /\ \A w \in Written : Fits(w)

(* A name of a directory, and artists of other SPC files.                  *)
ASSUME TextAssumption ==
    /\ Album \in Seq(ASCII) /\ Len(Album) <= 255
    /\ AlbumArtists \subseteq Seq(ASCII) /\ \A a \in AlbumArtists : Len(a) <= 32

(* A field of spaces, read as a number, is beyond the limits.              *)
ASSUME NumberAssumption ==
    /\ {DefaultPlayMs, DefaultFadeMs, MaxPlayMs, MaxFadeMs, SampleRate, Channels} \subseteq Nat
    /\ MaxBinaryPlaySec \in Nat /\ MaxBinaryPlaySec < 32 * (1 + 256 * (1 + 256))
    /\ MaxBinaryFadeMs \in Nat /\ MaxBinaryFadeMs < 32 * (1 + 256 * (1 + 256 * (1 + 256)))

VARIABLES written, pc, tag, entry, wav

vars == <<written, pc, tag, entry, wav>>

-----------------------------------------------------------------------------
(* The tools.                                                              *)

Tens == <<1, 10, 100, 1000, 10000>>

(* Without zeros in front; none when the number is left blank.             *)
Digits(n) ==
    LET width == Cardinality({k \in 1..5 : n >= Tens[k]})
    IN  [i \in 1..width |-> 48 + ((n \div Tens[width + 1 - i]) % 10)]

Filled(text, width, pad) == text \o [i \in 1..(width - Len(text)) |-> pad]

Bytes3(n) == <<n % 256, (n \div 256) % 256, (n \div (256 * 256)) % 256>>

Bytes4(n) == Bytes3(n) \o <<(n \div (256 * 256 * 256)) % 256>>

(* The bytes from 0xA9 on: the artist has 32, and channels is the next.    *)
Rest(w) ==
    (IF w.format = "binary"
     THEN Bytes3(w.play) \o Bytes4(w.fade)
     ELSE Filled(Digits(w.play), 3, w.pad) \o Filled(Digits(w.fade), 5, w.pad))
    \o Filled(w.artist, 32, 0) \o <<w.channels>>

-----------------------------------------------------------------------------
(* Texts.                                                                  *)

Spaces == {9, 10, 11, 12, 13, 32}

(* strings.TrimSpace                                                       *)
TrimSpace(s) ==
    LET kept == {i \in DOMAIN s : s[i] \notin Spaces}
    IN  IF kept = {} THEN <<>> ELSE SubSeq(s, Min(kept), Max(kept))

NullPaddedString(b) ==
    LET nulls == {i \in DOMAIN b : b[i] = 0}
    IN  IF nulls = {} THEN b ELSE SubSeq(b, 1, Min(nulls) - 1)

Decimal(n, d) == 10 * n + (d - 48)

(* strconv.Atoi of the field, or zero.                                     *)
ParseASCIIInt(b) ==
    LET s        == TrimSpace(NullPaddedString(b))
        signed   == s # <<>> /\ s[1] \in {43, 45}
        digits   == IF signed THEN Tail(s) ELSE s
        value    == FoldLeft(Decimal, 0, digits)
    IN  IF Range(digits) \subseteq 48..57
        THEN IF signed /\ s[1] = 45 THEN -value ELSE value
        ELSE 0

Uint24(b, at) == b[at] + 256 * (b[at + 1] + 256 * b[at + 2])

Uint32(b, at) == Uint24(b, at) + 256 * 256 * 256 * b[at + 3]

CleanTag(s) ==
    LET t == TrimSpace(s)
    IN  IF t \in {<<63>>, <<60, 63, 62>>} THEN <<>> ELSE t

\* Only what POSIX forbids is replaced (a mutation of SanitizeFilename).
SanitizeSlashes(s) == TrimSpace([i \in DOMAIN s |-> IF s[i] \in {0, 47} THEN 95 ELSE s[i]])

SanitizeFilename(s) ==
    LET clean == TrimSpace([i \in DOMAIN s |->
                    IF s[i] \in {47, 58, 127} \cup 0..31 THEN 95 ELSE s[i]])
    IN  IF clean \in {<<46>>, <<46, 46>>} THEN <<95>> ELSE clean

-----------------------------------------------------------------------------

Init ==
    /\ written \in Written
    /\ pc = "parse"
    /\ tag = Nil /\ entry = Nil /\ wav = Nil

Goto(there) == pc' = there

(* No magic, or a tag that is cut off; and os.ReadFile may fail, whatever  *)
(* the file holds.                                                         *)
Reject ==
    /\ pc = "parse"
    /\ Goto("done")
    /\ UNCHANGED <<written, tag, entry, wav>>

NoID666 ==
    /\ pc = "parse" /\ written.format = "none"
    /\ tag' = [title |-> <<>>, artist |-> <<>>, playMs |-> 0, fadeMs |-> 0]
    /\ Goto("build")
    /\ UNCHANGED <<written, entry, wav>>

IsBinaryFormat == ~written.dated /\ Rest(written)[1] \notin 48..57

Tagged(playMs, fadeMs, artist) ==
    /\ tag' = [title |-> NullPaddedString(written.title), artist |-> NullPaddedString(artist),
               playMs |-> playMs, fadeMs |-> fadeMs]
    /\ Goto("build")
    /\ UNCHANGED <<written, entry, wav>>

(* From its offset in a text tag when its own holds padding.               *)
BinaryArtist(b) == IF b[8] <= 32 THEN SubSeq(b, 9, 40) ELSE SubSeq(b, 8, 39)

HasTag == pc = "parse" /\ written.format \in {"text", "binary"}

\* Binary durations without a limit (a mutation of ParseBinary).
ParseBinaryUnlimited ==
    /\ HasTag /\ IsBinaryFormat
    /\ LET b == Rest(written)
       IN  Tagged(1000 * Uint24(b, 1),
                  Uint32(b, 4),
                  BinaryArtist(b))

ParseBinary ==
    /\ HasTag /\ IsBinaryFormat
    /\ LET b    == Rest(written)
           play == Uint24(b, 1)
           fade == Uint32(b, 4)
       IN  Tagged(IF play <= MaxBinaryPlaySec THEN 1000 * play ELSE 0,
                  IF fade <= MaxBinaryFadeMs THEN fade ELSE 0,
                  BinaryArtist(b))

ParseText ==
    /\ HasTag /\ ~IsBinaryFormat
    /\ LET b == Rest(written)
       IN  Tagged(1000 * ParseASCIIInt(SubSeq(b, 1, 3)), ParseASCIIInt(SubSeq(b, 4, 8)),
                  SubSeq(b, 9, 40))

(* "Track 1" when there is no title.                                       *)
Track1 == <<84, 114, 97, 99, 107, 32, 49>>

Title == IF CleanTag(tag.title) = <<>> THEN Track1 ELSE CleanTag(tag.title)

(* The entry's file name without ".wav"; its album artist is the folder's. *)
Build ==
    /\ pc = "build"
    /\ \E albumArtist \in AlbumArtists :
          entry' = [filename |-> SanitizeFilename(Title),
                    title |-> Title, artist |-> CleanTag(tag.artist), album |-> CleanTag(Album),
                    albumArtist |-> albumArtist,
                    playMs |-> ClampMs(tag.playMs, DefaultPlayMs, MaxPlayMs),
                    fadeMs |-> ClampMs(tag.fadeMs, DefaultFadeMs, MaxFadeMs)]
    /\ Goto("header")
    /\ UNCHANGED <<written, tag, wav>>

Metadata ==
    [title |-> Len(entry.title), artist |-> Len(entry.artist), album |-> Len(entry.album),
     albumArtist |-> Len(entry.albumArtist), track |-> 1]

DataBytes == PcmBytes(entry.playMs + entry.fadeMs, SampleRate, Channels)

NewTrackFile ==
    /\ pc = "header"
    /\ wav' = Header(Metadata, DataBytes)
    /\ Goto("done")
    /\ UNCHANGED <<written, tag, entry>>

Next ==
    Reject \/ NoID666 \/ ParseBinary \/ ParseText \/ Build \/ NewTrackFile

Spec == Init /\ [][Next]_vars

-----------------------------------------------------------------------------
(* Properties.                                                             *)

(* The tag can only have been written in its own encoding: a text tag with *)
(* a date or a play duration, or without any duration; a binary tag whose  *)
(* year is not taken for a slash nor its duration, modulo 256, for a digit, *)
(* nor the first byte of its artist for the end of a duration, nor the     *)
(* byte of its channels for the end of an artist that begins with a space. *)
Unambiguous ==
    \/ /\ written.format = "text"
       /\ written.dated \/ written.play > 0 \/ written.fade = 0
    \/ /\ written.format = "binary"
       /\ ~written.dated /\ written.play % 256 \notin 48..57
       /\ written.artist # <<>> =>
             \/ written.artist[1] > 32
             \/ /\ written.artist[1] \in Spaces
                /\ Len(written.artist) < 32 \/ written.channels = 0

(* The two encodings overlap, durations first, and share no marker; such a *)
(* tag is read back as it was written, in either encoding and however its  *)
(* fields are padded, except that a binary duration beyond the limits      *)
(* counts as unknown (spc.go, isBinaryFormat and Parse).                   *)
ReadsBack ==
    tag # Nil /\ Unambiguous =>
        LET known(n, limit) == IF written.format = "binary" /\ n > limit THEN 0 ELSE n
        IN  /\ tag.playMs = 1000 * known(written.play, MaxBinaryPlaySec)
            /\ tag.fadeMs = known(written.fade, MaxBinaryFadeMs)
            /\ CleanTag(tag.artist) = CleanTag(NullPaddedString(written.artist))

(* Whatever ASCII codes the title holds, the track's file name is one path *)
(* component that a shell and a client can show: not empty, no separator   *)
(* and no control character, no space at an end, and not a relative path   *)
(* (vfs.go, the comment on sanitizeFilename).                              *)
NameLegal ==
    entry # Nil =>
        LET name == entry.filename
        IN  /\ name \notin {<<>>, <<46>>, <<46, 46>>}
            /\ Range(name) \cap ({47, 58, 127} \cup 0..31) = {}
            /\ name[1] # 32 /\ name[Len(name)] # 32

(* A reader of the WAV file finds every chunk, subchunk and frame where    *)
(* the sizes before it say, with texts of even, odd and no length, and the *)
(* file has the size that EstimatedSize gives (muxer.go, header).          *)
WavReadable ==
    wav # Nil =>
        /\ ChunksFollow(wav, wav.samplesAt + DataBytes)
        /\ SubchunksFollow(Metadata)
        /\ FramesFollow(Metadata)

=============================================================================
