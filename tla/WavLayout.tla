----------------------------- MODULE WavLayout -----------------------------
(***************************************************************************)
(* Where the parts of a WAV file lie: header, buildListInfo, buildID3v2    *)
(* and what they call in src/internal/wav/muxer.go.  Only lengths count: a *)
(* tag gives the length of each of its texts, zero for one that is empty,  *)
(* and for the track the number of its digits, zero when it has no number. *)
(***************************************************************************)
EXTENDS Integers, Sequences

Tags == [title : Nat, artist : Nat, album : Nat, albumArtist : Nat, track : Nat]

\* A size without its pad byte (a mutation of Padded).
Unpadded(n) == n

(* paddedSize, and the pad byte that header appends to an odd id3 chunk.   *)
Padded(n) == IF n % 2 = 0 THEN n ELSE n + 1

(* Four bytes of seven bits, the most significant first.                   *)
Syncsafe(n) ==
    <<(n \div (128 * 128 * 128)) % 128, (n \div (128 * 128)) % 128, (n \div 128) % 128, n % 128>>

(* An ID3v2.4 text frame: its header, the encoding byte and the text.      *)
TextFrame(len) == IF len = 0 THEN 0 ELSE 11 + len

FramesLen(tag) ==
    TextFrame(tag.title) + TextFrame(tag.artist) + TextFrame(tag.album)
    + TextFrame(tag.albumArtist) + TextFrame(tag.track)

ID3v2Len(tag) == 10 + FramesLen(tag)

(* An INFO subchunk: its header, the text and a null, padded.              *)
InfoSubchunk(len) == IF len = 0 THEN 0 ELSE 8 + Padded(len + 1)

InfoLen(tag) ==
    InfoSubchunk(tag.title) + InfoSubchunk(tag.artist) + InfoSubchunk(tag.album)

(* The LIST chunk, which is left out when it would be empty.               *)
ListInfo(tag) == IF InfoLen(tag) = 0 THEN 0 ELSE 12 + InfoLen(tag)

(* Interleaved 16-bit samples of a track of so many milliseconds.          *)
PcmBytes(ms, rate, channels) == ((ms * rate) \div 1000) * channels * 2

Chunk(id, at, size) == [id |-> id, at |-> at, size |-> size]

(* header: each chunk's place in the file and the size it declares, the    *)
(* place of the first sample, and the size that the RIFF header declares.  *)
Header(tag, pcmBytes) ==
    LET fmt  == Chunk("fmt ", 12, 16)
        id3  == Chunk("id3 ", 36, ID3v2Len(tag))
        list == Chunk("LIST", 44 + Padded(ID3v2Len(tag)), 4 + InfoLen(tag))
        data == Chunk("data", 44 + Padded(ID3v2Len(tag)) + ListInfo(tag), pcmBytes)
    IN  [chunks    |-> IF ListInfo(tag) = 0 THEN <<fmt, id3, data>> ELSE <<fmt, id3, list, data>>,
         samplesAt |-> data.at + 8,
         riffSize  |-> data.at + pcmBytes]

-----------------------------------------------------------------------------
(* How a file is read: by RIFF, a chunk is followed by the next even byte  *)
(* after the size it declares; by ID3v2, sizes have seven bits per byte.   *)

After(at, size) == at + 8 + size + (size % 2)

Unsync(bytes) == ((bytes[1] * 128 + bytes[2]) * 128 + bytes[3]) * 128 + bytes[4]

(* A reader that goes from chunk to chunk meets each where it is and the   *)
(* end of the file, of fileSize bytes, after the last one; and a player    *)
(* that stops at the data chunk starts with the first sample.              *)
ChunksFollow(h, fileSize) ==
    LET n == Len(h.chunks)
    IN  /\ h.chunks[1].at = 12
        /\ \A i \in 1..(n - 1) : h.chunks[i + 1].at = After(h.chunks[i].at, h.chunks[i].size)
        /\ After(h.chunks[n].at, h.chunks[n].size) = fileSize
        /\ h.samplesAt = h.chunks[n].at + 8
        /\ h.riffSize = fileSize - 8

(* Within the LIST chunk a subchunk of a text takes what a reader expects  *)
(* of one that declares the text and its null.                             *)
SubchunksFollow(tag) ==
    \A len \in {tag.title, tag.artist, tag.album} \ {0} : After(0, len + 1) = InfoSubchunk(len)

(* Within the id3 chunk a reader of the sizes that frames and tag declare  *)
(* finds each frame and the end of the tag.                                *)
FramesFollow(tag) ==
    /\ \A len \in {tag.title, tag.artist, tag.album, tag.albumArtist, tag.track} \ {0} :
          10 + Unsync(Syncsafe(1 + len)) = TextFrame(len)
    /\ 10 + Unsync(Syncsafe(FramesLen(tag))) = ID3v2Len(tag)

=============================================================================
