-------------------------------- MODULE NSFe --------------------------------
(***************************************************************************)
(* How the tracks of an NSF, NSFe or GBS file are found at scan time:      *)
(* Parse and parseNSFe in src/internal/formats/nsf/nsf.go, one step per    *)
(* chunk, Parse in src/internal/formats/gbs/gbs.go, and buildTrackList,    *)
(* which makes track entries of what they return, in                       *)
(* src/internal/vfs/vfs.go.                                                *)
(*                                                                         *)
(* A file is its magic, "other" when it is none that its extension allows, *)
(* for plain NSF and GBS whether the header is whole and the number of     *)
(* tracks in it, and for NSFe its chunks.  A chunk is its id,              *)
(* whether its data is whole, and its body: of INFO what follows byte 8    *)
(* (nothing when the chunk is too short), else a sequence of titles,       *)
(* durations or track indexes.  The id "DATA" stands for the chunks that   *)
(* are recognized and skipped, "unkn" and "UNKN" for those not known.      *)
(***************************************************************************)
EXTENDS Integers, Sequences, Durations

CONSTANTS
    Files,
    DefaultPlayMs, DefaultFadeMs, MaxPlayMs, MaxFadeMs,
    NoTitle,            \* the empty string
    Trimmed,            \* of titles with white space around them, the rest
    Placeholders,       \* the titles that cleanTag empties
    Unread,             \* nothing returned yet
    Nil                 \* what buildTrackList returns for a file it skips

ASSUME LimitsAssumption ==
    /\ DefaultPlayMs \in Nat \ {0} /\ DefaultFadeMs \in Nat \ {0}
    /\ MaxPlayMs \in Nat \ {0} /\ MaxFadeMs \in Nat \ {0}

(* What a file can hold.                                                   *)
Byte == 0..255

Chunks ==
    [id : {"INFO", "plst"}, whole : BOOLEAN, body : Seq(Byte)]
    \cup [id : {"time", "fade"}, whole : BOOLEAN, body : Seq(Int)]
    \cup [id : {"tlbl", "auth"}, whole : BOOLEAN, body : Seq(STRING)]
    \cup [id : {"NEND", "DATA", "unkn", "UNKN"}, whole : BOOLEAN, body : {<<>>}]

ASSUME FilesAssumption ==
    Files \subseteq [magic : {"NSFE", "NESM", "GBS", "other"}, whole : BOOLEAN, count : Byte,
                     chunks : Seq(Chunks)]
ASSUME TitleAssumption == NoTitle \in STRING

VARIABLES
    file,
    pc,
    pos,                \* the chunk that is read next
    trackCount, tracks, \* fields of the Header
    hasINFO, plst,
    list                \* what buildTrackList returns

header == <<trackCount, tracks, hasINFO, plst>>
vars == <<file, pc, pos, header, list>>

-----------------------------------------------------------------------------
(* Helpers of the parser.                                                  *)

Blank == [title |-> NoTitle, durationMs |-> 0, fadeMs |-> 0]

(* Internal track i, or the one that ensureTracks would make.               *)
TrackAt(i) == IF i <= Len(tracks) THEN tracks[i] ELSE Blank

(* The first n of the values.                                              *)
UpTo(values, n) == SubSeq(values, 1, IF n < Len(values) THEN n ELSE Len(values))

SplitTitles(values) == UpTo(values, trackCount)

\* Durations that are cut one entry late (a mutation of Int32s).
Int32sOneMore(values) == IF trackCount > 0 THEN UpTo(values, trackCount + 1) ELSE values

(* The entries of a time or fade chunk that applyTrackInt32s uses.         *)
Int32s(values) == IF trackCount > 0 THEN UpTo(values, trackCount) ELSE values

(* The first tracks replaced by these, which may be more than there are.   *)
Apply(new) == tracks' = new \o SubSeq(tracks, Len(new) + 1, Len(tracks))

(* The tracks in the order of a playlist of internal indexes.              *)
Remapped(ts, playlist) ==
    [slot \in DOMAIN playlist |-> IF playlist[slot] < Len(ts) THEN ts[playlist[slot] + 1] ELSE Blank]

-----------------------------------------------------------------------------

Init ==
    /\ file \in Files
    /\ pc = "read"
    /\ pos = 1
    /\ trackCount = 0 /\ tracks = <<>>
    /\ hasINFO = FALSE /\ plst = <<>>
    /\ list = Unread

Goto(there) == pc' = there

Reject == Goto("done") /\ list' = Nil

(* os.ReadFile, which fails, or the dispatch of nsf.Parse on the magic     *)
(* bytes.                                                                  *)
Read ==
    /\ pc = "read"
    /\ \/ /\ file.magic = "NSFE"
          /\ Goto("chunks")
          /\ UNCHANGED <<trackCount, list>>
       \/ /\ file.magic = "NESM" /\ file.whole
          /\ trackCount' = file.count
          /\ Goto("build")
          /\ UNCHANGED list
       \/ Reject /\ UNCHANGED trackCount
    /\ UNCHANGED <<file, pos, tracks, hasINFO, plst>>

(* gbs.Parse, of a header that is whole.                                   *)
ReadGBS ==
    /\ pc = "read" /\ file.magic = "GBS" /\ file.whole
    /\ trackCount' = file.count
    /\ Goto("build")
    /\ UNCHANGED <<file, pos, tracks, hasINFO, plst, list>>

\* A step that skips the chunk after this one too (a mutation of Chunk).
ChunkAndNext(ids) ==
    /\ pc = "chunks" /\ pos <= Len(file.chunks)
    /\ file.chunks[pos].id \in ids
    /\ file.chunks[pos].whole
    /\ pos' = pos + 2
    /\ UNCHANGED <<file, pc, list>>

(* The head of the loop at a chunk of one of these ids: the chunk is not   *)
(* the end of the file and its data is whole.                              *)
Chunk(ids) ==
    /\ pc = "chunks" /\ pos <= Len(file.chunks)
    /\ file.chunks[pos].id \in ids
    /\ file.chunks[pos].whole
    /\ pos' = pos + 1
    /\ UNCHANGED <<file, pc, list>>

Body == file.chunks[pos].body

Info ==
    /\ Chunk({"INFO"})
    /\ Body # <<>>
    /\ trackCount' = Body[1]
    /\ hasINFO' = TRUE
    /\ UNCHANGED <<tracks, plst>>

Titles ==
    /\ Chunk({"tlbl"})
    /\ LET values == SplitTitles(Body)
       IN  Apply([i \in DOMAIN values |-> [TrackAt(i) EXCEPT !.title = values[i]]])
    /\ UNCHANGED <<trackCount, hasINFO, plst>>

Times ==
    /\ Chunk({"time"})
    /\ LET values == Int32s(Body)
       IN  Apply([i \in DOMAIN values |-> [TrackAt(i) EXCEPT !.durationMs = values[i]]])
    /\ UNCHANGED <<trackCount, hasINFO, plst>>

Fades ==
    /\ Chunk({"fade"})
    /\ LET values == Int32s(Body)
       IN  Apply([i \in DOMAIN values |-> [TrackAt(i) EXCEPT !.fadeMs = values[i]]])
    /\ UNCHANGED <<trackCount, hasINFO, plst>>

\* A playlist that remaps the tracks read so far (a mutation of Playlist).
PlaylistAtOnce ==
    /\ Chunk({"plst"})
    /\ plst' = [slot \in DOMAIN Body |-> slot - 1]
    /\ tracks' = Remapped(tracks, Body)
    /\ UNCHANGED <<trackCount, hasINFO>>

Playlist ==
    /\ Chunk({"plst"})
    /\ plst' = Body
    /\ UNCHANGED <<trackCount, tracks, hasINFO>>

(* Strings about the file, none about tracks.                              *)
Auth == Chunk({"auth"}) /\ UNCHANGED header

(* Chunks that are known but not used, and unknown ones in lower case.     *)
Skip == Chunk({"DATA", "unkn"}) /\ UNCHANGED header

(* What makes a chunk whose data is whole an error.                        *)
TooShort(c) == c.id = "INFO" /\ c.body = <<>>
UnknownMandatory(c) == c.id = "UNKN"

BadChunk ==
    /\ pc = "chunks" /\ pos <= Len(file.chunks)
    /\ LET c == file.chunks[pos]
       IN  c.id # "NEND" /\ (~c.whole \/ TooShort(c) \/ UnknownMandatory(c))
    /\ Reject
    /\ UNCHANGED <<file, pos, header>>

AtEnd ==
    /\ pc = "chunks"
    /\ pos <= Len(file.chunks) => file.chunks[pos].id = "NEND"

(* What follows the loop, in a file with an INFO chunk.                    *)
Finish ==
    /\ AtEnd /\ hasINFO
    /\ IF plst = <<>>
       THEN UNCHANGED <<tracks, trackCount>>
       ELSE tracks' = Remapped(tracks, plst) /\ trackCount' = Len(plst)
    /\ Goto("build")
    /\ UNCHANGED <<file, pos, hasINFO, plst, list>>

FinishWithoutINFO ==
    /\ AtEnd /\ ~hasINFO
    /\ Reject
    /\ UNCHANGED <<file, pos, header>>

-----------------------------------------------------------------------------
(* parseNSF and parseGBS in vfs.go, and the entries of buildTrackList.     *)

TrimSpace(title) == IF title \in DOMAIN Trimmed THEN Trimmed[title] ELSE title

CleanTag(title) ==
    LET s == TrimSpace(title)
    IN  IF s \in Placeholders THEN NoTitle ELSE s

Entry(i, t) ==
    [number |-> i,
     title  |-> CleanTag(t.title),
     playMs |-> ClampMs(t.durationMs, DefaultPlayMs, MaxPlayMs),
     fadeMs |-> ClampMs(t.fadeMs, DefaultFadeMs, MaxFadeMs)]

\* One entry for each track with data (a mutation of Build).
BuildFromTracks ==
    /\ pc = "build"
    /\ list' = [i \in DOMAIN tracks |-> Entry(i, tracks[i])]
    /\ Goto("done")
    /\ UNCHANGED <<file, pos, header>>

Build ==
    /\ pc = "build"
    /\ list' = [i \in 1..trackCount |-> Entry(i, TrackAt(i))]
    /\ Goto("done")
    /\ UNCHANGED <<file, pos, header>>

Next ==
    \/ Read \/ ReadGBS
    \/ Info \/ Titles \/ Times \/ Fades \/ Playlist \/ Auth \/ Skip
    \/ BadChunk \/ Finish \/ FinishWithoutINFO
    \/ Build

Spec == Init /\ [][Next]_vars

-----------------------------------------------------------------------------
(* Properties.                                                             *)

TrackInfos == [title : STRING, durationMs : Int, fadeMs : Int]

TypeOK ==
    /\ pc \in {"read", "chunks", "build", "done"}
    /\ pos \in 1..(Len(file.chunks) + 1)
    /\ trackCount \in Nat
    /\ tracks \in Seq(TrackInfos)
    /\ hasINFO \in BOOLEAN
    /\ plst \in Seq(Byte)
    /\ pc # "done" => list = Unread

(* The reader answers nil or exactly what the file says: the last chunk    *)
(* that mentions a track decides, the playlist selects and orders tracks   *)
(* wherever it stands, and the entries are as many as the tracks that are  *)
(* played, with or without data.                                           *)
R == INSTANCE NSFeReading
ImplementsReading == R!Spec

(* An NSFe file that begins with its only INFO chunk.                      *)
InfoFirst ==
    /\ file.magic = "NSFE" /\ file.chunks # <<>>
    /\ \A i \in DOMAIN file.chunks : (file.chunks[i].id = "INFO") = (i = 1)

(* In such a file tracks beyond the number that INFO gives, which a        *)
(* playlist could bring to light, are kept only when that number is zero,  *)
(* and then with durations but never with a title: applyTrackInt32s bounds *)
(* its entries only by a count above zero, splitNullTerminated by any.     *)
BeyondTheCount ==
    InfoFirst => \A i \in DOMAIN tracks :
                     i > trackCount => trackCount = 0 /\ tracks[i].title = NoTitle

(* The comment on applyTrackInt32s (nsf.go): it calls set for each entry,  *)
(* "bounded by h.TrackCount".  In such a file nothing at all is kept of a  *)
(* track that INFO does not count.                                         *)
TracksWithinCount == InfoFirst => Len(tracks) <= trackCount

(* The permutations of a set.                                              *)
Orders(S) ==
    {p \in [S -> S] : /\ \A i \in S : \E j \in S : p[j] = i
                      /\ \A i, j \in S : i # j => p[i] # p[j]}

(* In such a file, and with each kind of chunk once and no NEND, the order *)
(* of the chunks after INFO does not matter: the list is the one that any  *)
(* other order gives (nsf.go applies the playlist last for this).          *)
OrderIrrelevant ==
    LET n == Len(file.chunks)
        Reordered(p) == [i \in 1..n |-> file.chunks[IF i = 1 THEN 1 ELSE p[i]]]
    IN  pc = "done" /\ list # Nil /\ InfoFirst
        /\ (\A i, j \in 1..n : i # j => file.chunks[i].id # file.chunks[j].id)
        /\ (\A i \in 1..n : file.chunks[i].id # "NEND")
        => \A p \in Orders(2..n) :
              list = R!Meaning([file EXCEPT !.chunks = Reordered(p)])

(* docs/specs/nsfe.md, of the fade chunk: "Zero = immediate end".  A track *)
(* to which the file gives a fade of zero fades for zero milliseconds.     *)
ZeroFadeEndsAtOnce ==
    pc = "done" /\ list # Nil /\ file.magic = "NSFE" =>
        \A slot \in DOMAIN list :
            LET t == R!Played(file.chunks)[slot]
            IN  R!Said(file.chunks, "fade", t, -1) = 0 => list[slot].fadeMs = 0

=============================================================================
