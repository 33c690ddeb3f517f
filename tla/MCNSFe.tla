------------------------------- MODULE MCNSFe -------------------------------
(***************************************************************************)
(* All files of up to three chunks of sixteen, those of INFO and up to     *)
(* three chunks about tracks, plain NSF files and GBS files.               *)
(***************************************************************************)
EXTENDS NSFe, SequencesExt

MCChunk(id, whole, body) == [id |-> id, whole |-> whole, body |-> body]

(* Two tracks, and chunks with fewer, as many and more entries than that;  *)
(* the playlists repeat a track, leave one out and name one that is not    *)
(* there.  Durations are absent, zero, within and above the limits.        *)
MCTrackChunks ==
    {MCChunk("tlbl", TRUE, <<"a", " ?", "c">>), MCChunk("tlbl", TRUE, <<"b">>),
     MCChunk("time", TRUE, <<9, -1, 3>>), MCChunk("time", TRUE, <<4>>),
     MCChunk("fade", TRUE, <<0, 7, 1>>),
     MCChunk("plst", TRUE, <<1, 1, 2, 0>>), MCChunk("plst", TRUE, <<0>>),
     MCChunk("plst", TRUE, <<>>)}

MCInfo == MCChunk("INFO", TRUE, <<2>>)

MCChunks ==
    MCTrackChunks \cup
    {MCInfo, MCChunk("INFO", TRUE, <<1>>), MCChunk("INFO", TRUE, <<0>>),
     MCChunk("INFO", TRUE, <<>>), MCChunk("NEND", TRUE, <<>>),
     MCChunk("auth", TRUE, <<"game">>), MCChunk("unkn", TRUE, <<>>),
     MCChunk("UNKN", TRUE, <<>>)}

(* Only the last chunk of a file can be cut off.                           *)
MCCutOff == {MCChunk("time", FALSE, <<4>>), MCChunk("NEND", FALSE, <<>>)}

MCChunkLists ==
    LET upTo3 == BoundedSeq(MCChunks, 3)
    IN  upTo3
        \cup {Append(cs, c) : cs \in BoundedSeq(MCChunks, 1), c \in MCCutOff}
        \cup {<<MCInfo>> \o cs : cs \in BoundedSeq(MCTrackChunks, 3)}

MCFile(magic, whole, count, chunks) ==
    [magic |-> magic, whole |-> whole, count |-> count, chunks |-> chunks]

MCFiles ==
    {MCFile("NSFE", TRUE, 0, cs) : cs \in MCChunkLists}
    \cup {MCFile(magic, whole, count, <<>>) :
            magic \in {"NESM", "GBS"}, whole \in BOOLEAN, count \in 0..2}
    \cup {MCFile("other", TRUE, 0, <<>>)}

MCTrimmed == [title \in {" ?"} |-> "?"]
MCPlaceholders == {"?", "<?>"}

=============================================================================
