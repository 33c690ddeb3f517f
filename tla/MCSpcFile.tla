----------------------------- MODULE MCSpcFile -----------------------------
(***************************************************************************)
(* All tags of a set of durations, artists and paddings, in both           *)
(* encodings, and all titles of up to three of ten bytes.                  *)
(***************************************************************************)
EXTENDS SpcFile

(* Blank, small, around a digit in the low byte (48 to 57, 304), a length  *)
(* of one to three digits, and around the limit of a binary duration.      *)
MCPlays(format) ==
    {0, 7, 47, 48, 57, 58, 61, 120, 304} \cup IF format = "binary" THEN {8191, 8192} ELSE {}

MCFades(format) ==
    {0, 5, 50, 8000, 12345, 99999} \cup IF format = "binary" THEN {100000, 538976288} ELSE {}

(* None, one letter, one that starts with a digit, one that ends and one   *)
(* that starts with a space, one that starts with a control character.     *)
MCArtists == {<<>>, <<65>>, <<56, 66>>, <<65, 32>>, <<32, 65>>, <<1, 65>>, <<63>>}

MCTag(format, dated, play, fade, pad, title, artist, channels) ==
    [format |-> format, dated |-> dated, play |-> play, fade |-> fade, pad |-> pad,
     title |-> title, artist |-> artist, channels |-> channels]

MCDurations ==
    UNION {{MCTag(format, dated, play, fade, pad, <<97>>, artist, 0) :
               dated \in BOOLEAN, play \in MCPlays(format), fade \in MCFades(format),
               pad \in {0, 32}, artist \in MCArtists} : format \in {"text", "binary"}}

(* Artists that all but fill and that fill their field, after a letter or  *)
(* a space, before a byte of channels that is zero or might be a letter.   *)
MCFull(first, len) == [i \in 1..len |-> IF i = 1 THEN first ELSE 65]

MCFullArtists ==
    {MCTag(format, FALSE, 120, 8000, 0, <<97>>, MCFull(first, len), channels) :
        format \in {"text", "binary"}, first \in {32, 65}, len \in {31, 32}, channels \in {0, 66}}

(* NUL, a control character, tab, space, '/', ':', '.', '?', DEL, 'a'.     *)
MCTitleBytes == {0, 1, 9, 32, 47, 58, 46, 63, 127, 97}

MCTitles ==
    {MCTag("text", TRUE, 61, 8000, 0, title, <<65>>, 0) :
        title \in BoundedSeq(MCTitleBytes, 3) \cup {<<60, 63, 62>>}}

MCOthers == {MCTag(format, FALSE, 0, 0, 0, <<97>>, <<65>>, 0) : format \in {"none", "cut", "other"}}

MCWritten == MCDurations \cup MCFullArtists \cup MCTitles \cup MCOthers

\* Longer than the 127 bytes of a size in one byte.
MCAlbum == [i \in 1..130 |-> 65]
MCAlbumArtists == {<<>>, <<65, 66>>, <<65, 66, 67>>}

=============================================================================
