---------------------------- MODULE NSFeReading ----------------------------
(***************************************************************************)
(* What a chiptune file in NSF, NSFe or GBS format says, independently of  *)
(* how src/internal/formats/nsf and gbs read it: for each track that is    *)
(* played, the title and durations that the last chunk which mentions it   *)
(* gives it.  Reading such a file is one step.                             *)
(***************************************************************************)
EXTENDS Integers, Sequences, FiniteSetsExt, Durations

CONSTANTS
    Files,                          \* see module NSFe
    DefaultPlayMs, DefaultFadeMs, MaxPlayMs, MaxFadeMs,
    NoTitle, Trimmed, Placeholders,
    Unread, Nil

VARIABLES file, list

-----------------------------------------------------------------------------
(* The chunks that count are those before the first NEND.                  *)

InUse(cs) == {i \in DOMAIN cs : \A j \in 1..i : cs[j].id # "NEND"}

Faulty(c) ==
    \/ ~c.whole
    \/ c.id = "INFO" /\ c.body = <<>>
    \/ c.id = "UNKN"

(* Their positions, by kind.                                               *)
Positions(cs, id) == {i \in InUse(cs) : cs[i].id = id}

(* The number of tracks that the last INFO chunk before position i gives.  *)
CountAt(cs, i) ==
    LET infos == {j \in Positions(cs, "INFO") : j < i}
    IN  IF infos = {} THEN 0 ELSE cs[Max(infos)].body[1]

(* Chunk i says something about internal track t, counted from one.  Chunks *)
(* are bounded by the number of tracks known by then; of durations, all     *)
(* count while that is zero, and of titles none.                            *)
Mentions(cs, i, t) ==
    /\ t <= Len(cs[i].body)
    /\ t <= CountAt(cs, i) \/ (cs[i].id # "tlbl" /\ CountAt(cs, i) = 0)

(* What chunks of a kind say of internal track t: the last one decides.    *)
Said(cs, id, t, otherwise) ==
    LET by == {i \in Positions(cs, id) : Mentions(cs, i, t)}
    IN  IF by = {} THEN otherwise ELSE cs[Max(by)].body[t]

(* The internal tracks that are played, in order.                          *)
Played(cs) ==
    LET lists == Positions(cs, "plst")
        plst  == IF lists = {} THEN <<>> ELSE cs[Max(lists)].body
        count == CountAt(cs, Len(cs) + 1)
    IN  IF plst = <<>> THEN [slot \in 1..count |-> slot]
                       ELSE [slot \in 1..Len(plst) |-> plst[slot] + 1]

-----------------------------------------------------------------------------

(* Titles count without the white space around them, and placeholders as   *)
(* none.                                                                   *)
Tag(title) ==
    LET rest == IF title \in DOMAIN Trimmed THEN Trimmed[title] ELSE title
    IN  IF rest \in Placeholders THEN NoTitle ELSE rest

Track(number, title, play, fade) ==
    [number |-> number,
     title  |-> Tag(title),
     playMs |-> ClampMs(play, DefaultPlayMs, MaxPlayMs),
     fadeMs |-> ClampMs(fade, DefaultFadeMs, MaxFadeMs)]

MeaningOfChunks(cs) ==
    IF (\E i \in InUse(cs) : Faulty(cs[i])) \/ Positions(cs, "INFO") = {}
    THEN Nil
    ELSE LET played == Played(cs)
         IN  [slot \in DOMAIN played |->
                 LET t == played[slot]
                 IN  Track(slot, Said(cs, "tlbl", t, NoTitle), Said(cs, "time", t, 0),
                           Said(cs, "fade", t, 0))]

Meaning(f) ==
    CASE f.magic = "NSFE" -> MeaningOfChunks(f.chunks)
      [] f.magic \in {"NESM", "GBS"} /\ f.whole ->
            [slot \in 1..f.count |-> Track(slot, NoTitle, 0, 0)]
      [] OTHER -> Nil

Init == file \in Files /\ list = Unread

(* A file that cannot be read has no tracks.                               *)
Read ==
    /\ list = Unread
    /\ list' \in {Meaning(file), Nil}
    /\ UNCHANGED file

Spec == Init /\ [][Read]_<<file, list>>

=============================================================================
