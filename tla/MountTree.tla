----------------------------- MODULE MountTree -----------------------------
(***************************************************************************)
(* The scan at mount time that builds the inode tree: Root.OnAdd,          *)
(* populate, addChipDir, ChipDir.OnAdd and mostCommon in                   *)
(* src/internal/vfs/vfs.go, one step per directory entry, and the names    *)
(* that buildTrackList gives to tracks.                                    *)
(*                                                                         *)
(* The source tree is a function from directories (the sequence of names   *)
(* that leads to one) to what os.ReadDir returns: entries in the order of  *)
(* their names, or an error.  An entry has a type, and a regular file what *)
(* buildTrackList finds in it: its format ("none" when it is skipped), the *)
(* artist and the titles of its tracks as cleanTag leaves them.  Artists   *)
(* are numbers, in lexicographic order, and zero is the empty string.  The *)
(* names of tracks are sequences of ASCII codes, without ".wav".           *)
(***************************************************************************)
EXTENDS Integers, Sequences, FiniteSets, SequencesExt

CONSTANTS
    Trees,              \* source trees
    Stem, Fallback,     \* of a file name: without extension, and "stem (ext)"
    FileName,           \* of a title: what sanitizeFilename makes of it, in ASCII
    NoName,             \* the empty string
    Unreadable          \* os.ReadDir failed

Titles == DOMAIN FileName

ASSUME FileNameAssumption == \A title \in Titles : FileName[title] \in Seq(0..127)

(* The powers of ten, as many as a number of tracks may have digits: the   *)
(* longest list is a playlist, of as many bytes as 32 bits can count.      *)
Tens == <<1, 10, 100, 1000, 10000, 100000, 1000000, 10000000, 100000000, 1000000000>>

SourceEntries ==
    [name : STRING, type : {"dir", "regular", "other"}, format : {"none", "spc", "multi"},
     artist : Nat, titles : Seq(Titles)]

(* What os.ReadDir returns: entries of different names, and directories    *)
(* that can be read in turn.  A file with tracks has an extension, so it   *)
(* has a stem and a fallback, and an SPC file has one track.               *)
IsTree(t) ==
    /\ <<>> \in DOMAIN t /\ DOMAIN t \subseteq Seq(STRING)
    /\ \A d \in DOMAIN t : t[d] # Unreadable =>
          /\ t[d] \in Seq(SourceEntries)
          /\ \A i, j \in DOMAIN t[d] : i # j => t[d][i].name # t[d][j].name
          /\ \A i \in DOMAIN t[d] :
                LET e == t[d][i]
                IN  /\ e.type = "dir" => Append(d, e.name) \in DOMAIN t
                    /\ e.format # "none" => Stem[e.name] \in STRING /\ Fallback[e.name] \in STRING
                    /\ e.format = "spc" => Len(e.titles) = 1
                    /\ Len(e.titles) \div Tens[10] < 10

ASSUME TreesAssumption == \A t \in Trees : IsTree(t)

VARIABLES
    source,             \* the source tree
    stack,              \* the calls of populate, innermost first
    nodes               \* the inodes, by path

vars == <<source, stack, nodes>>

-----------------------------------------------------------------------------
(* Album artists.                                                          *)

\* A choice that keeps the first of equals (a mutation of Better).
BetterFirst(counts, v, best) == counts[v] > counts[best]

Better(counts, v, best) ==
    counts[v] > counts[best] \/ (counts[v] = counts[best] /\ v < best)

(* One more value is counted, and the best so far is kept.                 *)
Counting(acc, v) ==
    IF v = 0 THEN acc
    ELSE LET counts == [acc.counts EXCEPT ![v] = @ + 1]
         IN  [counts |-> counts, best |-> IF Better(counts, v, acc.best) THEN v ELSE acc.best]

NoneCounted(values) == [counts |-> [a \in {0} \cup Range(values) |-> 0], best |-> 0]

MostCommon(values) == FoldLeft(Counting, NoneCounted(values), values).best

-----------------------------------------------------------------------------
(* Nodes.                                                                  *)

Dir == [kind |-> "SourceDir"]
File == [kind |-> "RealFile"]

(* "%02d": at least two digits, and as many as the number has.             *)
Width(n) == Min({w \in 2..10 : n \div Tens[w] < 10})

Number(n) ==
    LET w == Width(n)
    IN  [k \in 1..w |-> 48 + ((n \div Tens[w + 1 - k]) % 10)]

TrackPrefix == <<84, 114, 97, 99, 107, 95>>     \* "Track_"
Dash == <<32, 45, 32>>                          \* " - "

\* A number only for the tracks without a title (a mutation of TrackName).
TrackNameUnnumbered(entry, i) ==
    LET title == entry.titles[i]
    IN  CASE entry.format = "spc" -> FileName[IF title = NoName THEN "Track 1" ELSE title]
          [] entry.format # "spc" /\ title = NoName -> TrackPrefix \o Number(i)
          [] OTHER -> FileName[title]

(* The title in a format of one track, else the number with a title or a   *)
(* prefix.                                                                 *)
TrackName(entry, i) ==
    LET title == entry.titles[i]
    IN  CASE entry.format = "spc" -> FileName[IF title = NoName THEN "Track 1" ELSE title]
          [] entry.format # "spc" /\ title = NoName -> TrackPrefix \o Number(i)
          [] OTHER -> Number(i) \o Dash \o FileName[title]

(* NewPersistentInode calls ChipDir.OnAdd, which adds the tracks, with     *)
(* the album artist they have by then.                                     *)
Chip(entry, albumArtist) ==
    [kind |-> "ChipDir", of |-> entry.name,
     albumArtist |-> IF entry.format = "spc" THEN albumArtist ELSE 0,
     children |-> {TrackName(entry, i) : i \in DOMAIN entry.titles}]

\* A child that replaces the one of its name (a mutation of WithChild).
WithChildOverwriting(dir, name, node) ==
    [p \in DOMAIN nodes \cup {Append(dir, name)} |-> IF p = Append(dir, name) THEN node ELSE nodes[p]]

(* Inode.AddChild without overwriting.                                     *)
WithChild(dir, name, node) ==
    [p \in DOMAIN nodes \cup {Append(dir, name)} |-> IF p \in DOMAIN nodes THEN nodes[p] ELSE node]

Taken(dir, name) == Append(dir, name) \in DOMAIN nodes

-----------------------------------------------------------------------------

Call(dir) == [dir |-> dir, pc |-> "read", next |-> 1, pending |-> <<>>, artists |-> <<>>]

Init ==
    /\ source \in Trees
    /\ stack = <<Call(<<>>)>>
    /\ nodes = [p \in {<<>>} |-> Dir]

Top == Head(stack)
Entries == source[Top.dir]

Running(pc) == stack # <<>> /\ Top.pc = pc

Becomes(call) == stack' = <<call>> \o Tail(stack)

ReadDir ==
    /\ Running("read")
    /\ IF Entries = Unreadable THEN stack' = Tail(stack)
                               ELSE Becomes([Top EXCEPT !.pc = "entries"])
    /\ UNCHANGED <<source, nodes>>

Entry(type) ==
    /\ Running("entries") /\ Top.next <= Len(Entries)
    /\ Entries[Top.next].type = type

PastEntry == [Top EXCEPT !.next = @ + 1]

\* A subdirectory looked up in the root (a mutation of Directory).
DirectoryOfRoot ==
    /\ Entry("dir")
    /\ LET name == Entries[Top.next].name
       IN  /\ nodes' = WithChild(Top.dir, name, Dir)
           /\ stack' = <<Call(<<name>>), PastEntry>> \o Tail(stack)
    /\ UNCHANGED source

(* A subdirectory is populated before the next entry.                      *)
Directory ==
    /\ Entry("dir")
    /\ LET name == Entries[Top.next].name
       IN  /\ nodes' = WithChild(Top.dir, name, Dir)
           /\ stack' = <<Call(Append(Top.dir, name)), PastEntry>> \o Tail(stack)
    /\ UNCHANGED source

(* Symbolic links, devices, pipes and sockets.                             *)
Irregular ==
    /\ Entry("other")
    /\ Becomes(PastEntry)
    /\ UNCHANGED <<source, nodes>>

RegularFile ==
    /\ Entry("regular")
    /\ LET e == Entries[Top.next]
       IN  /\ nodes' = WithChild(Top.dir, e.name, File)
           /\ Becomes(IF e.format = "none" THEN PastEntry
                      ELSE [PastEntry EXCEPT
                               !.pending = Append(@, e),
                               !.artists = IF e.format = "spc" THEN Append(@, e.artist) ELSE @])
    /\ UNCHANGED source

EndOfEntries ==
    /\ Running("entries") /\ Top.next > Len(Entries)
    /\ Becomes([Top EXCEPT !.pc = "chips"])
    /\ UNCHANGED <<source, nodes>>

\* A fallback that is used without a look at the stem (a mutation of FolderName).
FolderNameFallback(dir, name) == Fallback[name]

(* The name that addChipDir tries last: the stem unless it is taken.       *)
FolderName(dir, name) ==
    IF Stem[name] # NoName /\ ~Taken(dir, Stem[name]) THEN Stem[name] ELSE Fallback[name]

(* One chiptune gets its folder, or none if both names are taken.          *)
AddChip ==
    /\ Running("chips") /\ Top.pending # <<>>
    /\ LET e == Head(Top.pending)
       IN  nodes' = WithChild(Top.dir, FolderName(Top.dir, e.name),
                              Chip(e, MostCommon(Top.artists)))
    /\ Becomes([Top EXCEPT !.pending = Tail(@)])
    /\ UNCHANGED source

Return ==
    /\ Running("chips") /\ Top.pending = <<>>
    /\ stack' = Tail(stack)
    /\ UNCHANGED <<source, nodes>>

Next ==
    \/ ReadDir \/ Directory \/ Irregular \/ RegularFile \/ EndOfEntries
    \/ AddChip \/ Return

Spec == Init /\ [][Next]_vars

-----------------------------------------------------------------------------
(* Properties.                                                             *)

Mounted == stack = <<>>

DirsRead == {d \in DOMAIN nodes \cap DOMAIN source :
                nodes[d].kind = "SourceDir" /\ source[d] # Unreadable}

Chiptunes(d) == {e \in Range(source[d]) : e.type = "regular" /\ e.format # "none"}

FoldersIn(d) == {p \in DOMAIN nodes : p # <<>> /\ Front(p) = d /\ nodes[p].kind = "ChipDir"}

FoldersOf(d, e) == {p \in FoldersIn(d) : nodes[p].of = e.name}

TypeOK ==
    /\ \A k \in DOMAIN stack :
          /\ stack[k].dir \in DOMAIN source
          /\ stack[k].pc \in {"read", "entries", "chips"}
          /\ k > 1 => stack[k].dir = Front(stack[k - 1].dir)
    /\ \A p \in DOMAIN nodes :
          /\ nodes[p].kind \in {"SourceDir", "RealFile", "ChipDir"}
          /\ p # <<>> => nodes[Front(p)].kind = "SourceDir"

(* The mounted tree mirrors the source: every directory and regular file   *)
(* of a directory that could be read is there under its own name as what   *)
(* it is, whatever chiptunes want that name, and nothing else is, except   *)
(* chiptune folders (vfs.go, the comment on addChipDir: "Real entries are  *)
(* added first, so they always keep their names").                         *)
MirrorsSource ==
    Mounted =>
        \A d \in DirsRead :
            LET Kept(type) == {Append(d, e.name) : e \in {x \in Range(source[d]) : x.type = type}}
                Seen(kind) == {p \in DOMAIN nodes : p # <<>> /\ Front(p) = d /\ nodes[p].kind = kind}
            IN  Kept("dir") = Seen("SourceDir") /\ Kept("regular") = Seen("RealFile")

(* A chiptune has one folder, under its stem unless something else holds   *)
(* that name, and then under "stem (ext)"; it has none only if others hold *)
(* both names.                                                             *)
FoldersNamed ==
    Mounted =>
        \A d \in DirsRead : \A e \in Chiptunes(d) :
            LET held == {n \in {Stem[e.name], Fallback[e.name]} : Taken(d, n)}
                mine == FoldersOf(d, e)
            IN  \/ mine = {Append(d, Stem[e.name])}
                \/ /\ mine = {Append(d, Fallback[e.name])}
                   /\ Stem[e.name] \in held \cup {NoName}
                \/ /\ mine = {}
                   /\ {Stem[e.name], Fallback[e.name]} \subseteq held \cup {NoName}

(* SPC files of one folder make one album: their tracks have the same      *)
(* album artist, the most frequent of the artists that these files name    *)
(* and of those the first in lexicographic order.                          *)
OneAlbumArtist ==
    Mounted =>
        \A d \in DirsRead :
            LET named    == {i \in DOMAIN source[d] :
                                source[d][i] \in Chiptunes(d) /\ source[d][i].format = "spc"
                                /\ source[d][i].artist # 0}
                Times(a) == Cardinality({i \in named : source[d][i].artist = a})
                artists  == {source[d][i].artist : i \in named}
                most     == {a \in artists : \A b \in artists : Times(b) <= Times(a)}
                Right(a) == IF named = {} THEN a = 0 ELSE a \in most /\ \A b \in most : a <= b
            IN  \A e \in Chiptunes(d) : \A p \in FoldersOf(d, e) :
                    IF e.format = "spc" THEN Right(nodes[p].albumArtist)
                                        ELSE nodes[p].albumArtist = 0

(* No track is lost in its folder to another of the same file name,        *)
(* although titles repeat, begin with digits or are missing,               *)
(* sanitizeFilename makes different ones equal, and numbers outgrow the    *)
(* two digits they are padded to.                                          *)
EveryTrackListed ==
    \A d \in DirsRead : \A e \in Chiptunes(d) : \A p \in FoldersOf(d, e) :
        Cardinality(nodes[p].children) = Len(e.titles)

(* docs/LIVING_SPEC.md: a chiptune whose stem is taken "becomes            *)
(* `stem (ext)` [...] rather than being dropped".  Every chiptune has a    *)
(* folder in the end.                                                      *)
NoneDropped ==
    Mounted => \A d \in DirsRead : \A e \in Chiptunes(d) : FoldersOf(d, e) # {}

=============================================================================
