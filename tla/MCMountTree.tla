---------------------------- MODULE MCMountTree ----------------------------
(***************************************************************************)
(* Source trees of a root, its subdirectories and one below them.          *)
(***************************************************************************)
EXTENDS MountTree

MCEntry(name, type, format, artist, titles) ==
    [name |-> name, type |-> type, format |-> format, artist |-> artist, titles |-> titles]

MCPlain(name, type) == MCEntry(name, type, "none", 0, <<>>)
MCMulti(name) == MCEntry(name, "regular", "multi", 1, <<"x/y", "x:y", "", "", "1 - x_y">>)
MCSPC(name, artist) == MCEntry(name, "regular", "spc", artist, <<"x/y">>)

(* Names in sorted order that compete for "game", "game (nsf)" and         *)
(* "(nsf)", and one whose fallback sorts after it (its space is trimmed).  *)
MCRoot ==
    <<MCMulti(" x.nsf"), MCPlain("(nsf)", "regular"), MCMulti(".nsf"), MCPlain("game", "dir"),
      MCPlain("game (nsf)", "regular"), MCMulti("game (nsf).nsf"), MCMulti("game.nsf"),
      MCSPC("game.spc", 2), MCPlain("link", "other"), MCPlain("sub", "dir"),
      MCPlain("x", "regular"), MCPlain("x (nsf)", "dir")>>

MCNames == {MCRoot[i].name : i \in DOMAIN MCRoot} \cup {"a.spc", "b.spc", "c.spc", "d.spc", "e.nsf"}

MCStem ==
    [n \in MCNames |->
        CASE n = " x.nsf" -> " x" [] n = ".nsf" -> "" [] n = "game (nsf).nsf" -> "game (nsf)"
          [] n \in {"game.spc", "game.nsf"} -> "game"
          [] n = "a.spc" -> "a" [] n = "b.spc" -> "b" [] n = "c.spc" -> "c" [] n = "d.spc" -> "d"
          [] OTHER -> "e"]

MCFallback ==
    [n \in MCNames |->
        CASE n = " x.nsf" -> "x (nsf)" [] n = ".nsf" -> "(nsf)"
          [] n = "game (nsf).nsf" -> "game (nsf) (nsf)"
          [] n = "game.spc" -> "game (spc)" [] n = "game.nsf" -> "game (nsf)"
          [] n = "a.spc" -> "a (spc)" [] n = "b.spc" -> "b (spc)" [] n = "c.spc" -> "c (spc)"
          [] n = "d.spc" -> "d (spc)" [] OTHER -> "e (nsf)"]

(* What the titles become: "", "Track 1", "1 - x_y" and twice "x_y".       *)
MCFileName ==
    [t \in {"x/y", "x:y", "", "Track 1", "1 - x_y"} |->
        CASE t = "" -> <<>>
          [] t = "Track 1" -> <<84, 114, 97, 99, 107, 32, 49>>
          [] t = "1 - x_y" -> <<49, 32, 45, 32, 120, 95, 121>>
          [] OTHER -> <<120, 95, 121>>]

(* Numbers of two and of three digits, with and without a title.           *)
MCMany == MCEntry("e.nsf", "regular", "multi", 1, [i \in 1..102 |-> IF i % 2 = 0 THEN "" ELSE "x/y"])

(* A folder of SPC files, an NSF file and a folder with an SPC file, by the *)
(* artists of the first SPC files.                                          *)
MCAlbum(artists) ==
    [i \in DOMAIN artists |-> MCSPC(<<"a.spc", "b.spc", "c.spc", "d.spc">>[i], artists[i])]
    \o <<MCPlain("deep", "dir"), MCMulti("e.nsf")>>

MCTree(root, sub) ==
    [d \in {<<>>, <<"game">>, <<"sub">>, <<"sub", "deep">>, <<"x (nsf)">>} |->
        CASE d = <<>> -> root
          [] d = <<"sub">> -> sub
          [] d = <<"sub", "deep">> -> <<MCSPC("a.spc", 1)>>
          [] OTHER -> <<>>]

(* Every choice of up to five of the root's entries, and every folder of   *)
(* four SPC files by up to three artists or without one.                   *)
MCTrees ==
    {MCTree(SelectSeq(MCRoot, LAMBDA e : e.name \in chosen), Unreadable) :
        chosen \in {names \in SUBSET {MCRoot[i].name : i \in DOMAIN MCRoot} :
                       Cardinality(names) <= 5}}
    \cup {MCTree(<<MCSPC("game.spc", 3), MCPlain("sub", "dir")>>, MCAlbum(artists)) :
        artists \in BoundedSeq(0..3, 4)}
    \cup {MCTree(<<MCMany>>, Unreadable)}

=============================================================================
