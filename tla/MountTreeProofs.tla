--------------------------- MODULE MountTreeProofs ---------------------------
(***************************************************************************)
(* The safety properties of the scan for every source tree of any depth.   *)
(* The children of a directory are followed from its Readdir to the last   *)
(* chiptune, by predicates of a tree t, the nodes ns and the directory d.  *)
(***************************************************************************)
EXTENDS MountTree, FoldFacts, SequenceTheorems

Names == STRING
Paths == Seq(Names)

Frames ==
    [dir : Paths, pc : {"read", "entries", "chips"}, next : Nat \ {0},
     pending : Seq(SourceEntries), artists : Seq(Nat)]

Child(t, d, i) == Append(d, t[d][i].name)

(* Every node but the root is in a directory.                              *)
Rooted(ns) ==
    /\ DOMAIN ns \subseteq Paths
    /\ <<>> \in DOMAIN ns /\ ns[<<>>].kind = "SourceDir"
    /\ \A p \in DOMAIN ns :
          /\ ns[p].kind \in {"SourceDir", "RealFile", "ChipDir"}
          /\ p # <<>> => Front(p) \in DOMAIN ns /\ ns[Front(p)].kind = "SourceDir"

(* The directories and files among the entries before the nth are there.   *)
Mirrored(t, ns, d, n) ==
    \A i \in 1..Len(t[d]) : i < n =>
        /\ t[d][i].type = "dir" =>
              Child(t, d, i) \in DOMAIN ns /\ ns[Child(t, d, i)].kind = "SourceDir"
        /\ t[d][i].type = "regular" =>
              Child(t, d, i) \in DOMAIN ns /\ ns[Child(t, d, i)].kind = "RealFile"

(* Nothing else is, but for chiptune folders.                              *)
NothingElse(t, ns, d, n) ==
    \A p \in DOMAIN ns : p # <<>> /\ Front(p) = d /\ ns[p].kind # "ChipDir" =>
        \E i \in 1..Len(t[d]) :
            /\ i < n /\ p = Child(t, d, i)
            /\ ns[p].kind = "SourceDir" => t[d][i].type = "dir"
            /\ ns[p].kind = "RealFile" => t[d][i].type = "regular"

NoFolders(ns, d) ==
    \A p \in DOMAIN ns : p # <<>> /\ Front(p) = d => ns[p].kind # "ChipDir"

Empty(ns, d) == \A p \in DOMAIN ns : p # <<>> => Front(p) # d

IsDir(ns, d) == d \in DOMAIN ns /\ ns[d].kind = "SourceDir"

-----------------------------------------------------------------------------
(* Paths.                                                                  *)

LEMMA PathOfChild ==
    ASSUME NEW d \in Paths, NEW name \in Names
    PROVE  /\ Append(d, name) \in Paths /\ Append(d, name) # <<>>
           /\ Front(Append(d, name)) = d
           /\ Len(Append(d, name)) = Len(d) + 1
<1> DEFINE p == Append(d, name)
<1>1. /\ p \in Paths /\ p # <<>> /\ Len(p) = Len(d) + 1
      /\ \A i \in 1..Len(d) : p[i] = d[i]
  BY AppendProperties DEF Paths
<1>2. Len(d) \in Nat  BY LenProperties DEF Paths
<1>3. Front(p) \in Seq(Names) /\ Len(Front(p)) = Len(d)
      /\ \A i \in 1..Len(d) : Front(p)[i] = p[i]
  <2> HIDE DEF p
  <2> QED  BY <1>1, <1>2 DEF Front, Paths
<1>4. Front(p) = d
  <2> HIDE DEF p
  <2> QED  BY <1>1, <1>3, SeqEqual DEF Paths
<1> QED  BY <1>1, <1>4

LEMMA ChildrenDiffer ==
    ASSUME NEW d \in Paths, NEW a \in Names, NEW b \in Names, Append(d, a) = Append(d, b)
    PROVE  a = b
<1>1. Append(d, a)[Len(d) + 1] = a /\ Append(d, b)[Len(d) + 1] = b
  BY AppendProperties DEF Paths
<1> QED  BY <1>1

-----------------------------------------------------------------------------
(* A new child of one directory.                                           *)

(* ms is ns with a node at a child of d, unless something is there: what   *)
(* Inode.AddChild does.                                                    *)
AddsChild(ns, d, name, node, ms) ==
    /\ Rooted(ns) /\ IsDir(ns, d) /\ d \in Paths /\ name \in Names
    /\ node.kind \in {"SourceDir", "RealFile", "ChipDir"}
    /\ ms = [p \in DOMAIN ns \cup {Append(d, name)} |-> IF p \in DOMAIN ns THEN ns[p] ELSE node]

Extends(ns, ms, c, node) ==
    /\ \A p \in DOMAIN ns : p \in DOMAIN ms /\ ms[p] = ns[p]
    /\ \A p \in DOMAIN ms : p \in DOMAIN ns \/ (p = c /\ ms[p] = node)
    /\ c \in DOMAIN ms

LEMMA ChildAdded ==
    ASSUME NEW ns, NEW ms, NEW d, NEW name, NEW node, AddsChild(ns, d, name, node, ms)
    PROVE  Rooted(ms) /\ Extends(ns, ms, Append(d, name), node)
<1> DEFINE c == Append(d, name)
<1>1. c \in Paths /\ c # <<>> /\ Front(c) = d  BY PathOfChild DEF AddsChild
<1>2. DOMAIN ms = DOMAIN ns \cup {c}  BY DEF AddsChild
<1>3. \A p \in DOMAIN ms : ms[p] = IF p \in DOMAIN ns THEN ns[p] ELSE node
  BY <1>2 DEF AddsChild
<1> HIDE DEF c
<1>4. Extends(ns, ms, c, node)  BY <1>2, <1>3 DEF Extends
<1>5. Rooted(ms)  BY <1>1, <1>2, <1>4 DEF Rooted, IsDir, Extends, AddsChild
<1> QED  BY <1>4, <1>5 DEF c

(* Nothing changes for another directory.                                  *)
LEMMA OthersKept ==
    ASSUME NEW t, NEW ns, NEW ms, NEW d, NEW name, NEW node, AddsChild(ns, d, name, node, ms),
           NEW o, o # d, NEW n
    PROVE  /\ Mirrored(t, ns, o, n) => Mirrored(t, ms, o, n)
           /\ NothingElse(t, ns, o, n) => NothingElse(t, ms, o, n)
           /\ NoFolders(ns, o) => NoFolders(ms, o)
           /\ Empty(ns, o) => Empty(ms, o)
<1>1. Front(Append(d, name)) = d  BY PathOfChild DEF AddsChild
<1>2. Extends(ns, ms, Append(d, name), node)  BY ChildAdded
<1>3. \A p \in DOMAIN ms : p # <<>> /\ Front(p) = o => p \in DOMAIN ns /\ ms[p] = ns[p]
  BY <1>1, <1>2 DEF Extends
<1>4. \A p \in DOMAIN ns : p \in DOMAIN ms /\ ms[p] = ns[p]  BY <1>2 DEF Extends
<1> QED  BY <1>3, <1>4 DEF Mirrored, NothingElse, NoFolders, Empty

(* The next directory or file of d is added under its own name.            *)
LEMMA EntryAdded ==
    ASSUME NEW t, IsTree(t), NEW d \in DOMAIN t, t[d] # Unreadable, NEW n \in 1..Len(t[d]),
           NEW ns, NEW ms, NEW node, AddsChild(ns, d, t[d][n].name, node, ms),
           \/ t[d][n].type = "dir" /\ node.kind = "SourceDir"
           \/ t[d][n].type = "regular" /\ node.kind = "RealFile",
           Mirrored(t, ns, d, n), NothingElse(t, ns, d, n), NoFolders(ns, d)
    PROVE  /\ Child(t, d, n) \notin DOMAIN ns
           /\ Mirrored(t, ms, d, n + 1) /\ NothingElse(t, ms, d, n + 1) /\ NoFolders(ms, d)
<1> DEFINE c == Child(t, d, n)
<1>1. /\ d \in Paths /\ t[d][n].name \in Names
      /\ \A i \in 1..Len(t[d]) : t[d][i].name \in Names
      /\ \A i \in 1..Len(t[d]) : i # n => t[d][i].name # t[d][n].name
      /\ Len(t[d]) \in Nat
  <2>1. t[d] \in Seq(SourceEntries) /\ d \in Seq(STRING)
        /\ \A i, j \in DOMAIN t[d] : i # j => t[d][i].name # t[d][j].name
    BY DEF IsTree
  <2>2. DOMAIN t[d] = 1..Len(t[d]) /\ Len(t[d]) \in Nat
        /\ \A i \in 1..Len(t[d]) : t[d][i] \in SourceEntries
    BY <2>1, LenProperties, ElementOfSeq
  <2>3. \A e \in SourceEntries : e.name \in STRING  BY DEF SourceEntries
  <2> QED  BY <2>1, <2>2, <2>3 DEF Paths, Names
<1>2. c # <<>> /\ Front(c) = d  BY <1>1, PathOfChild DEF Child
<1>3. \A i \in 1..Len(t[d]) : i # n => Child(t, d, i) # c
  BY <1>1, ChildrenDiffer DEF Child
<1>4. c \notin DOMAIN ns
  BY <1>2, <1>3 DEF NothingElse, NoFolders
<1>5. Extends(ns, ms, c, node)  BY ChildAdded DEF Child
<1> HIDE DEF c
<1>6. \A i \in 1..Len(t[d]) : i < n + 1 => i < n \/ i = n  BY <1>1
<1>7. ms[c] = node /\ c \in DOMAIN ms  BY <1>4, <1>5 DEF Extends
<1>8. Mirrored(t, ms, d, n + 1)
  BY <1>5, <1>6, <1>7 DEF Mirrored, Extends, c
<1>9. NothingElse(t, ms, d, n + 1)
  BY <1>1, <1>5, <1>7 DEF NothingElse, Extends, c
<1>10. NoFolders(ms, d)
  BY <1>5, <1>7 DEF NoFolders, Extends
<1> QED  BY <1>4, <1>8, <1>9, <1>10 DEF c

(* A chiptune folder, wherever it finds a name, disturbs no other entry.   *)
LEMMA FolderAdded ==
    ASSUME NEW t, NEW ns, NEW ms, NEW d, NEW name, NEW node, NEW n,
           AddsChild(ns, d, name, node, ms), node.kind = "ChipDir",
           Mirrored(t, ns, d, n), NothingElse(t, ns, d, n)
    PROVE  Mirrored(t, ms, d, n) /\ NothingElse(t, ms, d, n)
<1>1. Extends(ns, ms, Append(d, name), node)  BY ChildAdded
<1> QED  BY <1>1 DEF Extends, Mirrored, NothingElse

-----------------------------------------------------------------------------
(* The invariant.                                                          *)

IsChip(e) == e.type = "regular" /\ e.format # "none"

Folders(ns, d, name) ==
    {p \in DOMAIN ns : p # <<>> /\ Front(p) = d /\ ns[p].kind = "ChipDir" /\ ns[p].of = name}

Held(ns, d, name) == {n \in {Stem[name], Fallback[name]} : Append(d, n) \in DOMAIN ns}

(* A chiptune of d whose turn has come.                                    *)
Named(ns, d, name) ==
    \/ Folders(ns, d, name) = {Append(d, Stem[name])}
    \/ /\ Folders(ns, d, name) = {Append(d, Fallback[name])}
       /\ Stem[name] \in Held(ns, d, name) \cup {NoName}
    \/ /\ Folders(ns, d, name) = {}
       /\ {Stem[name], Fallback[name]} \subseteq Held(ns, d, name) \cup {NoName}

(* The pending chiptunes are different ones among the entries read.        *)
PendingRead(t, f) ==
    /\ \A j \in 1..Len(f.pending) : \E i \in 1..Len(t[f.dir]) :
          i < f.next /\ IsChip(t[f.dir][i]) /\ f.pending[j] = t[f.dir][i]
    /\ \A j, k \in 1..Len(f.pending) : j # k => f.pending[j] # f.pending[k]

IsPending(f, e) == \E j \in 1..Len(f.pending) : f.pending[j] = e

(* What a call of populate has done so far.                                *)
FrameOK(t, ns, f) ==
    /\ f.pc = "read" => Empty(ns, f.dir) /\ f.next = 1 /\ f.pending = <<>>
    /\ f.pc # "read" =>
          /\ t[f.dir] # Unreadable
          /\ f.next <= Len(t[f.dir]) + 1
          /\ Mirrored(t, ns, f.dir, f.next) /\ NothingElse(t, ns, f.dir, f.next)
          /\ PendingRead(t, f)
    /\ f.pc = "entries" =>
          /\ NoFolders(ns, f.dir)
          /\ \A i \in 1..Len(t[f.dir]) :
                i < f.next /\ IsChip(t[f.dir][i]) => IsPending(f, t[f.dir][i])
    /\ f.pc = "chips" =>
          /\ f.next = Len(t[f.dir]) + 1
          /\ \A i \in 1..Len(t[f.dir]) : IsChip(t[f.dir][i]) =>
                IF IsPending(f, t[f.dir][i]) THEN Folders(ns, f.dir, t[f.dir][i].name) = {}
                                             ELSE Named(ns, f.dir, t[f.dir][i].name)

(* What it has done when it returns.                                       *)
Done(t, ns, d) ==
    t[d] # Unreadable =>
        /\ Mirrored(t, ns, d, Len(t[d]) + 1) /\ NothingElse(t, ns, d, Len(t[d]) + 1)
        /\ \A i \in 1..Len(t[d]) : IsChip(t[d][i]) => Named(ns, d, t[d][i].name)

(* A chiptune folder belongs to a chiptune beside it and has its tracks.   *)
HasTracks(t, d, node) ==
    \E i \in 1..Len(t[d]) :
        /\ IsChip(t[d][i]) /\ node.of = t[d][i].name
        /\ node.children = {TrackName(t[d][i], k) : k \in DOMAIN t[d][i].titles}

Filled(t, ns) == \A p \in DOMAIN ns : ns[p].kind = "ChipDir" => HasTracks(t, Front(p), ns[p])

(* The kth call from the top is for a directory k levels up.               *)
Placed(t, st, ns, k) ==
    /\ st[k].dir \in DOMAIN t /\ IsDir(ns, st[k].dir)
    /\ Len(st[k].dir) = Len(st) - k
    /\ k > 1 => st[k].dir = Front(st[k - 1].dir)

OnStack(st, d) == \E k \in 1..Len(st) : st[k].dir = d

Inv(t, st, ns) ==
    /\ st \in Seq(Frames)
    /\ Rooted(ns) /\ Filled(t, ns)
    /\ \A k \in 1..Len(st) : Placed(t, st, ns, k) /\ FrameOK(t, ns, st[k])
    /\ \A d \in DOMAIN t : IsDir(ns, d) /\ ~OnStack(st, d) => Done(t, ns, d)

IInv == source \in Trees /\ Inv(source, stack, nodes)

-----------------------------------------------------------------------------
(* The stack.                                                              *)

LEMMA Replaced ==
    ASSUME NEW st \in Seq(Frames), st # <<>>, NEW f \in Frames
    PROVE  LET new == <<f>> \o Tail(st)
           IN  /\ new \in Seq(Frames) /\ Len(new) = Len(st) /\ Len(st) \in Nat \ {0}
               /\ new[1] = f /\ \A k \in 2..Len(st) : new[k] = st[k]
<1>1. Tail(st) \in Seq(Frames) /\ Len(Tail(st)) = Len(st) - 1 /\ Len(st) \in Nat \ {0}
      /\ \A i \in 1..Len(Tail(st)) : Tail(st)[i] = st[i + 1]
  BY HeadTailProperties, EmptySeq
<1> DEFINE r == Tail(st)
<1> HIDE DEF r
<1>2. r \in Seq(Frames) /\ Len(r) = Len(st) - 1  BY <1>1 DEF r
<1> DEFINE h == <<f>>
<1>a. h \in Seq(Frames) /\ Len(h) = 1 /\ h[1] = f  OBVIOUS
<1> HIDE DEF h
<1>3. /\ h \o r \in Seq(Frames) /\ Len(h \o r) = Len(st)
      /\ (h \o r)[1] = f /\ \A k \in 2..Len(st) : (h \o r)[k] = r[k - 1]
  <2>1. /\ h \o r \in Seq(Frames) /\ Len(h \o r) = Len(h) + Len(r)
        /\ \A i \in 1..(Len(h) + Len(r)) : (h \o r)[i] = IF i <= Len(h) THEN h[i] ELSE r[i - Len(h)]
    BY <1>a, <1>2, ConcatProperties, Zenon
  <2> QED  BY <1>1, <1>2, <1>a, <2>1
<1>4. \A k \in 2..Len(st) : r[k - 1] = st[k]
  <2>1. \A k \in 2..Len(st) : k - 1 \in 1..Len(Tail(st)) /\ (k - 1) + 1 = k  BY <1>1
  <2> QED  BY <1>1, <2>1 DEF r
<1> QED  BY <1>1, <1>3, <1>4 DEF r, h

LEMMA Pushed ==
    ASSUME NEW st \in Seq(Frames), st # <<>>, NEW f \in Frames, NEW g \in Frames
    PROVE  LET new == <<g, f>> \o Tail(st)
           IN  /\ new \in Seq(Frames) /\ Len(new) = Len(st) + 1 /\ Len(st) \in Nat \ {0}
               /\ new[1] = g /\ new[2] = f /\ \A k \in 3..Len(new) : new[k] = st[k - 1]
<1>1. Tail(st) \in Seq(Frames) /\ Len(Tail(st)) = Len(st) - 1 /\ Len(st) \in Nat \ {0}
      /\ \A i \in 1..Len(Tail(st)) : Tail(st)[i] = st[i + 1]
  BY HeadTailProperties, EmptySeq
<1> DEFINE r == Tail(st)
<1> HIDE DEF r
<1>2. r \in Seq(Frames) /\ Len(r) = Len(st) - 1  BY <1>1 DEF r
<1> DEFINE h == <<g, f>>
<1>a. h \in Seq(Frames) /\ Len(h) = 2 /\ h[1] = g /\ h[2] = f  OBVIOUS
<1> HIDE DEF h
<1>3. /\ h \o r \in Seq(Frames) /\ Len(h \o r) = Len(st) + 1
      /\ (h \o r)[1] = g /\ (h \o r)[2] = f
      /\ \A k \in 3..(Len(st) + 1) : (h \o r)[k] = r[k - 2]
  <2>1. /\ h \o r \in Seq(Frames) /\ Len(h \o r) = Len(h) + Len(r)
        /\ \A i \in 1..(Len(h) + Len(r)) : (h \o r)[i] = IF i <= Len(h) THEN h[i] ELSE r[i - Len(h)]
    BY <1>a, <1>2, ConcatProperties, Zenon
  <2> QED  BY <1>1, <1>2, <1>a, <2>1
<1>4. \A k \in 3..(Len(st) + 1) : r[k - 2] = st[k - 1]
  <2>1. \A k \in 3..(Len(st) + 1) : k - 2 \in 1..Len(Tail(st)) /\ (k - 2) + 1 = k - 1
    BY <1>1
  <2> QED  BY <1>1, <2>1 DEF r
<1> QED  BY <1>1, <1>3, <1>4 DEF r, h

LEMMA Popped ==
    ASSUME NEW st \in Seq(Frames), st # <<>>
    PROVE  /\ Tail(st) \in Seq(Frames) /\ Len(Tail(st)) = Len(st) - 1 /\ Len(st) \in Nat \ {0}
           /\ \A k \in 1..Len(Tail(st)) : Tail(st)[k] = st[k + 1]
           /\ Head(st) = st[1] /\ st[1] \in Frames
BY HeadTailProperties, EmptySeq, ElementOfSeq

-----------------------------------------------------------------------------
(* What a step leaves alone.                                               *)

(* From ns to ms there may be new nodes in d.                              *)
Grows(ns, ms, d) ==
    /\ \A p \in DOMAIN ns : p \in DOMAIN ms /\ ms[p] = ns[p]
    /\ \A p \in DOMAIN ms : p \in DOMAIN ns \/ (p # <<>> /\ Front(p) = d)

LEMMA AddingGrows ==
    ASSUME NEW ns, NEW ms, NEW d, NEW name, NEW node, AddsChild(ns, d, name, node, ms)
    PROVE  Grows(ns, ms, d)
<1>1. Append(d, name) # <<>> /\ Front(Append(d, name)) = d  BY PathOfChild DEF AddsChild
<1>2. Extends(ns, ms, Append(d, name), node)  BY ChildAdded
<1> QED  BY <1>1, <1>2 DEF Extends, Grows

LEMMA FoldersKept ==
    ASSUME NEW ns, NEW ms, NEW d, Grows(ns, ms, d), NEW o, o # d, NEW x
    PROVE  Folders(ms, o, x) = Folders(ns, o, x) /\ Held(ns, o, x) \subseteq Held(ms, o, x)
<1>1. Folders(ms, o, x) \subseteq Folders(ns, o, x)  BY DEF Folders, Grows
<1>2. Folders(ns, o, x) \subseteq Folders(ms, o, x)  BY DEF Folders, Grows
<1>3. Held(ns, o, x) \subseteq Held(ms, o, x)  BY DEF Held, Grows
<1> QED  BY <1>1, <1>2, <1>3

LEMMA NamedKept ==
    ASSUME NEW ns, NEW ms, NEW o, NEW x, Named(ns, o, x),
           Folders(ms, o, x) = Folders(ns, o, x), Held(ns, o, x) \subseteq Held(ms, o, x)
    PROVE  Named(ms, o, x)
BY DEF Named

LEMMA ElsewhereKept ==
    ASSUME NEW t, NEW ns, NEW ms, NEW d, Grows(ns, ms, d), NEW o, o # d
    PROVE  /\ \A n : Mirrored(t, ns, o, n) => Mirrored(t, ms, o, n)
           /\ \A n : NothingElse(t, ns, o, n) => NothingElse(t, ms, o, n)
           /\ NoFolders(ns, o) => NoFolders(ms, o)
           /\ Empty(ns, o) => Empty(ms, o)
           /\ \A x : Folders(ms, o, x) = Folders(ns, o, x)
           /\ \A x : Named(ns, o, x) => Named(ms, o, x)
<1>1. \A p \in DOMAIN ms : p # <<>> /\ Front(p) = o => p \in DOMAIN ns /\ ms[p] = ns[p]
  BY DEF Grows
<1>2. \A p \in DOMAIN ns : p \in DOMAIN ms /\ ms[p] = ns[p]  BY DEF Grows
<1>3. /\ \A x : Folders(ms, o, x) = Folders(ns, o, x)
      /\ \A x : Named(ns, o, x) => Named(ms, o, x)
  BY FoldersKept, NamedKept
<1> QED  BY <1>1, <1>2, <1>3 DEF Mirrored, NothingElse, NoFolders, Empty

LEMMA FrameKept ==
    ASSUME NEW t, NEW ns, NEW ms, NEW d, Grows(ns, ms, d), NEW f, f.dir # d, FrameOK(t, ns, f)
    PROVE  FrameOK(t, ms, f)
<1> DEFINE o == f.dir
<1> HIDE DEF o
<1>1. /\ \A n : Mirrored(t, ns, o, n) => Mirrored(t, ms, o, n)
      /\ \A n : NothingElse(t, ns, o, n) => NothingElse(t, ms, o, n)
      /\ NoFolders(ns, o) => NoFolders(ms, o)
      /\ Empty(ns, o) => Empty(ms, o)
      /\ \A x : Folders(ms, o, x) = Folders(ns, o, x)
      /\ \A x : Named(ns, o, x) => Named(ms, o, x)
  BY ElsewhereKept DEF o
<1> QED  BY <1>1 DEF FrameOK, o

LEMMA DoneKept ==
    ASSUME NEW t, NEW ns, NEW ms, NEW d, Grows(ns, ms, d), NEW o, o # d, Done(t, ns, o)
    PROVE  Done(t, ms, o)
BY ElsewhereKept DEF Done

(* Calls are of different directories.                                     *)
LEMMA CallsDiffer ==
    ASSUME NEW t, NEW st, NEW ns, Inv(t, st, ns), NEW k \in 1..Len(st), k > 1
    PROVE  st[k].dir # st[1].dir
<1>1. Len(st) \in Nat /\ 1 \in 1..Len(st) /\ k \in Nat  BY LenProperties DEF Inv
<1>2. Len(st[k].dir) = Len(st) - k /\ Len(st[1].dir) = Len(st) - 1  BY <1>1 DEF Inv, Placed
<1> DEFINE l == Len(st)
<1>3. l \in Nat => l - k # l - 1  BY <1>1
<1> QED  BY <1>1, <1>2, <1>3

(* The call on top goes on.                                                *)
LEMMA TopReplaced ==
    ASSUME NEW t, NEW st, NEW ns, NEW ms, NEW f \in Frames, Inv(t, st, ns), st # <<>>,
           f.dir = st[1].dir, Grows(ns, ms, f.dir), \A o : IsDir(ms, o) => IsDir(ns, o),
           Rooted(ms), Filled(t, ms), FrameOK(t, ms, f)
    PROVE  Inv(t, <<f>> \o Tail(st), ms)
<1> DEFINE new == <<f>> \o Tail(st)
<1>1. /\ new \in Seq(Frames) /\ Len(new) = Len(st) /\ Len(st) \in Nat \ {0}
      /\ new[1] = f /\ \A k \in 2..Len(st) : new[k] = st[k]
  BY Replaced DEF Inv
<1> HIDE DEF new
<1>2. \A k \in 1..Len(st) : new[k].dir = st[k].dir  BY <1>1
<1>3. \A o : IsDir(ns, o) => IsDir(ms, o)  BY DEF IsDir, Grows
<1>4. \A k \in 1..Len(new) : Placed(t, new, ms, k)
  <2> TAKE k \in 1..Len(new)
  <2>1. Placed(t, st, ns, k)  BY <1>1 DEF Inv
  <2>2. k > 1 => k - 1 \in 1..Len(st)  BY <1>1
  <2> QED  BY <1>1, <1>2, <1>3, <2>1, <2>2 DEF Placed
<1>5. \A k \in 1..Len(new) : FrameOK(t, ms, new[k])
  <2> TAKE k \in 1..Len(new)
  <2>1. CASE k = 1  BY <1>1, <2>1
  <2>2. CASE k # 1
    <3>1. k > 1 /\ k \in 1..Len(st) /\ new[k] = st[k]  BY <1>1, <2>2
    <3>2. st[k].dir # f.dir  BY <3>1, CallsDiffer
    <3>3. FrameOK(t, ns, st[k])  BY <3>1 DEF Inv
    <3> QED  BY <3>1, <3>2, <3>3, FrameKept
  <2> QED  BY <2>1, <2>2
<1>6. \A o \in DOMAIN t : IsDir(ms, o) /\ ~OnStack(new, o) => Done(t, ms, o)
  <2> SUFFICES ASSUME NEW o \in DOMAIN t, IsDir(ms, o), ~OnStack(new, o) PROVE Done(t, ms, o)
    OBVIOUS
  <2>1. ~OnStack(st, o) /\ o # f.dir  BY <1>1, <1>2 DEF OnStack
  <2>2. Done(t, ns, o)  BY <2>1 DEF Inv
  <2> QED  BY <2>1, <2>2, DoneKept
<1>7. Inv(t, new, ms)  BY <1>1, <1>4, <1>5, <1>6 DEF Inv
<1> QED  BY <1>7 DEF new

(* The call on top returns.                                                *)
LEMMA TopReturns ==
    ASSUME NEW t, NEW st, NEW ns, Inv(t, st, ns), st # <<>>, Done(t, ns, st[1].dir)
    PROVE  Inv(t, Tail(st), ns)
<1> DEFINE r == Tail(st)
<1>1. /\ r \in Seq(Frames) /\ Len(r) = Len(st) - 1 /\ Len(st) \in Nat \ {0}
      /\ \A k \in 1..Len(r) : r[k] = st[k + 1]
  BY Popped DEF Inv
<1> HIDE DEF r
<1>2. \A k \in 1..Len(r) : Placed(t, r, ns, k) /\ FrameOK(t, ns, r[k])
  <2> TAKE k \in 1..Len(r)
  <2>1. k + 1 \in 1..Len(st) /\ (k > 1 => k - 1 \in 1..Len(r) /\ (k - 1) + 1 = k)  BY <1>1
  <2>2. Placed(t, st, ns, k + 1) /\ FrameOK(t, ns, st[k + 1])  BY <2>1 DEF Inv
  <2>3. k > 1 => r[k - 1] = st[(k + 1) - 1] /\ k + 1 > 1  BY <1>1, <2>1
  <2>4. Len(r[k].dir) = Len(r) - k
    <3>1. Len(st[k + 1].dir) = Len(st) - (k + 1)  BY <2>2 DEF Placed
    <3>2. Len(st) - (k + 1) = (Len(st) - 1) - k  BY <1>1
    <3>3. r[k] = st[k + 1] /\ Len(r) = Len(st) - 1  BY <1>1
    <3> QED  BY <3>1, <3>2, <3>3, Zenon
  <2> QED  BY <1>1, <2>2, <2>3, <2>4 DEF Placed
<1>3. \A o \in DOMAIN t : IsDir(ns, o) /\ ~OnStack(r, o) => Done(t, ns, o)
  <2> SUFFICES ASSUME NEW o \in DOMAIN t, IsDir(ns, o), ~OnStack(r, o), o # st[1].dir
               PROVE  Done(t, ns, o)
    OBVIOUS
  <2>1. ~OnStack(st, o)
    <3> SUFFICES ASSUME NEW k \in 1..Len(st), st[k].dir = o PROVE FALSE  BY DEF OnStack
    <3>1. k # 1  OBVIOUS
    <3>2. k - 1 \in 1..Len(r) /\ (k - 1) + 1 = k  BY <1>1, <3>1
    <3>3. r[k - 1] = st[k]  BY <1>1, <3>2
    <3> QED  BY <3>2, <3>3 DEF OnStack
  <2> QED  BY <2>1 DEF Inv
<1>4. Inv(t, r, ns)  BY <1>1, <1>2, <1>3 DEF Inv
<1> QED  BY <1>4 DEF r

-----------------------------------------------------------------------------
(* The entries of a directory.                                             *)

LEMMA EntriesTyped ==
    ASSUME NEW t, IsTree(t), NEW d \in DOMAIN t, t[d] # Unreadable
    PROVE  /\ d \in Paths /\ Len(t[d]) \in Nat /\ DOMAIN t[d] = 1..Len(t[d])
           /\ \A i \in 1..Len(t[d]) :
                 /\ t[d][i] \in SourceEntries /\ t[d][i].name \in Names
                 /\ t[d][i].type \in {"dir", "regular", "other"} /\ t[d][i].artist \in Nat
                 /\ t[d][i].type = "dir" => Child(t, d, i) \in DOMAIN t
                 /\ t[d][i].format # "none" =>
                       Stem[t[d][i].name] \in Names /\ Fallback[t[d][i].name] \in Names
           /\ \A i, j \in 1..Len(t[d]) : i # j => t[d][i].name # t[d][j].name
<1>1. /\ t[d] \in Seq(SourceEntries) /\ d \in Seq(STRING)
      /\ \A i, j \in DOMAIN t[d] : i # j => t[d][i].name # t[d][j].name
      /\ \A i \in DOMAIN t[d] :
            /\ t[d][i].type = "dir" => Append(d, t[d][i].name) \in DOMAIN t
            /\ t[d][i].format # "none" =>
                  Stem[t[d][i].name] \in STRING /\ Fallback[t[d][i].name] \in STRING
  BY DEF IsTree
<1>2. DOMAIN t[d] = 1..Len(t[d]) /\ Len(t[d]) \in Nat
      /\ \A i \in 1..Len(t[d]) : t[d][i] \in SourceEntries
  BY <1>1, LenProperties, ElementOfSeq
<1>3. \A e \in SourceEntries :
         e.name \in STRING /\ e.type \in {"dir", "regular", "other"} /\ e.artist \in Nat
  BY DEF SourceEntries
<1> QED  BY <1>1, <1>2, <1>3 DEF Paths, Names, Child

LEMMA FrameTyped ==
    ASSUME NEW f \in Frames
    PROVE  /\ f.dir \in Paths /\ f.pc \in {"read", "entries", "chips"} /\ f.next \in Nat \ {0}
           /\ f.pending \in Seq(SourceEntries) /\ f.artists \in Seq(Nat)
BY DEF Frames

(* The next entry e of a directory has been dealt with.                    *)
AddsPending(f, g, e) ==
    \/ ~IsChip(e) /\ g.pending = f.pending
    \/ IsChip(e) /\ g.pending = Append(f.pending, e)

LEMMA PendingAdded ==
    ASSUME NEW t, IsTree(t), NEW f \in Frames, NEW g \in Frames, f.dir \in DOMAIN t,
           t[f.dir] # Unreadable, f.next <= Len(t[f.dir]), g.dir = f.dir, g.next = f.next + 1,
           PendingRead(t, f), AddsPending(f, g, t[f.dir][f.next])
    PROVE  /\ PendingRead(t, g)
           /\ \A x : IsPending(f, x) => IsPending(g, x)
           /\ IsChip(t[f.dir][f.next]) => IsPending(g, t[f.dir][f.next])
<1> DEFINE d == f.dir
           n == f.next
           e == t[d][n]
           s == f.pending
           l == Len(s)
<1>1. /\ Len(t[d]) \in Nat /\ \A i, j \in 1..Len(t[d]) : i # j => t[d][i].name # t[d][j].name
  BY EntriesTyped
<1>2. n \in 1..Len(t[d]) /\ n \in Nat  BY <1>1, FrameTyped
<1>3. s \in Seq(SourceEntries) /\ l \in Nat  BY FrameTyped, LenProperties
<1>4. /\ \A j \in 1..l : \E i \in 1..Len(t[d]) : i < n /\ IsChip(t[d][i]) /\ s[j] = t[d][i]
      /\ \A j, k \in 1..l : j # k => s[j] # s[k]
  BY DEF PendingRead
<1>5. CASE ~IsChip(e) /\ g.pending = s
  <2>1. \A i \in 1..Len(t[d]) : i < n => i < n + 1  BY <1>2
  <2> QED  BY <1>4, <1>5, <2>1 DEF PendingRead, IsPending
<1>6. CASE IsChip(e) /\ g.pending = Append(s, e)
  <2> DEFINE r == g.pending
  <2>1. e \in SourceEntries  BY <1>2, EntriesTyped
  <2>2. Len(r) = l + 1 /\ r[l + 1] = e /\ \A j \in 1..l : r[j] = s[j]
    BY <1>3, <1>6, <2>1, AppendProperties
  <2>3. \A j \in 1..Len(r) : j \in 1..l \/ j = l + 1  BY <1>3, <2>2
  <2>4. \A j \in 1..l : j \in 1..Len(r)  BY <1>3, <2>2
  <2>5. l + 1 \in 1..Len(r)  BY <1>3, <2>2
  <2>6. \A j \in 1..l : s[j] # e
    <3> TAKE j \in 1..l
    <3> PICK i \in 1..Len(t[d]) : i < n /\ s[j] = t[d][i]  BY <1>4
    <3>1. i # n  BY <1>2
    <3> QED  BY <1>1, <1>2, <3>1
  <2> HIDE DEF r, s, l, d, n, e
  <2>7. \A j \in 1..Len(r) : \E i \in 1..Len(t[d]) : i < n + 1 /\ IsChip(t[d][i]) /\ r[j] = t[d][i]
    <3> TAKE j \in 1..Len(r)
    <3>1. CASE j = l + 1
      <4>1. n < n + 1  BY <1>2
      <4> QED  BY <1>2, <1>6, <2>2, <3>1, <4>1 DEF e
    <3>2. CASE j \in 1..l
      <4>1. \A i \in 1..Len(t[d]) : i < n => i < n + 1  BY <1>2
      <4> QED  BY <1>4, <2>2, <3>2, <4>1
    <3> QED  BY <2>3, <3>1, <3>2
  <2>8. \A j, k \in 1..Len(r) : j # k => r[j] # r[k]  BY <1>4, <2>2, <2>3, <2>6
  <2>9. PendingRead(t, g)  BY <2>7, <2>8 DEF PendingRead, r, d, n
  <2>10. \A x : IsPending(f, x) => IsPending(g, x)
    BY <2>2, <2>4 DEF IsPending, r, s, l
  <2>11. IsPending(g, e)  BY <2>2, <2>5 DEF IsPending, r
  <2> QED  BY <2>9, <2>10, <2>11 DEF e, d, n
<1> QED  BY <1>5, <1>6 DEF AddsPending

LEMMA EntryPassed ==
    ASSUME NEW t, IsTree(t), NEW ms, NEW f \in Frames, NEW g \in Frames, f.dir \in DOMAIN t,
           f.pc = "entries", NEW ns, FrameOK(t, ns, f), f.next <= Len(t[f.dir]),
           g.dir = f.dir, g.pc = "entries", g.next = f.next + 1,
           AddsPending(f, g, t[f.dir][f.next]),
           Mirrored(t, ms, f.dir, f.next + 1), NothingElse(t, ms, f.dir, f.next + 1),
           NoFolders(ms, f.dir)
    PROVE  FrameOK(t, ms, g)
<1> DEFINE d == f.dir
           n == f.next
<1>1. /\ t[d] # Unreadable /\ PendingRead(t, f)
      /\ \A i \in 1..Len(t[d]) : i < n /\ IsChip(t[d][i]) => IsPending(f, t[d][i])
  BY DEF FrameOK
<1>2. n \in Nat /\ Len(t[d]) \in Nat  BY <1>1, FrameTyped, EntriesTyped
<1>3. /\ PendingRead(t, g)
      /\ \A x : IsPending(f, x) => IsPending(g, x)
      /\ IsChip(t[d][n]) => IsPending(g, t[d][n])
  BY <1>1, PendingAdded
<1> HIDE DEF d, n
<1>4. \A i \in 1..Len(t[d]) : i < n + 1 => i < n \/ i = n  BY <1>2
<1>5. \A i \in 1..Len(t[d]) : i < n + 1 /\ IsChip(t[d][i]) => IsPending(g, t[d][i])
  BY <1>1, <1>3, <1>4
<1>6. n + 1 <= Len(t[d]) + 1  BY <1>2 DEF d, n
<1> QED  BY <1>1, <1>3, <1>5, <1>6 DEF FrameOK, d, n

LEMMA OtherPassed ==
    ASSUME NEW t, NEW ns, NEW d, NEW n \in Nat, t[d][n].type = "other", Len(t[d]) \in Nat,
           Mirrored(t, ns, d, n), NothingElse(t, ns, d, n)
    PROVE  Mirrored(t, ns, d, n + 1) /\ NothingElse(t, ns, d, n + 1)
<1>1. \A i \in 1..Len(t[d]) : (i < n + 1 => i < n \/ i = n) /\ (i < n => i < n + 1)  OBVIOUS
<1> QED  BY <1>1 DEF Mirrored, NothingElse

-----------------------------------------------------------------------------
(* The chiptunes of a directory.                                           *)

LEMMA EntriesEnd ==
    ASSUME NEW t, IsTree(t), NEW ns, NEW f \in Frames, NEW g, f.dir \in DOMAIN t,
           f.pc = "entries", FrameOK(t, ns, f), f.next > Len(t[f.dir]),
           g.dir = f.dir, g.pc = "chips", g.next = f.next, g.pending = f.pending
    PROVE  FrameOK(t, ns, g)
<1> DEFINE d == f.dir
<1>1. /\ t[d] # Unreadable /\ PendingRead(t, f) /\ NoFolders(ns, d)
      /\ f.next <= Len(t[d]) + 1
      /\ Mirrored(t, ns, d, f.next) /\ NothingElse(t, ns, d, f.next)
      /\ \A i \in 1..Len(t[d]) : i < f.next /\ IsChip(t[d][i]) => IsPending(f, t[d][i])
  BY DEF FrameOK
<1>2. f.next \in Nat /\ Len(t[d]) \in Nat  BY <1>1, FrameTyped, EntriesTyped
<1>3. f.next = Len(t[d]) + 1 /\ \A i \in 1..Len(t[d]) : i < f.next  BY <1>1, <1>2
<1>4. PendingRead(t, g)
  <2>1. PendingRead(t, f) /\ g.dir = f.dir /\ g.next = f.next /\ g.pending = f.pending  BY <1>1
  <2> QED  BY ONLY <2>1 DEF PendingRead
<1>5. \A i \in 1..Len(t[d]) : IsChip(t[d][i]) => IsPending(g, t[d][i])
  BY <1>1, <1>3 DEF IsPending
<1>6. \A x : Folders(ns, d, x) = {}  BY <1>1 DEF Folders, NoFolders
<1> HIDE DEF d
<1> QED  BY <1>1, <1>3, <1>4, <1>5, <1>6 DEF FrameOK, d

(* The folder of x is added to d under a name that addChipDir picks.       *)
FolderOf(ns, d, x, name, node) ==
    /\ node.kind = "ChipDir" /\ node.of = x
    /\ name = IF Stem[x] # NoName /\ Append(d, Stem[x]) \notin DOMAIN ns
              THEN Stem[x] ELSE Fallback[x]

LEMMA FolderNamed ==
    ASSUME NEW ns, NEW ms, NEW d, NEW x, NEW name, NEW node, AddsChild(ns, d, name, node, ms),
           FolderOf(ns, d, x, name, node), Folders(ns, d, x) = {}
    PROVE  Named(ms, d, x)
<1> DEFINE c == Append(d, name)
<1>1. c # <<>> /\ Front(c) = d  BY PathOfChild DEF AddsChild
<1>2. Extends(ns, ms, c, node)  BY ChildAdded
<1> HIDE DEF c
<1>3. CASE c \in DOMAIN ns
  <2>1. Folders(ms, d, x) = {}  BY <1>2, <1>3 DEF Folders, Extends
  <2>2. name = Fallback[x] /\ (Stem[x] = NoName \/ Append(d, Stem[x]) \in DOMAIN ns)
    BY <1>3 DEF FolderOf, c
  <2>3. Append(d, Fallback[x]) \in DOMAIN ms
        /\ (Stem[x] = NoName \/ Append(d, Stem[x]) \in DOMAIN ms)
    BY <1>2, <1>3, <2>2 DEF Extends, c
  <2> QED  BY <2>1, <2>3 DEF Named, Held
<1>4. CASE c \notin DOMAIN ns
  <2>1. c \in DOMAIN ms /\ ms[c] = node  BY <1>2, <1>4 DEF Extends
  <2>2. Folders(ms, d, x) = {c}  BY <1>1, <1>2, <2>1 DEF Folders, Extends, FolderOf
  <2>3. CASE name = Stem[x]  BY <2>2, <2>3 DEF Named, c
  <2>4. CASE name # Stem[x]
    <3>1. name = Fallback[x] /\ (Stem[x] = NoName \/ Append(d, Stem[x]) \in DOMAIN ns)
      BY <2>4 DEF FolderOf
    <3>2. Stem[x] = NoName \/ Append(d, Stem[x]) \in DOMAIN ms  BY <1>2, <3>1 DEF Extends
    <3>3. Stem[x] \in Held(ms, d, x) \cup {NoName}  BY <3>2 DEF Held
    <3> QED  BY <2>2, <3>1, <3>3 DEF Named, c
  <2> QED  BY <2>3, <2>4
<1> QED  BY <1>3, <1>4

LEMMA OtherFolders ==
    ASSUME NEW ns, NEW ms, NEW d, NEW x, NEW name, NEW node, AddsChild(ns, d, name, node, ms),
           FolderOf(ns, d, x, name, node), NEW y, y # x
    PROVE  Folders(ms, d, y) = Folders(ns, d, y) /\ (Named(ns, d, y) => Named(ms, d, y))
<1>1. Extends(ns, ms, Append(d, name), node)  BY ChildAdded
<1>2. Folders(ms, d, y) = Folders(ns, d, y)
  <2>1. Folders(ms, d, y) \subseteq Folders(ns, d, y)  BY <1>1 DEF Folders, Extends, FolderOf
  <2>2. Folders(ns, d, y) \subseteq Folders(ms, d, y)  BY <1>1 DEF Folders, Extends
  <2> QED  BY <2>1, <2>2
<1>3. Held(ns, d, y) \subseteq Held(ms, d, y)  BY <1>1 DEF Held, Extends
<1> QED  BY <1>2, <1>3, NamedKept

LEMMA HeadRemoved ==
    ASSUME NEW s \in Seq(SourceEntries), s # <<>>
    PROVE  /\ Len(s) \in Nat \ {0} /\ Len(Tail(s)) = Len(s) - 1 /\ Head(s) = s[1]
           /\ Tail(s) \in Seq(SourceEntries)
           /\ \A j \in 1..Len(Tail(s)) : j + 1 \in 1..Len(s) /\ Tail(s)[j] = s[j + 1]
           /\ \A j \in 1..Len(s) : j = 1 \/ (j - 1 \in 1..Len(Tail(s)) /\ Tail(s)[j - 1] = s[j])
<1>1. /\ Len(s) \in Nat \ {0} /\ Len(Tail(s)) = Len(s) - 1 /\ Head(s) = s[1]
      /\ Tail(s) \in Seq(SourceEntries)
      /\ \A j \in 1..Len(Tail(s)) : Tail(s)[j] = s[j + 1]
  BY HeadTailProperties, EmptySeq
<1>2. \A j \in 1..Len(Tail(s)) : j + 1 \in 1..Len(s)  BY <1>1
<1>3. \A j \in 1..Len(s) : j = 1 \/ (j - 1 \in 1..Len(Tail(s)) /\ (j - 1) + 1 = j)  BY <1>1
<1> QED  BY <1>1, <1>2, <1>3

LEMMA PendingRemoved ==
    ASSUME NEW t, NEW f \in Frames, NEW g, f.pending # <<>>, g.dir = f.dir, g.next = f.next,
           g.pending = Tail(f.pending), PendingRead(t, f)
    PROVE  /\ PendingRead(t, g)
           /\ IsPending(f, Head(f.pending)) /\ ~IsPending(g, Head(f.pending))
           /\ \A x : IsPending(g, x) <=> IsPending(f, x) /\ x # Head(f.pending)
<1> DEFINE s == f.pending
           r == Tail(s)
<1>1. /\ Len(s) \in Nat \ {0} /\ Len(r) = Len(s) - 1 /\ Head(s) = s[1]
      /\ \A j \in 1..Len(r) : j + 1 \in 1..Len(s) /\ r[j] = s[j + 1]
      /\ \A j \in 1..Len(s) : j = 1 \/ (j - 1 \in 1..Len(r) /\ r[j - 1] = s[j])
  BY HeadRemoved, FrameTyped
<1>2. \A j, k \in 1..Len(s) : j # k => s[j] # s[k]  BY DEF PendingRead
<1> HIDE DEF r, s
<1>3. 1 \in 1..Len(s) /\ \A j \in 1..Len(r) : j + 1 # 1 /\ j \in Nat  BY <1>1
<1>4. \A j \in 1..Len(r) : r[j] # s[1]  BY <1>1, <1>2, <1>3
<1>5. \A j, k \in 1..Len(r) : j # k => r[j] # r[k]
  <2> TAKE j, k \in 1..Len(r)
  <2>1. j # k => j + 1 # k + 1  BY <1>3
  <2> QED  BY <1>1, <1>2, <2>1
<1>6. PendingRead(t, g)
  BY <1>1, <1>5 DEF PendingRead, r, s
<1>7. \A x : IsPending(g, x) <=> IsPending(f, x) /\ x # s[1]
  <2>1. \A x : IsPending(g, x) <=> \E j \in 1..Len(r) : r[j] = x  BY DEF IsPending, r, s
  <2>2. \A x : IsPending(f, x) <=> \E j \in 1..Len(s) : s[j] = x  BY DEF IsPending, s
  <2> QED  BY <1>1, <1>4, <2>1, <2>2
<1>8. IsPending(f, s[1])  BY <1>3 DEF IsPending, s
<1> QED  BY <1>1, <1>6, <1>7, <1>8 DEF s

LEMMA FolderPlaced ==
    ASSUME NEW t, IsTree(t), NEW ns, NEW ms, NEW f \in Frames, NEW g, f.dir \in DOMAIN t,
           f.pc = "chips", FrameOK(t, ns, f), f.pending # <<>>,
           g.dir = f.dir, g.pc = "chips", g.next = f.next, g.pending = Tail(f.pending),
           NEW name, NEW node, AddsChild(ns, f.dir, name, node, ms),
           FolderOf(ns, f.dir, Head(f.pending).name, name, node)
    PROVE  FrameOK(t, ms, g)
<1> DEFINE d == f.dir
           e == Head(f.pending)
<1>1. /\ t[d] # Unreadable /\ PendingRead(t, f)
      /\ Mirrored(t, ns, d, f.next) /\ NothingElse(t, ns, d, f.next)
      /\ f.next = Len(t[d]) + 1 /\ f.next <= Len(t[d]) + 1
      /\ \A i \in 1..Len(t[d]) : IsChip(t[d][i]) =>
            IF IsPending(f, t[d][i]) THEN Folders(ns, d, t[d][i].name) = {}
                                     ELSE Named(ns, d, t[d][i].name)
  BY DEF FrameOK
<1>2. /\ PendingRead(t, g) /\ IsPending(f, e) /\ ~IsPending(g, e)
      /\ \A x : IsPending(g, x) <=> IsPending(f, x) /\ x # e
  BY <1>1, PendingRemoved
<1>3. \A i, j \in 1..Len(t[d]) : i # j => t[d][i].name # t[d][j].name  BY <1>1, EntriesTyped
<1>4. PICK m \in 1..Len(t[d]) : IsChip(t[d][m]) /\ e = t[d][m]
  BY <1>1, <1>2 DEF PendingRead, IsPending
<1> HIDE DEF d, e
<1>5. Mirrored(t, ms, d, f.next) /\ NothingElse(t, ms, d, f.next)
  BY <1>1, FolderAdded DEF d, FolderOf
<1>6. \A i \in 1..Len(t[d]) : IsChip(t[d][i]) =>
         IF IsPending(g, t[d][i]) THEN Folders(ms, d, t[d][i].name) = {}
                                  ELSE Named(ms, d, t[d][i].name)
  <2> TAKE i \in 1..Len(t[d])
  <2> HAVE IsChip(t[d][i])
  <2>1. CASE i = m
    <3>1. Folders(ns, d, e.name) = {}  BY <1>1, <1>2, <1>4
    <3>2. Named(ms, d, e.name)  BY <3>1, FolderNamed DEF d, e
    <3> QED  BY <1>2, <1>4, <2>1, <3>2
  <2>2. CASE i # m
    <3>1. t[d][i].name # e.name  BY <1>3, <1>4, <2>2
    <3>2. /\ Folders(ms, d, t[d][i].name) = Folders(ns, d, t[d][i].name)
          /\ Named(ns, d, t[d][i].name) => Named(ms, d, t[d][i].name)
      BY <3>1, OtherFolders DEF d, e
    <3>3. IsPending(g, t[d][i]) <=> IsPending(f, t[d][i])  BY <1>2, <3>1
    <3> QED  BY <1>1, <3>2, <3>3
  <2> QED  BY <2>1, <2>2
<1> QED  BY <1>1, <1>2, <1>5, <1>6 DEF FrameOK, d

(* Folders have the tracks of their chiptunes.                             *)
LEMMA FilledKept ==
    ASSUME NEW t, NEW ns, NEW ms, NEW c, NEW node, Filled(t, ns), Extends(ns, ms, c, node),
           node.kind # "ChipDir"
    PROVE  Filled(t, ms)
<1>1. \A p \in DOMAIN ms : ms[p].kind = "ChipDir" => p \in DOMAIN ns /\ ms[p] = ns[p]
  BY DEF Extends
<1> QED  BY <1>1 DEF Filled

LEMMA FilledAdded ==
    ASSUME NEW t, NEW ns, NEW ms, NEW c, NEW node, Filled(t, ns), Extends(ns, ms, c, node),
           HasTracks(t, Front(c), node)
    PROVE  Filled(t, ms)
<1>1. \A p \in DOMAIN ms : (p \in DOMAIN ns /\ ms[p] = ns[p]) \/ (p = c /\ ms[p] = node)
  BY DEF Extends
<1> QED  BY <1>1 DEF Filled

-----------------------------------------------------------------------------
(* A subdirectory is entered.                                              *)

LEMMA CallTyped ==
    ASSUME NEW c \in Paths
    PROVE  /\ Call(c) \in Frames /\ Call(c).dir = c /\ Call(c).pc = "read"
           /\ Call(c).next = 1 /\ Call(c).pending = <<>>
BY EmptySeq DEF Call, Frames

LEMMA TopPushed ==
    ASSUME NEW t, NEW st, NEW ns, NEW ms, NEW f \in Frames, Inv(t, st, ns), st # <<>>,
           f.dir = st[1].dir, NEW name, NEW node, AddsChild(ns, f.dir, name, node, ms),
           Append(f.dir, name) \in DOMAIN t, Append(f.dir, name) \notin DOMAIN ns,
           node.kind = "SourceDir", Filled(t, ms), FrameOK(t, ms, f)
    PROVE  Inv(t, <<Call(Append(f.dir, name)), f>> \o Tail(st), ms)
<1> DEFINE c == Append(f.dir, name)
           new == <<Call(c), f>> \o Tail(st)
<1>1. /\ c \in Paths /\ c # <<>> /\ Front(c) = f.dir /\ Len(c) = Len(f.dir) + 1
  BY PathOfChild DEF AddsChild
<1>2. /\ Call(c) \in Frames /\ Call(c).dir = c /\ Call(c).pc = "read"
      /\ Call(c).next = 1 /\ Call(c).pending = <<>>
  BY <1>1, CallTyped
<1>3. Extends(ns, ms, c, node) /\ Rooted(ms)  BY ChildAdded
<1>4. Grows(ns, ms, f.dir)  BY AddingGrows
<1> HIDE DEF c
<1>5. /\ new \in Seq(Frames) /\ Len(new) = Len(st) + 1 /\ Len(st) \in Nat \ {0}
      /\ new[1] = Call(c) /\ new[2] = f /\ \A k \in 3..Len(new) : new[k] = st[k - 1]
  BY <1>2, Pushed DEF Inv
<1> HIDE DEF new
<1>6. new[1].dir = c /\ \A k \in 2..Len(new) : k - 1 \in 1..Len(st) /\ new[k].dir = st[k - 1].dir
  <2>1. \A k \in 2..Len(new) : k - 1 \in 1..Len(st) /\ (k = 2 \/ k \in 3..Len(new))  BY <1>5
  <2>2. 2 - 1 = 1  OBVIOUS
  <2> QED  BY <1>2, <1>5, <2>1, <2>2
<1>7. \A o : IsDir(ns, o) => IsDir(ms, o)  BY <1>4 DEF IsDir, Grows
<1>8. IsDir(ms, c) /\ \A o : IsDir(ms, o) => IsDir(ns, o) \/ o = c
  <2>1. ms[c] = node  BY <1>3 DEF Extends, c
  <2> QED  BY <1>3, <2>1 DEF IsDir, Extends
<1>9. Placed(t, st, ns, 1) /\ Len(f.dir) = Len(st) - 1
  <2>1. 1 \in 1..Len(st)  BY <1>5
  <2>2. Placed(t, st, ns, 1)  BY <2>1 DEF Inv
  <2> QED  BY <2>2 DEF Placed
<1>10. \A k \in 1..Len(new) : Placed(t, new, ms, k)
  <2>1. Placed(t, new, ms, 1)
    <3>1. Len(c) = Len(new) - 1  BY <1>1, <1>5, <1>9 DEF c
    <3> QED  BY <1>6, <1>8, <3>1 DEF Placed, c
  <2>2. ASSUME NEW k \in 2..Len(new) PROVE Placed(t, new, ms, k)
    <3>1. k - 1 \in 1..Len(st) /\ new[k].dir = st[k - 1].dir  BY <1>6
    <3>2. Placed(t, st, ns, k - 1)  BY <3>1 DEF Inv
    <3>3. new[k].dir \in DOMAIN t /\ IsDir(ms, new[k].dir)  BY <1>7, <3>1, <3>2 DEF Placed
    <3>4. Len(new[k].dir) = Len(new) - k
      <4>1. Len(st[k - 1].dir) = Len(st) - (k - 1)  BY <3>2 DEF Placed
      <4>2. Len(st) - (k - 1) = Len(new) - k  BY <1>5
      <4> QED  BY <3>1, <4>1, <4>2, Zenon
    <3>5. new[k].dir = Front(new[k - 1].dir)
      <4>1. CASE k = 2
        <5>1. k - 1 = 1  BY <4>1
        <5> QED  BY <1>1, <1>5, <1>6, <4>1, <5>1 DEF c
      <4>2. CASE k # 2
        <5>1. k - 1 > 1 /\ k - 1 \in 2..Len(new)  BY <1>5, <4>2
        <5>2. st[k - 1].dir = Front(st[(k - 1) - 1].dir)  BY <3>2, <5>1 DEF Placed
        <5>3. new[k - 1].dir = st[(k - 1) - 1].dir  BY <1>6, <5>1
        <5> QED  BY <3>1, <5>2, <5>3
      <4> QED  BY <4>1, <4>2
    <3> QED  BY <3>3, <3>4, <3>5 DEF Placed
  <2>3. \A k \in 1..Len(new) : k = 1 \/ k \in 2..Len(new)  BY <1>5
  <2> QED  BY <2>1, <2>2, <2>3
<1>11. \A k \in 1..Len(new) : FrameOK(t, ms, new[k])
  <2>1. FrameOK(t, ms, Call(c))
    <3>1. Empty(ns, c)
      <4>1. Rooted(ns) /\ c \notin DOMAIN ns  BY DEF Inv, c
      <4> QED  BY <4>1 DEF Empty, Rooted
    <3>2. Empty(ms, c)
      <4>1. c # f.dir
        <5>1. Len(f.dir) \in Nat  BY FrameTyped, LenProperties DEF Paths
        <5> QED  BY <1>1, <5>1
      <4> QED  BY <1>4, <3>1, <4>1, ElsewhereKept
    <3> QED  BY <1>2, <3>2 DEF FrameOK
  <2>2. ASSUME NEW k \in 3..Len(new) PROVE FrameOK(t, ms, new[k])
    <3>1. k - 1 \in 1..Len(st) /\ k - 1 > 1 /\ new[k] = st[k - 1]  BY <1>5
    <3>2. st[k - 1].dir # f.dir  BY <3>1, CallsDiffer
    <3>3. FrameOK(t, ns, st[k - 1])  BY <3>1 DEF Inv
    <3> QED  BY <1>4, <3>1, <3>2, <3>3, FrameKept
  <2>3. \A k \in 1..Len(new) : k = 1 \/ k = 2 \/ k \in 3..Len(new)  BY <1>5
  <2> QED  BY <1>5, <2>1, <2>2, <2>3
<1>12. \A o \in DOMAIN t : IsDir(ms, o) /\ ~OnStack(new, o) => Done(t, ms, o)
  <2> SUFFICES ASSUME NEW o \in DOMAIN t, IsDir(ms, o), ~OnStack(new, o) PROVE Done(t, ms, o)
    OBVIOUS
  <2>1. 1 \in 1..Len(new) /\ 2 \in 1..Len(new)  BY <1>5
  <2>2. o # c /\ o # f.dir  BY <1>5, <1>6, <2>1 DEF OnStack
  <2>3. ~OnStack(st, o)
    <3> SUFFICES ASSUME NEW k \in 1..Len(st), st[k].dir = o PROVE FALSE  BY DEF OnStack
    <3>1. k + 1 \in 2..Len(new) /\ (k + 1) - 1 = k /\ k + 1 \in 1..Len(new)  BY <1>5
    <3>2. new[k + 1].dir = o  BY <1>6, <3>1
    <3> QED  BY <3>1, <3>2 DEF OnStack
  <2>4. IsDir(ns, o)  BY <1>8, <2>2
  <2>5. Done(t, ns, o)  BY <2>3, <2>4 DEF Inv
  <2> QED  BY <1>4, <2>2, <2>5, DoneKept
<1>13. Inv(t, new, ms)  BY <1>3, <1>5, <1>10, <1>11, <1>12 DEF Inv
<1> QED  BY <1>13 DEF new, c

-----------------------------------------------------------------------------
(* The steps.                                                              *)

LEMMA TopFacts ==
    ASSUME IInv, stack # <<>>
    PROVE  /\ Top = stack[1] /\ Top \in Frames /\ Top.dir \in Paths
           /\ IsTree(source) /\ Top.dir \in DOMAIN source
           /\ IsDir(nodes, Top.dir) /\ Rooted(nodes) /\ Filled(source, nodes)
           /\ FrameOK(source, nodes, Top)
<1>1. stack \in Seq(Frames) /\ Rooted(nodes) /\ Filled(source, nodes)  BY DEF IInv, Inv
<1>2. Top = stack[1] /\ Top \in Frames /\ 1 \in 1..Len(stack)
  <2>1. Len(stack) \in Nat \ {0} /\ Head(stack) = stack[1] /\ stack[1] \in Frames
    BY <1>1, Popped
  <2> QED  BY <2>1 DEF Top
<1>3. Placed(source, stack, nodes, 1) /\ FrameOK(source, nodes, stack[1])
  BY <1>2 DEF IInv, Inv
<1>4. IsTree(source)  BY TreesAssumption DEF IInv
<1> QED  BY <1>1, <1>2, <1>3, <1>4, FrameTyped DEF Placed

LEMMA CallGoesOn ==
    ASSUME IInv, stack # <<>>, UNCHANGED source, NEW f \in Frames, f.dir = Top.dir, Becomes(f),
           Grows(nodes, nodes', Top.dir), \A o : IsDir(nodes', o) => IsDir(nodes, o),
           Rooted(nodes'), Filled(source, nodes'), FrameOK(source, nodes', f)
    PROVE  IInv'
<1>1. Top = stack[1]  BY TopFacts
<1>2. Inv(source, stack, nodes)  BY DEF IInv
<1>3. Inv(source, <<f>> \o Tail(stack), nodes')
  <2>1. f.dir = stack[1].dir /\ Grows(nodes, nodes', f.dir)  BY <1>1
  <2> QED  BY <1>2, <2>1, TopReplaced
<1> QED  BY <1>3 DEF IInv, Becomes

LEMMA NodesKept ==
    ASSUME NEW d
    PROVE  Grows(nodes, nodes, d)
BY DEF Grows

LEMMA ReadDirKeeps ==
    ASSUME IInv, ReadDir
    PROVE  IInv'
<1>1. /\ stack # <<>> /\ Top.pc = "read" /\ UNCHANGED <<source, nodes>>
  BY DEF ReadDir, Running
<1>2. /\ Top = stack[1] /\ Top \in Frames /\ IsTree(source) /\ Top.dir \in DOMAIN source
      /\ Rooted(nodes) /\ Filled(source, nodes) /\ FrameOK(source, nodes, Top)
  BY <1>1, TopFacts
<1>3. CASE Entries = Unreadable
  <2>1. stack' = Tail(stack)  BY <1>3 DEF ReadDir
  <2>2. Done(source, nodes, stack[1].dir)  BY <1>2, <1>3 DEF Done, Entries
  <2>3. Inv(source, Tail(stack), nodes)  BY <1>1, <2>2, TopReturns DEF IInv
  <2> QED  BY <1>1, <2>1, <2>3 DEF IInv
<1>4. CASE Entries # Unreadable
  <2> DEFINE f == [Top EXCEPT !.pc = "entries"]
             d == Top.dir
  <2>1. Becomes(f)  BY <1>4 DEF ReadDir
  <2>2. /\ f \in Frames /\ f.dir = d /\ f.pc = "entries"
        /\ f.next = Top.next /\ f.pending = Top.pending
    BY <1>2 DEF Frames
  <2>3. Empty(nodes, d) /\ f.next = 1 /\ f.pending = <<>>  BY <1>1, <1>2, <2>2 DEF FrameOK
  <2>4. source[d] # Unreadable /\ Len(source[d]) \in Nat
    BY <1>2, <1>4, EntriesTyped DEF Entries
  <2> HIDE DEF f, d
  <2>5. FrameOK(source, nodes, f)
    <3>1. Mirrored(source, nodes, d, 1)  BY <2>4 DEF Mirrored
    <3>2. NothingElse(source, nodes, d, 1) /\ NoFolders(nodes, d)
      BY <2>3 DEF NothingElse, NoFolders, Empty
    <3>3. PendingRead(source, f)
      <4>1. Len(f.pending) = 0  BY <2>3, EmptySeq
      <4> QED  BY <4>1 DEF PendingRead
    <3>4. \A i \in 1..Len(source[d]) : ~(i < 1)  BY <2>4
    <3>5. 1 <= Len(source[d]) + 1  BY <2>4
    <3> QED  BY <2>2, <2>3, <2>4, <3>1, <3>2, <3>3, <3>4, <3>5 DEF FrameOK
  <2>6. f.dir = Top.dir  BY <2>2 DEF d
  <2>7. /\ UNCHANGED source /\ nodes' = nodes  BY <1>1
  <2>8. Grows(nodes, nodes', Top.dir)  BY <2>7, NodesKept
  <2> QED  BY <1>1, <1>2, <2>1, <2>2, <2>5, <2>6, <2>7, <2>8, CallGoesOn
<1> QED  BY <1>3, <1>4

LEMMA ReturnKeeps ==
    ASSUME IInv, Return
    PROVE  IInv'
<1> DEFINE d == Top.dir
<1>1. /\ stack # <<>> /\ Top.pc = "chips" /\ Top.pending = <<>>
      /\ stack' = Tail(stack) /\ UNCHANGED <<source, nodes>>
  BY DEF Return, Running
<1>2. Top = stack[1] /\ FrameOK(source, nodes, Top)  BY <1>1, TopFacts
<1>3. \A x : ~IsPending(Top, x)
  <2>1. Len(Top.pending) = 0  BY <1>1, EmptySeq
  <2> QED  BY <2>1 DEF IsPending
<1>4. Done(source, nodes, d)
  <2>1. /\ Mirrored(source, nodes, d, Len(source[d]) + 1)
        /\ NothingElse(source, nodes, d, Len(source[d]) + 1)
        /\ \A i \in 1..Len(source[d]) :
              IsChip(source[d][i]) => Named(nodes, d, source[d][i].name)
    BY <1>1, <1>2, <1>3 DEF FrameOK
  <2> QED  BY <2>1 DEF Done
<1>5. Inv(source, Tail(stack), nodes)  BY <1>1, <1>2, <1>4, TopReturns DEF IInv
<1> QED  BY <1>1, <1>5 DEF IInv

(* What the three steps for an entry start from.                           *)
LEMMA EntryFacts ==
    ASSUME IInv, NEW type, Entry(type)
    PROVE  LET d == Top.dir
               n == Top.next
           IN  /\ stack # <<>> /\ Top.pc = "entries" /\ source[d] # Unreadable
               /\ n \in 1..Len(source[d]) /\ n \in Nat /\ Len(source[d]) \in Nat
               /\ source[d][n].type = type /\ source[d][n] \in SourceEntries
               /\ source[d][n].name \in Names
               /\ Mirrored(source, nodes, d, n) /\ NothingElse(source, nodes, d, n)
               /\ NoFolders(nodes, d)
<1> DEFINE d == Top.dir
           n == Top.next
<1>1. /\ stack # <<>> /\ Top.pc = "entries" /\ n <= Len(source[d]) /\ source[d][n].type = type
  BY DEF Entry, Running, Entries
<1>2. /\ Top \in Frames /\ IsTree(source) /\ d \in DOMAIN source /\ FrameOK(source, nodes, Top)
  BY <1>1, TopFacts
<1>3. /\ source[d] # Unreadable /\ NoFolders(nodes, d)
      /\ Mirrored(source, nodes, d, n) /\ NothingElse(source, nodes, d, n)
  BY <1>1, <1>2 DEF FrameOK
<1>4. Len(source[d]) \in Nat /\ n \in Nat \ {0}  BY <1>2, <1>3, EntriesTyped, FrameTyped
<1>5. n \in 1..Len(source[d])  BY <1>1, <1>4
<1>6. source[d][n] \in SourceEntries /\ source[d][n].name \in Names
  BY <1>2, <1>3, <1>5, EntriesTyped
<1> QED  BY <1>1, <1>3, <1>4, <1>5, <1>6

LEMMA PastEntryTyped ==
    ASSUME Top \in Frames
    PROVE  /\ PastEntry \in Frames /\ PastEntry.dir = Top.dir /\ PastEntry.pc = Top.pc
           /\ PastEntry.next = Top.next + 1 /\ PastEntry.pending = Top.pending
           /\ PastEntry.artists = Top.artists
BY DEF PastEntry, Frames

LEMMA IrregularKeeps ==
    ASSUME IInv, Irregular
    PROVE  IInv'
<1> DEFINE d == Top.dir
           n == Top.next
<1>1. Entry("other") /\ Becomes(PastEntry) /\ UNCHANGED source /\ nodes' = nodes
  BY DEF Irregular
<1>2. /\ stack # <<>> /\ Top.pc = "entries" /\ source[d] # Unreadable
      /\ n \in 1..Len(source[d]) /\ n \in Nat /\ Len(source[d]) \in Nat
      /\ source[d][n].type = "other"
      /\ Mirrored(source, nodes, d, n) /\ NothingElse(source, nodes, d, n)
      /\ NoFolders(nodes, d)
  BY <1>1, EntryFacts
<1>3. /\ Top \in Frames /\ IsTree(source) /\ d \in DOMAIN source
      /\ Rooted(nodes) /\ Filled(source, nodes) /\ FrameOK(source, nodes, Top)
  BY <1>2, TopFacts
<1>4. /\ PastEntry \in Frames /\ PastEntry.dir = d /\ PastEntry.pc = "entries"
      /\ PastEntry.next = n + 1 /\ PastEntry.pending = Top.pending
  BY <1>2, <1>3, PastEntryTyped
<1>5. Mirrored(source, nodes, d, n + 1) /\ NothingElse(source, nodes, d, n + 1)
  BY <1>2, OtherPassed
<1>6. AddsPending(Top, PastEntry, source[d][n])  BY <1>2, <1>4 DEF AddsPending, IsChip
<1>7. n <= Len(source[d])  BY <1>2
<1>8. FrameOK(source, nodes, PastEntry)
  BY <1>2, <1>3, <1>4, <1>5, <1>6, <1>7, EntryPassed
<1>9. Grows(nodes, nodes', d)  BY <1>1, NodesKept
<1> HIDE DEF d
<1> QED  BY <1>1, <1>2, <1>3, <1>4, <1>8, <1>9, CallGoesOn DEF d

(* What Inode.AddChild makes of a name among the entries.                  *)
LEMMA AddingChild ==
    ASSUME IInv, stack # <<>>, NEW name \in Names, NEW node,
           node.kind \in {"SourceDir", "RealFile", "ChipDir"},
           nodes' = WithChild(Top.dir, name, node)
    PROVE  /\ AddsChild(nodes, Top.dir, name, node, nodes')
           /\ Extends(nodes, nodes', Append(Top.dir, name), node)
           /\ Rooted(nodes') /\ Grows(nodes, nodes', Top.dir)
           /\ node.kind # "SourceDir" => \A o : IsDir(nodes', o) => IsDir(nodes, o)
           /\ node.kind # "ChipDir" => Filled(source, nodes')
<1>1. /\ Top.dir \in Paths /\ IsDir(nodes, Top.dir) /\ Rooted(nodes) /\ Filled(source, nodes)
  BY TopFacts
<1>2. AddsChild(nodes, Top.dir, name, node, nodes')  BY <1>1 DEF AddsChild, WithChild
<1>3. Extends(nodes, nodes', Append(Top.dir, name), node) /\ Rooted(nodes')
  BY <1>2, ChildAdded
<1>4. Grows(nodes, nodes', Top.dir)  BY <1>2, AddingGrows
<1>5. node.kind # "SourceDir" => \A o : IsDir(nodes', o) => IsDir(nodes, o)
  BY <1>3 DEF Extends, IsDir
<1>6. node.kind # "ChipDir" => Filled(source, nodes')  BY <1>1, <1>3, FilledKept
<1> QED  BY <1>2, <1>3, <1>4, <1>5, <1>6

LEMMA DirectoryKeeps ==
    ASSUME IInv, Directory
    PROVE  IInv'
<1> DEFINE d == Top.dir
           n == Top.next
           name == source[d][n].name
           c == Append(d, name)
<1>1. /\ Entry("dir") /\ UNCHANGED source /\ nodes' = WithChild(d, name, Dir)
      /\ stack' = <<Call(c), PastEntry>> \o Tail(stack)
  BY DEF Directory, Entries
<1>2. /\ stack # <<>> /\ Top.pc = "entries" /\ source[d] # Unreadable
      /\ n \in 1..Len(source[d]) /\ n \in Nat /\ Len(source[d]) \in Nat
      /\ source[d][n].type = "dir" /\ name \in Names
      /\ Mirrored(source, nodes, d, n) /\ NothingElse(source, nodes, d, n)
      /\ NoFolders(nodes, d)
  BY <1>1, EntryFacts
<1>3. /\ Top = stack[1] /\ Top \in Frames /\ IsTree(source) /\ d \in DOMAIN source
      /\ FrameOK(source, nodes, Top)
  BY <1>2, TopFacts
<1>4. /\ PastEntry \in Frames /\ PastEntry.dir = d /\ PastEntry.pc = "entries"
      /\ PastEntry.next = n + 1 /\ PastEntry.pending = Top.pending
  BY <1>2, <1>3, PastEntryTyped
<1>5. Dir.kind = "SourceDir"  BY DEF Dir
<1>6. AddsChild(nodes, d, name, Dir, nodes') /\ Filled(source, nodes')
  BY <1>1, <1>2, <1>5, AddingChild
<1>7. /\ Child(source, d, n) \notin DOMAIN nodes
      /\ Mirrored(source, nodes', d, n + 1) /\ NothingElse(source, nodes', d, n + 1)
      /\ NoFolders(nodes', d)
  BY <1>2, <1>3, <1>5, <1>6, EntryAdded
<1>8. AddsPending(Top, PastEntry, source[d][n])  BY <1>2, <1>4 DEF AddsPending, IsChip
<1>9. n <= Len(source[d])  BY <1>2
<1>10. FrameOK(source, nodes', PastEntry)
  BY <1>2, <1>3, <1>4, <1>7, <1>8, <1>9, EntryPassed
<1>11. c \in DOMAIN source
  <2>1. Child(source, d, n) \in DOMAIN source  BY <1>2, <1>3, EntriesTyped
  <2> QED  BY <2>1 DEF Child
<1>12. c \notin DOMAIN nodes  BY <1>7 DEF Child
<1>13. Inv(source, <<Call(c), PastEntry>> \o Tail(stack), nodes')
  <2>1. Inv(source, stack, nodes) /\ PastEntry.dir = stack[1].dir  BY <1>3, <1>4 DEF IInv
  <2>2. /\ AddsChild(nodes, PastEntry.dir, name, Dir, nodes')
        /\ Append(PastEntry.dir, name) = c
    BY <1>4, <1>6
  <2> HIDE DEF c, name, d, n
  <2> QED  BY <1>2, <1>4, <1>5, <1>6, <1>10, <1>11, <1>12, <2>1, <2>2, TopPushed
<1> QED  BY <1>1, <1>13 DEF IInv

LEMMA RegularFileKeeps ==
    ASSUME IInv, RegularFile
    PROVE  IInv'
<1> DEFINE d == Top.dir
           n == Top.next
           e == source[d][n]
           g == [PastEntry EXCEPT !.pending = Append(@, e),
                                  !.artists = IF e.format = "spc" THEN Append(@, e.artist) ELSE @]
           f == IF e.format = "none" THEN PastEntry ELSE g
<1>1. /\ Entry("regular") /\ UNCHANGED source /\ nodes' = WithChild(d, e.name, File)
      /\ Becomes(f)
  BY DEF RegularFile, Entries
<1>2. /\ stack # <<>> /\ Top.pc = "entries" /\ source[d] # Unreadable
      /\ n \in 1..Len(source[d]) /\ n \in Nat /\ Len(source[d]) \in Nat
      /\ e.type = "regular" /\ e \in SourceEntries /\ e.name \in Names
      /\ Mirrored(source, nodes, d, n) /\ NothingElse(source, nodes, d, n)
      /\ NoFolders(nodes, d)
  BY <1>1, EntryFacts
<1>3. /\ Top \in Frames /\ IsTree(source) /\ d \in DOMAIN source
      /\ FrameOK(source, nodes, Top)
  BY <1>2, TopFacts
<1>4. /\ PastEntry \in Frames /\ PastEntry.dir = d /\ PastEntry.pc = "entries"
      /\ PastEntry.next = n + 1 /\ PastEntry.pending = Top.pending
  BY <1>2, <1>3, PastEntryTyped
<1>5. e.artist \in Nat  BY <1>2 DEF SourceEntries
<1> HIDE DEF d, n, e
<1>6. /\ g \in Frames /\ g.dir = d /\ g.pc = "entries" /\ g.next = n + 1
      /\ g.pending = Append(Top.pending, e)
  <2>1. Append(PastEntry.pending, e) \in Seq(SourceEntries)
    <3>1. PastEntry.pending \in Seq(SourceEntries)  BY <1>4, FrameTyped
    <3> QED  BY <1>2, <3>1, AppendProperties
  <2>2. Append(PastEntry.artists, e.artist) \in Seq(Nat)
    <3>1. PastEntry.artists \in Seq(Nat)  BY <1>4, FrameTyped
    <3> QED  BY <1>5, <3>1, AppendProperties
  <2> QED  BY <1>4, <2>1, <2>2 DEF Frames
<1> HIDE DEF g
<1>7. f \in Frames /\ f.dir = d /\ f.pc = "entries" /\ f.next = n + 1  BY <1>4, <1>6
<1>8. AddsPending(Top, f, e)  BY <1>2, <1>4, <1>6 DEF AddsPending, IsChip
<1> HIDE DEF f
<1>9. File.kind = "RealFile"  BY DEF File
<1>10. /\ AddsChild(nodes, d, e.name, File, nodes') /\ Filled(source, nodes')
       /\ Rooted(nodes') /\ Grows(nodes, nodes', d)
       /\ \A o : IsDir(nodes', o) => IsDir(nodes, o)
  BY <1>1, <1>2, <1>9, AddingChild DEF d
<1>11. /\ Mirrored(source, nodes', d, n + 1) /\ NothingElse(source, nodes', d, n + 1)
       /\ NoFolders(nodes', d)
  BY <1>2, <1>3, <1>9, <1>10, EntryAdded DEF e
<1>12. n <= Len(source[d])  BY <1>2
<1>13. FrameOK(source, nodes', f)
  <2>1. f.dir = Top.dir /\ f.next = Top.next + 1  BY <1>7 DEF d, n
  <2>2. AddsPending(Top, f, source[Top.dir][Top.next])  BY <1>8 DEF e, d, n
  <2> QED  BY <1>2, <1>3, <1>7, <1>11, <1>12, <2>1, <2>2, EntryPassed DEF d, n
<1> QED  BY <1>1, <1>2, <1>7, <1>10, <1>13, CallGoesOn DEF d

LEMMA EndOfEntriesKeeps ==
    ASSUME IInv, EndOfEntries
    PROVE  IInv'
<1> DEFINE f == [Top EXCEPT !.pc = "chips"]
           d == Top.dir
<1>1. /\ stack # <<>> /\ Top.pc = "entries" /\ Top.next > Len(source[d])
      /\ Becomes(f) /\ UNCHANGED source /\ nodes' = nodes
  BY DEF EndOfEntries, Running, Entries
<1>2. /\ Top \in Frames /\ IsTree(source) /\ d \in DOMAIN source
      /\ Rooted(nodes) /\ Filled(source, nodes) /\ FrameOK(source, nodes, Top)
  BY <1>1, TopFacts
<1>3. /\ f \in Frames /\ f.dir = d /\ f.pc = "chips"
      /\ f.next = Top.next /\ f.pending = Top.pending
  BY <1>2 DEF Frames
<1> HIDE DEF f
<1>4. FrameOK(source, nodes, f)  BY <1>1, <1>2, <1>3, EntriesEnd
<1>5. Grows(nodes, nodes', d)  BY <1>1, NodesKept
<1> QED  BY <1>1, <1>2, <1>3, <1>4, <1>5, CallGoesOn

LEMMA AddChipKeeps ==
    ASSUME IInv, AddChip
    PROVE  IInv'
<1> DEFINE f == [Top EXCEPT !.pending = Tail(@)]
           d == Top.dir
           e == Head(Top.pending)
           name == FolderName(d, e.name)
           node == Chip(e, MostCommon(Top.artists))
<1>1. /\ stack # <<>> /\ Top.pc = "chips" /\ Top.pending # <<>>
      /\ nodes' = WithChild(d, name, node) /\ Becomes(f) /\ UNCHANGED source
  BY DEF AddChip, Running
<1>2. /\ Top \in Frames /\ Top.pending \in Seq(SourceEntries) /\ d \in Paths
      /\ IsTree(source) /\ d \in DOMAIN source
      /\ Filled(source, nodes) /\ FrameOK(source, nodes, Top)
  BY <1>1, TopFacts, FrameTyped
<1>3. /\ node.kind = "ChipDir" /\ node.of = e.name
      /\ node.children = {TrackName(e, i) : i \in DOMAIN e.titles}
  BY DEF Chip
<1>4. PICK m \in 1..Len(source[d]) : IsChip(source[d][m]) /\ e = source[d][m]
  <2>1. PendingRead(source, Top)  BY <1>1, <1>2 DEF FrameOK
  <2>2. IsPending(Top, e)  BY <1>1, <2>1, PendingRemoved, <1>2, HeadRemoved DEF IsPending
  <2> QED  BY <2>1, <2>2 DEF PendingRead, IsPending
<1>5. source[d] # Unreadable  BY <1>1, <1>2 DEF FrameOK
<1>6. Stem[e.name] \in Names /\ Fallback[e.name] \in Names
  BY <1>2, <1>4, <1>5, EntriesTyped DEF IsChip
<1>7. /\ f \in Frames /\ f.dir = d /\ f.pc = "chips"
      /\ f.next = Top.next /\ f.pending = Tail(Top.pending)
  <2>1. Tail(Top.pending) \in Seq(SourceEntries)  BY <1>1, <1>2, HeadRemoved
  <2> QED  BY <1>1, <1>2, <2>1 DEF Frames
<1> HIDE DEF f
<1>8. name \in Names /\ FolderOf(nodes, d, e.name, name, node)
  BY <1>3, <1>6 DEF FolderName, Taken, FolderOf
<1>9. HasTracks(source, d, node)  BY <1>3, <1>4 DEF HasTracks
<1> HIDE DEF node, name
<1>10. /\ AddsChild(nodes, d, name, node, nodes')
       /\ Extends(nodes, nodes', Append(d, name), node)
       /\ Rooted(nodes') /\ Grows(nodes, nodes', d)
       /\ \A o : IsDir(nodes', o) => IsDir(nodes, o)
  BY <1>1, <1>3, <1>8, AddingChild
<1>11. Filled(source, nodes')
  <2>1. Front(Append(d, name)) = d  BY <1>2, <1>8, PathOfChild
  <2> QED  BY <1>2, <1>9, <1>10, <2>1, FilledAdded
<1>12. FrameOK(source, nodes', f)
  BY <1>1, <1>2, <1>7, <1>8, <1>10, FolderPlaced
<1> QED  BY <1>1, <1>7, <1>10, <1>11, <1>12, CallGoesOn

-----------------------------------------------------------------------------
(* The theorems.                                                           *)

LEMMA InitIInv == Init => IInv
<1> SUFFICES ASSUME Init PROVE IInv  OBVIOUS
<1> DEFINE root == <<>>
           st == <<Call(root)>>
           ns == [p \in {root} |-> Dir]
<1>1. source \in Trees /\ stack = st /\ nodes = ns  BY DEF Init
<1>2. IsTree(source) /\ root \in DOMAIN source  BY <1>1, TreesAssumption DEF IsTree
<1>3. root \in Paths /\ Len(root) = 0  BY EmptySeq DEF Paths
<1>4. /\ Call(root) \in Frames /\ Call(root).dir = root /\ Call(root).pc = "read"
      /\ Call(root).next = 1 /\ Call(root).pending = <<>>
  BY <1>3, CallTyped
<1>5. DOMAIN ns = {root} /\ ns[root].kind = "SourceDir" /\ Dir.kind = "SourceDir"  BY DEF Dir
<1> HIDE DEF root, ns
<1>6. Rooted(ns)  BY <1>3, <1>5 DEF Rooted, root
<1>7. Filled(source, ns)  BY <1>5 DEF Filled
<1>8. st \in Seq(Frames) /\ Len(st) = 1 /\ st[1] = Call(root)
  <2> DEFINE f == Call(root)
  <2>1. f \in Frames  BY <1>4
  <2> HIDE DEF f
  <2>2. <<f>> \in Seq(Frames) /\ Len(<<f>>) = 1 /\ <<f>>[1] = f  BY <2>1
  <2> QED  BY <2>2 DEF f
<1> HIDE DEF st
<1>9. Placed(source, st, ns, 1)
  <2>1. Len(root) = Len(st) - 1  BY <1>3, <1>8
  <2> QED  BY <1>2, <1>4, <1>5, <1>8, <2>1 DEF Placed, IsDir
<1>10. FrameOK(source, ns, Call(root))
  <2>1. Empty(ns, root)  BY <1>5 DEF Empty, root
  <2> QED  BY <1>4, <2>1 DEF FrameOK
<1>11. \A k \in 1..Len(st) : k = 1  BY <1>8
<1>12. \A d : IsDir(ns, d) => OnStack(st, d)
  <2>1. 1 \in 1..Len(st)  BY <1>8
  <2> QED  BY <1>4, <1>5, <1>8, <2>1 DEF IsDir, OnStack
<1>13. Inv(source, st, ns)  BY <1>6, <1>7, <1>8, <1>9, <1>10, <1>11, <1>12 DEF Inv
<1> QED  BY <1>1, <1>13 DEF IInv

(* IInv is an inductive invariant of the scan.                             *)
THEOREM IInvInvariant == Spec => []IInv
<1>1. IInv /\ [Next]_vars => IInv'
  <2> SUFFICES ASSUME IInv, [Next]_vars PROVE IInv'  OBVIOUS
  <2>1. CASE UNCHANGED vars  BY <2>1 DEF vars, IInv
  <2> QED
    BY <2>1, ReadDirKeeps, DirectoryKeeps, IrregularKeeps, RegularFileKeeps, EndOfEntriesKeeps,
       AddChipKeeps, ReturnKeeps DEF Next
<1> QED  BY InitIInv, <1>1, PTL DEF Spec

(* The calls of populate are nested as the directories are, and every node *)
(* is in a directory.                                                      *)
THEOREM TypeCorrect == Spec => []TypeOK
<1>1. IInv => TypeOK
  <2> SUFFICES ASSUME IInv PROVE TypeOK  OBVIOUS
  <2>1. stack \in Seq(Frames) /\ Rooted(nodes)
        /\ \A k \in 1..Len(stack) : Placed(source, stack, nodes, k)
    BY DEF IInv, Inv
  <2>2. DOMAIN stack = 1..Len(stack) /\ \A k \in 1..Len(stack) : stack[k] \in Frames
    BY <2>1, LenProperties, ElementOfSeq
  <2>3. \A k \in 1..Len(stack) :
           /\ stack[k].dir \in DOMAIN source
           /\ k > 1 => stack[k].dir = Front(stack[k - 1].dir)
    BY <2>1 DEF Placed
  <2>4. \A k \in 1..Len(stack) : stack[k].pc \in {"read", "entries", "chips"}
    BY <2>2, FrameTyped
  <2>5. \A p \in DOMAIN nodes :
           /\ nodes[p].kind \in {"SourceDir", "RealFile", "ChipDir"}
           /\ p # <<>> => nodes[Front(p)].kind = "SourceDir"
    BY <2>1 DEF Rooted
  <2> QED  BY <2>2, <2>3, <2>4, <2>5, Zenon DEF TypeOK
<1> QED  BY <1>1, IInvInvariant, PTL

(* What holds of a directory once the tree is mounted.                     *)
LEMMA DirsReadDone ==
    ASSUME IInv, Mounted, NEW d \in DirsRead
    PROVE  /\ d \in DOMAIN source /\ source[d] # Unreadable /\ IsTree(source)
           /\ Mirrored(source, nodes, d, Len(source[d]) + 1)
           /\ NothingElse(source, nodes, d, Len(source[d]) + 1)
           /\ \A i \in 1..Len(source[d]) :
                 IsChip(source[d][i]) => Named(nodes, d, source[d][i].name)
<1>1. d \in DOMAIN source /\ source[d] # Unreadable /\ IsDir(nodes, d)
  BY DEF DirsRead, IsDir
<1>2. ~OnStack(stack, d)
  <2>1. Len(stack) = 0  BY EmptySeq DEF Mounted
  <2> QED  BY <2>1 DEF OnStack
<1>3. Done(source, nodes, d)  BY <1>1, <1>2 DEF IInv, Inv
<1> QED  BY <1>1, <1>3, TreesAssumption DEF Done, IInv

(* Directories and regular files keep their names, whatever chiptunes want *)
(* the same ones, and only chiptune folders are added.                     *)
THEOREM TreeMirrorsSource == Spec => []MirrorsSource
<1>1. IInv => MirrorsSource
  <2> SUFFICES ASSUME IInv, Mounted, NEW d \in DirsRead
               PROVE  LET Kept(type) == {Append(d, e.name) :
                                            e \in {x \in Range(source[d]) : x.type = type}}
                          Seen(kind) == {p \in DOMAIN nodes :
                                            p # <<>> /\ Front(p) = d /\ nodes[p].kind = kind}
                      IN  Kept("dir") = Seen("SourceDir") /\ Kept("regular") = Seen("RealFile")
    BY DEF MirrorsSource
  <2> DEFINE s == source[d]
             Kept(type) == {Append(d, e.name) : e \in {x \in Range(s) : x.type = type}}
             Seen(kind) == {p \in DOMAIN nodes : p # <<>> /\ Front(p) = d /\ nodes[p].kind = kind}
  <2>1. /\ Mirrored(source, nodes, d, Len(s) + 1) /\ NothingElse(source, nodes, d, Len(s) + 1)
        /\ d \in DOMAIN source /\ s # Unreadable /\ IsTree(source)
    BY DirsReadDone
  <2>2. /\ d \in Paths /\ Len(s) \in Nat /\ DOMAIN s = 1..Len(s)
        /\ \A i \in 1..Len(s) : s[i].name \in Names
    BY <2>1, EntriesTyped
  <2>3. \A i \in 1..Len(s) : i < Len(s) + 1  BY <2>2
  <2>4. \A i \in 1..Len(s) : Child(source, d, i) # <<>> /\ Front(Child(source, d, i)) = d
    BY <2>2, PathOfChild DEF Child
  <2>5. \A type : \A p : p \in Kept(type)
           <=> \E i \in 1..Len(s) : s[i].type = type /\ p = Child(source, d, i)
    BY <2>2 DEF Range, Child
  <2>6. \A i \in 1..Len(s) :
           /\ s[i].type = "dir" => Child(source, d, i) \in Seen("SourceDir")
           /\ s[i].type = "regular" => Child(source, d, i) \in Seen("RealFile")
    BY <2>1, <2>3, <2>4 DEF Mirrored
  <2>7. /\ \A p \in Seen("SourceDir") :
              \E i \in 1..Len(s) : s[i].type = "dir" /\ p = Child(source, d, i)
        /\ \A p \in Seen("RealFile") :
              \E i \in 1..Len(s) : s[i].type = "regular" /\ p = Child(source, d, i)
    BY <2>1 DEF NothingElse
  <2>8. Kept("dir") = Seen("SourceDir") /\ Kept("regular") = Seen("RealFile")
    <3> HIDE DEF Kept, Seen
    <3>1. \A p : p \in Kept("dir") <=> p \in Seen("SourceDir")  BY <2>5, <2>6, <2>7
    <3>2. \A p : p \in Kept("regular") <=> p \in Seen("RealFile")  BY <2>5, <2>6, <2>7
    <3> USE DEF Kept, Seen
    <3>3. Kept("dir") = Seen("SourceDir")  BY <3>1
    <3>4. Kept("regular") = Seen("RealFile")  BY <3>2
    <3> QED  BY <3>3, <3>4
  <2> QED  BY <2>8 DEF Kept, Seen
<1> QED  BY <1>1, IInvInvariant, PTL

LEMMA ChiptuneEntries ==
    ASSUME NEW d \in DOMAIN source, IsTree(source), source[d] # Unreadable
    PROVE  \A e \in Chiptunes(d) :
              \E i \in 1..Len(source[d]) : source[d][i] = e /\ IsChip(e)
<1>1. DOMAIN source[d] = 1..Len(source[d])  BY EntriesTyped
<1> QED  BY <1>1 DEF Chiptunes, Range, IsChip

LEMMA FoldersSame ==
    ASSUME NEW d, NEW e
    PROVE  FoldersOf(d, e) = Folders(nodes, d, e.name)
BY DEF FoldersOf, FoldersIn, Folders

(* A chiptune has at most one folder, under the name that addChipDir       *)
(* promises, and none only if others hold both names.                      *)
THEOREM FoldersNamedAsPromised == Spec => []FoldersNamed
<1>1. IInv => FoldersNamed
  <2> SUFFICES ASSUME IInv, Mounted, NEW d \in DirsRead, NEW e \in Chiptunes(d)
               PROVE  LET held == {n \in {Stem[e.name], Fallback[e.name]} : Taken(d, n)}
                          mine == FoldersOf(d, e)
                      IN  \/ mine = {Append(d, Stem[e.name])}
                          \/ /\ mine = {Append(d, Fallback[e.name])}
                             /\ Stem[e.name] \in held \cup {NoName}
                          \/ /\ mine = {}
                             /\ {Stem[e.name], Fallback[e.name]} \subseteq held \cup {NoName}
    BY DEF FoldersNamed
  <2>1. /\ d \in DOMAIN source /\ source[d] # Unreadable /\ IsTree(source)
        /\ \A i \in 1..Len(source[d]) :
              IsChip(source[d][i]) => Named(nodes, d, source[d][i].name)
    BY DirsReadDone
  <2>2. Named(nodes, d, e.name)  BY <2>1, ChiptuneEntries
  <2>3. FoldersOf(d, e) = Folders(nodes, d, e.name)  BY FoldersSame
  <2>4. {n \in {Stem[e.name], Fallback[e.name]} : Taken(d, n)} = Held(nodes, d, e.name)
    BY DEF Taken, Held
  <2> QED  BY <2>2, <2>3, <2>4 DEF Named
<1> QED  BY <1>1, IInvInvariant, PTL

-----------------------------------------------------------------------------
(* The names of tracks.                                                    *)

LEMMA LastDigit ==
    ASSUME NEW n \in Nat
    PROVE  n = 10 * (n \div 10) + (n % 10) /\ n \div 10 \in Nat /\ n % 10 \in 0..9
OBVIOUS

LEMMA TensAre ==
    /\ Tens[1] = 1 /\ Tens[2] = 10 /\ Tens[3] = 100 /\ Tens[4] = 1000 /\ Tens[5] = 10000
    /\ Tens[6] = 100000 /\ Tens[7] = 1000000 /\ Tens[8] = 10000000 /\ Tens[9] = 100000000
    /\ Tens[10] = 1000000000
BY DEF Tens

(* n without its last p - 1 digits.                                        *)
From(n, p) == n \div Tens[p]

LEMMA FromType ==
    ASSUME NEW n \in Nat, NEW p \in 1..10
    PROVE  From(n, p) \in Nat
BY TensAre DEF From

(* One digit more is taken off by another division.                        *)
LEMMA FromNext ==
    ASSUME NEW n \in Nat, NEW p \in 1..9
    PROVE  From(n, p) \div 10 = From(n, p + 1)
<1>1. \A m \in Nat : /\ (m \div 1) \div 10 = m \div 10
                     /\ (m \div 10) \div 10 = m \div 100
                     /\ (m \div 100) \div 10 = m \div 1000
                     /\ (m \div 1000) \div 10 = m \div 10000
                     /\ (m \div 10000) \div 10 = m \div 100000
  OBVIOUS
<1>2. \A m \in Nat : /\ (m \div 100000) \div 10 = m \div 1000000
                     /\ (m \div 1000000) \div 10 = m \div 10000000
                     /\ (m \div 10000000) \div 10 = m \div 100000000
                     /\ (m \div 100000000) \div 10 = m \div 1000000000
  OBVIOUS
<1> QED  BY <1>1, <1>2, TensAre DEF From

(* Two numbers whose digits up to the pth are the same differ before it.   *)
Alike(m, n, p) == From(m, p) = From(n, p)

LEMMA OneMoreDigit ==
    ASSUME NEW m \in Nat, NEW n \in Nat, NEW p \in 1..9, Alike(m, n, p + 1),
           From(m, p) % 10 = From(n, p) % 10
    PROVE  Alike(m, n, p)
<1>0. p \in 1..10  OBVIOUS
<1>1. From(m, p) \in Nat /\ From(n, p) \in Nat  BY <1>0, FromType
<1>2. From(m, p) \div 10 = From(n, p) \div 10  BY FromNext DEF Alike
<1>3. \A a, b \in Nat : a \div 10 = b \div 10 /\ a % 10 = b % 10 => a = b
  BY LastDigit
<1> QED  BY <1>1, <1>2, <1>3 DEF Alike

(* A number is known by its digits.                                        *)
LEMMA SameDigits ==
    ASSUME NEW m \in Nat, NEW n \in Nat, NEW w \in 2..10, From(m, w) < 10, From(n, w) < 10,
           \A p \in 1..w : From(m, p) % 10 = From(n, p) % 10
    PROVE  m = n
<1>1. Alike(m, n, w)
  <2>0. w \in 1..10 /\ w \in 1..w  OBVIOUS
  <2>1. From(m, w) \in Nat /\ From(n, w) \in Nat  BY <2>0, FromType
  <2>2. \A a \in Nat : a < 10 => a % 10 = a  OBVIOUS
  <2>3. From(m, w) % 10 = From(n, w) % 10  BY <2>0
  <2> QED  BY <2>1, <2>2, <2>3 DEF Alike
<1>2. \A p \in 1..9 : p < w /\ Alike(m, n, p + 1) => Alike(m, n, p)
  BY OneMoreDigit
<1>3. Alike(m, n, 1)
  <2>1. w \in {2, 3, 4, 5, 6, 7, 8, 9, 10}  OBVIOUS
  <2>2. /\ w > 9 /\ Alike(m, n, 10) => Alike(m, n, 9)
        /\ w > 8 /\ Alike(m, n, 9) => Alike(m, n, 8)
        /\ w > 7 /\ Alike(m, n, 8) => Alike(m, n, 7)
        /\ w > 6 /\ Alike(m, n, 7) => Alike(m, n, 6)
        /\ w > 5 /\ Alike(m, n, 6) => Alike(m, n, 5)
        /\ w > 4 /\ Alike(m, n, 5) => Alike(m, n, 4)
        /\ w > 3 /\ Alike(m, n, 4) => Alike(m, n, 3)
        /\ w > 2 /\ Alike(m, n, 3) => Alike(m, n, 2)
        /\ Alike(m, n, 2) => Alike(m, n, 1)
    BY <1>2
  <2> QED  BY <1>1, <2>1, <2>2
<1>4. \A a \in Nat : a \div 1 = a  OBVIOUS
<1> QED  BY <1>3, <1>4, TensAre DEF Alike, From

(* The numbers that have at most ten digits.                               *)
Countable(n) == n \in Nat /\ n \div Tens[10] < 10

LEMMA NumberType ==
    ASSUME NEW n, Countable(n)
    PROVE  /\ Width(n) \in 2..10 /\ From(n, Width(n)) < 10
           /\ Number(n) \in Seq(48..57) /\ Len(Number(n)) = Width(n)
           /\ \A k \in 1..Width(n) : Number(n)[k] = 48 + (From(n, Width(n) + 1 - k) % 10)
<1> DEFINE S == {w \in 2..10 : n \div Tens[w] < 10}
           w == Width(n)
<1>1. Width(n) \in S
  <2>1. 10 \in S /\ S \subseteq Nat  BY DEF Countable
  <2>2. \E x \in S : \A y \in S : x <= y  BY <2>1, LeastNatural
  <2> QED  BY <2>2 DEF Width, Min
<1>2. w \in 2..10 /\ From(n, w) < 10  BY <1>1 DEF From
<1> HIDE DEF w
<1>3. Number(n) = [k \in 1..w |-> 48 + (From(n, w + 1 - k) % 10)]
  BY DEF Number, From, w
<1>4. ASSUME NEW k \in 1..w
      PROVE  48 + (From(n, w + 1 - k) % 10) \in 48..57
  <2>1. w + 1 - k \in 1..10  BY <1>2
  <2>2. From(n, w + 1 - k) \in Nat  BY <2>1, FromType DEF Countable
  <2>3. \A a \in Nat : 48 + (a % 10) \in 48..57  OBVIOUS
  <2> QED  BY <2>2, <2>3
<1>5. Number(n) \in [1..w -> 48..57]  BY <1>3, <1>4
<1>6. Number(n) \in Seq(48..57) /\ Len(Number(n)) = w
  <2>1. w \in Nat  BY <1>2
  <2> QED  BY <1>5, <2>1, SeqDef, LenProperties
<1> QED  BY <1>2, <1>3, <1>6 DEF w

(* Different numbers are written differently.                              *)
LEMMA NumbersDiffer ==
    ASSUME NEW m, Countable(m), NEW n, Countable(n), Width(m) = Width(n),
           \A k \in 1..Width(m) : Number(m)[k] = Number(n)[k]
    PROVE  m = n
<1> DEFINE w == Width(m)
<1>1. /\ w \in 2..10 /\ From(m, w) < 10 /\ From(n, w) < 10
      /\ \A k \in 1..w : /\ Number(m)[k] = 48 + (From(m, w + 1 - k) % 10)
                         /\ Number(n)[k] = 48 + (From(n, w + 1 - k) % 10)
  BY NumberType
<1>2. \A k \in 1..w : Number(m)[k] = Number(n)[k]  OBVIOUS
<1> HIDE DEF w
<1>3. ASSUME NEW p \in 1..w
      PROVE  From(m, p) % 10 = From(n, p) % 10
  <2>1. p \in 1..10 /\ w + 1 - p \in 1..w /\ w + 1 - (w + 1 - p) = p  BY <1>1
  <2>2. 48 + (From(m, p) % 10) = 48 + (From(n, p) % 10)  BY <1>1, <1>2, <2>1
  <2>3. From(m, p) \in Nat /\ From(n, p) \in Nat  BY <2>1, FromType DEF Countable
  <2>4. \A a, b \in Nat : 48 + (a % 10) = 48 + (b % 10) => a % 10 = b % 10
    <3>1. \A a \in Nat : a % 10 \in 0..9  BY LastDigit
    <3> QED  BY <3>1
  <2> QED  BY <2>2, <2>3, <2>4
<1> QED  BY <1>1, <1>3, SameDigits DEF Countable

Text == Seq(0..127)

(* What is behind a sequence does not change it.                           *)
LEMMA Joined ==
    ASSUME NEW s \in Text, NEW t \in Text
    PROVE  /\ s \o t \in Text /\ Len(s \o t) = Len(s) + Len(t)
           /\ \A k \in 1..Len(s) : (s \o t)[k] = s[k]
           /\ \A k \in 1..Len(t) : (s \o t)[Len(s) + k] = t[k]
<1> DEFINE m == Len(s)
           n == Len(t)
<1>0. m \in Nat /\ n \in Nat  BY LenProperties DEF Text
<1>3. /\ s \o t \in Text /\ Len(s \o t) = m + n
      /\ \A k \in 1..(m + n) : (s \o t)[k] = IF k <= m THEN s[k] ELSE t[k - m]
  BY ConcatProperties DEF Text
<1> HIDE DEF m, n
<1>1. \A k \in 1..m : k \in 1..(m + n) /\ k <= m  BY <1>0
<1>2. \A k \in 1..n : m + k \in 1..(m + n) /\ ~(m + k <= m) /\ (m + k) - m = k  BY <1>0
<1> QED  BY <1>1, <1>2, <1>3 DEF m, n

Titled(n, s) == Number(n) \o Dash \o s
Untitled(n) == TrackPrefix \o Number(n)

LEMMA NumberIsText ==
    ASSUME NEW n, Countable(n)
    PROVE  /\ Width(n) \in 2..10 /\ Width(n) \in Nat
           /\ Number(n) \in Text /\ Len(Number(n)) = Width(n)
           /\ \A k \in 1..Width(n) : Number(n)[k] \in 48..57
<1>1. Width(n) \in 2..10 /\ Number(n) \in Seq(48..57) /\ Len(Number(n)) = Width(n)
  BY NumberType
<1>2. \A k \in 1..Width(n) : Number(n)[k] \in 48..57  BY <1>1, ElementOfSeq
<1>3. Number(n) \in Text
  <2>1. \A k \in 48..57 : k \in 0..127  OBVIOUS
  <2> QED  BY <1>1, <2>1, SeqDef DEF Text
<1> QED  BY <1>1, <1>2, <1>3

(* A number with a title behind it ends at the first space.                *)
LEMMA TitledType ==
    ASSUME NEW n, Countable(n), NEW s \in Text
    PROVE  /\ \A k \in 1..Width(n) : Titled(n, s)[k] = Number(n)[k] /\ Titled(n, s)[k] \in 48..57
           /\ Titled(n, s)[Width(n) + 1] = 32
<1> DEFINE w == Width(n)
           y == Number(n) \o Dash
<1>1. /\ w \in 2..10 /\ w \in Nat /\ Number(n) \in Text /\ Len(Number(n)) = w
      /\ \A k \in 1..w : Number(n)[k] \in 48..57
  BY NumberIsText
<1>2. Dash \in Text /\ Len(Dash) = 3 /\ Dash[1] = 32  BY DEF Dash, Text
<1> HIDE DEF w
<1>3. /\ y \in Text /\ Len(y) = Len(Number(n)) + Len(Dash)
      /\ \A k \in 1..Len(Number(n)) : y[k] = Number(n)[k]
      /\ \A k \in 1..Len(Dash) : y[Len(Number(n)) + k] = Dash[k]
  BY <1>1, <1>2, Joined, Zenon
<1> HIDE DEF y
<1>4. y[w + 1] = 32
  <2>1. 1 \in 1..3  OBVIOUS
  <2> QED  BY <1>1, <1>2, <1>3, <2>1
<1>6. \A k \in 1..(w + 3) : (y \o s)[k] = y[k]  BY <1>1, <1>2, <1>3, Joined
<1>7. w + 1 \in 1..(w + 3) /\ \A k \in 1..w : k \in 1..(w + 3)  BY <1>1
<1>8. Titled(n, s) = y \o s  BY DEF Titled, y
<1>9. \A k \in 1..w : Titled(n, s)[k] = Number(n)[k]  BY <1>1, <1>3, <1>6, <1>7, <1>8
<1>10. Titled(n, s)[w + 1] = 32  BY <1>4, <1>6, <1>7, <1>8
<1> QED  BY <1>1, <1>9, <1>10 DEF w

LEMMA TitledDiffer ==
    ASSUME NEW m, Countable(m), NEW n, Countable(n), NEW s \in Text, NEW t \in Text,
           Titled(m, s) = Titled(n, t)
    PROVE  m = n
<1> DEFINE x == Titled(m, s)
<1>1. Width(m) \in 2..10 /\ Width(n) \in 2..10  BY NumberIsText
<1>2. /\ x[Width(m) + 1] = 32
      /\ \A k \in 1..Width(m) : x[k] = Number(m)[k] /\ x[k] \in 48..57
  BY TitledType
<1>3. /\ x[Width(n) + 1] = 32
      /\ \A k \in 1..Width(n) : x[k] = Number(n)[k] /\ x[k] \in 48..57
  <2>1. x = Titled(n, t)  OBVIOUS
  <2> HIDE DEF x
  <2> QED  BY <2>1, TitledType
<1> HIDE DEF x
<1>4. Width(m) = Width(n)
  <2>1. 32 \notin 48..57  OBVIOUS
  <2>2. ~(Width(m) < Width(n))
    <3>1. Width(m) < Width(n) => Width(m) + 1 \in 1..Width(n)  BY <1>1
    <3> QED  BY <1>2, <1>3, <2>1, <3>1
  <2>3. ~(Width(n) < Width(m))
    <3>1. Width(n) < Width(m) => Width(n) + 1 \in 1..Width(m)  BY <1>1
    <3> QED  BY <1>2, <1>3, <2>1, <3>1
  <2> QED  BY <1>1, <2>2, <2>3
<1> QED  BY <1>2, <1>3, <1>4, NumbersDiffer

(* So do the numbers of tracks without a title.                            *)
LEMMA UntitledType ==
    ASSUME NEW n, Countable(n)
    PROVE  /\ Len(Untitled(n)) = 6 + Width(n) /\ Untitled(n)[1] = 84
           /\ \A k \in 1..Width(n) : Untitled(n)[6 + k] = Number(n)[k]
<1>1. TrackPrefix \in Text /\ Len(TrackPrefix) = 6 /\ TrackPrefix[1] = 84
  BY DEF TrackPrefix, Text
<1>2. Width(n) \in Nat /\ Number(n) \in Text /\ Len(Number(n)) = Width(n)
  BY NumberIsText
<1> DEFINE x == TrackPrefix \o Number(n)
<1>6. TrackPrefix \in Text /\ Number(n) \in Text  BY <1>1, <1>2
<1>3. /\ Len(x) = Len(TrackPrefix) + Len(Number(n))
      /\ \A k \in 1..Len(TrackPrefix) : x[k] = TrackPrefix[k]
      /\ \A k \in 1..Len(Number(n)) : x[Len(TrackPrefix) + k] = Number(n)[k]
  BY <1>6, Joined
<1>5. Untitled(n) = x  BY DEF Untitled
<1> HIDE DEF x
<1>4. 1 \in 1..6  OBVIOUS
<1> QED  BY <1>1, <1>2, <1>3, <1>4, <1>5

LEMMA UntitledDiffer ==
    ASSUME NEW m, Countable(m), NEW n, Countable(n), Untitled(m) = Untitled(n)
    PROVE  m = n
<1>1. Width(m) \in Nat /\ Width(n) \in Nat  BY NumberIsText
<1>2. /\ Len(Untitled(m)) = 6 + Width(m)
      /\ \A k \in 1..Width(m) : Untitled(m)[6 + k] = Number(m)[k]
  BY UntitledType
<1>3. /\ Len(Untitled(n)) = 6 + Width(n)
      /\ \A k \in 1..Width(n) : Untitled(n)[6 + k] = Number(n)[k]
  BY UntitledType
<1>4. Width(m) = Width(n)  BY <1>1, <1>2, <1>3
<1> QED  BY <1>2, <1>3, <1>4, NumbersDiffer

(* A prefix is not a number.                                               *)
LEMMA KindsDiffer ==
    ASSUME NEW m, Countable(m), NEW n, Countable(n), NEW s \in Text
    PROVE  Untitled(m) # Titled(n, s)
<1>1. Untitled(m)[1] = 84  BY UntitledType
<1>2. 1 \in 1..Width(n)
  <2>1. Width(n) \in 2..10  BY NumberIsText
  <2> QED  BY <2>1
<1>3. Titled(n, s)[1] \in 48..57  BY <1>2, TitledType
<1>4. 84 \notin 48..57  OBVIOUS
<1> QED  BY <1>1, <1>3, <1>4

(* Tracks of one chiptune have different names, so as many as it has.      *)
LEMMA TrackNamesDiffer ==
    ASSUME NEW e \in SourceEntries, e.format = "spc" => Len(e.titles) = 1,
           Len(e.titles) \div Tens[10] < 10
    PROVE  Cardinality({TrackName(e, k) : k \in DOMAIN e.titles}) = Len(e.titles)
<1> DEFINE n == Len(e.titles)
           T == {TrackName(e, k) : k \in 1..n}
           f == [k \in 1..n |-> TrackName(e, k)]
<1>1. e.titles \in Seq(Titles)  BY DEF SourceEntries
<1>2. n \in Nat /\ DOMAIN e.titles = 1..n  BY <1>1, LenProperties
<1>3. \A i, j \in 1..n : TrackName(e, i) = TrackName(e, j) => i = j
  <2>1. CASE e.format = "spc"
    <3>1. n = 1  BY <2>1
    <3> HIDE DEF n
    <3> QED  BY <3>1
  <2>2. CASE e.format # "spc"
    <3> SUFFICES ASSUME NEW i \in 1..n, NEW j \in 1..n, TrackName(e, i) = TrackName(e, j)
                 PROVE  i = j
      OBVIOUS
    <3>1. \A k \in 1..n : Countable(k)
      <4>1. \A a, b \in Nat : a <= b /\ b \div 1000000000 < 10 => a \div 1000000000 < 10
        OBVIOUS
      <4>2. \A k \in 1..n : k \in Nat /\ k <= n  BY <1>2
      <4> HIDE DEF n
      <4>3. n \div Tens[10] < 10  BY DEF n
      <4> QED  BY <1>2, <4>1, <4>2, <4>3, TensAre DEF Countable
    <3>2. \A k \in 1..n : FileName[e.titles[k]] \in Text
      BY <1>1, <1>2, FileNameAssumption, ElementOfSeq DEF Text
    <3>3. \A k \in 1..n :
             TrackName(e, k) = IF e.titles[k] = NoName THEN Untitled(k)
                               ELSE Titled(k, FileName[e.titles[k]])
      BY <2>2 DEF TrackName, Titled, Untitled
    <3> HIDE DEF n
    <3>4. Countable(i) /\ Countable(j)  BY <3>1
    <3>5. CASE e.titles[i] = NoName /\ e.titles[j] = NoName
      BY <3>3, <3>4, <3>5, UntitledDiffer
    <3>6. CASE e.titles[i] # NoName /\ e.titles[j] # NoName
      BY <3>2, <3>3, <3>4, <3>6, TitledDiffer
    <3>7. CASE e.titles[i] = NoName /\ e.titles[j] # NoName
      BY <3>2, <3>3, <3>4, <3>7, KindsDiffer
    <3>8. CASE e.titles[i] # NoName /\ e.titles[j] = NoName
      BY <3>2, <3>3, <3>4, <3>8, KindsDiffer
    <3> QED  BY <3>5, <3>6, <3>7, <3>8
  <2> QED  BY <2>1, <2>2
<1>4. f \in Bijection(1..n, T)
  <2>1. f \in [1..n -> T]  OBVIOUS
  <2>2. \A t \in T : \E k \in 1..n : f[k] = t  OBVIOUS
  <2> QED  BY <1>3, <2>1, <2>2 DEF Bijection, Injection, Surjection, IsInjective
<1>5. IsFiniteSet(1..n) /\ Cardinality(1..n) = n  BY <1>2, FS_Interval, SMTT(30)
<1>6. Cardinality(T) = n
  <2>1. ExistsBijection(1..n, T)  BY <1>4 DEF ExistsBijection
  <2> HIDE DEF T
  <2> QED  BY <1>5, <2>1, FS_Bijection
<1> QED  BY <1>2, <1>6

(* No track is lost to another of the same file name.                      *)
THEOREM TracksListed == Spec => []EveryTrackListed
<1>1. IInv => EveryTrackListed
  <2> SUFFICES ASSUME IInv, NEW d \in DirsRead, NEW e \in Chiptunes(d), NEW p \in FoldersOf(d, e)
               PROVE  Cardinality(nodes[p].children) = Len(e.titles)
    BY DEF EveryTrackListed
  <2>1. IsTree(source) /\ Filled(source, nodes)  BY TreesAssumption DEF IInv, Inv
  <2>2. d \in DOMAIN source /\ source[d] # Unreadable  BY DEF DirsRead
  <2>3. /\ p \in DOMAIN nodes /\ Front(p) = d /\ nodes[p].kind = "ChipDir"
        /\ nodes[p].of = e.name
    BY DEF FoldersOf, FoldersIn
  <2>4. HasTracks(source, d, nodes[p])  BY <2>1, <2>3 DEF Filled
  <2>5. PICK i \in 1..Len(source[d]) :
           /\ nodes[p].of = source[d][i].name
           /\ nodes[p].children = {TrackName(source[d][i], k) : k \in DOMAIN source[d][i].titles}
    BY <2>4 DEF HasTracks
  <2>6. PICK j \in 1..Len(source[d]) : source[d][j] = e  BY <2>1, <2>2, ChiptuneEntries
  <2>7. i = j
    <3>1. \A k, l \in 1..Len(source[d]) : k # l => source[d][k].name # source[d][l].name
      BY <2>1, <2>2, EntriesTyped
    <3>2. source[d][i].name = source[d][j].name  BY <2>3, <2>5, <2>6
    <3> QED  BY <3>1, <3>2
  <2>8. e \in SourceEntries  BY <2>1, <2>2, <2>6, EntriesTyped
  <2>9. (e.format = "spc" => Len(e.titles) = 1) /\ Len(e.titles) \div Tens[10] < 10
    <3>1. DOMAIN source[d] = 1..Len(source[d])  BY <2>1, <2>2, EntriesTyped
    <3> QED  BY <2>1, <2>2, <2>6, <3>1 DEF IsTree
  <2>10. nodes[p].children = {TrackName(e, k) : k \in DOMAIN e.titles}  BY <2>5, <2>6, <2>7
  <2> QED  BY <2>8, <2>9, <2>10, TrackNamesDiffer
<1> QED  BY <1>1, IInvInvariant, PTL

-----------------------------------------------------------------------------
(* The most common value.                                                  *)

Times(values, i, a) == Cardinality({j \in 1..i : values[j] = a})

Counted(values) == {0} \cup Range(values)

(* What counting starts from and goes through.                             *)
Tallies(values) == [counts : [Counted(values) -> Nat], best : Counted(values)]

(* The first i values are counted, and the best is the most frequent so    *)
(* far and the smallest of equals.                                         *)
Tallied(values, i, acc) ==
    /\ acc \in Tallies(values) /\ acc.counts[0] = 0
    /\ \A a \in Counted(values) : a # 0 => acc.counts[a] = Times(values, i, a)
    /\ \A a \in Counted(values) :
          \/ acc.counts[a] < acc.counts[acc.best]
          \/ acc.counts[a] = acc.counts[acc.best] /\ acc.best <= a

LEMMA TimesNext ==
    ASSUME NEW values, NEW i \in Nat, NEW a
    PROVE  /\ Times(values, i, a) \in Nat
           /\ values[i + 1] = a => Times(values, i + 1, a) = Times(values, i, a) + 1
           /\ values[i + 1] # a => Times(values, i + 1, a) = Times(values, i, a)
           /\ Times(values, 0, a) = 0
<1> DEFINE J(k) == {j \in 1..k : values[j] = a}
<1>1. IsFiniteSet(J(i)) /\ Cardinality(J(i)) \in Nat
  <2>1. IsFiniteSet(1..i)  BY FS_Interval
  <2>2. J(i) \subseteq 1..i  OBVIOUS
  <2> HIDE DEF J
  <2> QED  BY <2>1, <2>2, FS_Subset, FS_CardinalityType
<1>3. Times(values, 0, a) = 0
  <2>1. J(0) = {}  OBVIOUS
  <2> QED  BY <2>1, FS_EmptySet DEF Times
<1>2. CASE values[i + 1] = a
  <2>1. J(i + 1) = J(i) \cup {i + 1} /\ i + 1 \notin J(i)  BY <1>2
  <2> HIDE DEF J
  <2>2. Cardinality(J(i + 1)) = Cardinality(J(i)) + 1  BY <1>1, <2>1, FS_AddElement
  <2> QED  BY <1>1, <1>2, <2>2, <1>3 DEF Times, J
<1>4. CASE values[i + 1] # a
  <2>1. J(i + 1) = J(i)  BY <1>4
  <2> QED  BY <1>1, <1>3, <1>4, <2>1 DEF Times
<1> QED  BY <1>2, <1>4

(* Counting one more value keeps the tally.                                *)
LEMMA CountingTallies ==
    ASSUME NEW values \in Seq(Nat), NEW i \in Nat, i + 1 \in 1..Len(values),
           NEW acc, Tallied(values, i, acc)
    PROVE  Tallied(values, i + 1, Counting(acc, values[i + 1]))
<1> DEFINE v == values[i + 1]
           D == Counted(values)
           c == acc.counts
           b == acc.best
           n(a) == Times(values, i, a)
           m(a) == Times(values, i + 1, a)
<1>1. /\ v \in D /\ D \subseteq Nat /\ 0 \in D /\ b \in D /\ c \in [D -> Nat]
      /\ v \in Nat /\ b \in Nat
  <2>1. DOMAIN values = 1..Len(values) /\ \A j \in 1..Len(values) : values[j] \in Nat
    BY LenProperties, ElementOfSeq
  <2> QED  BY <2>1, SMTT(30) DEF Counted, Range, Tallied, Tallies
<1>2. /\ acc \in Tallies(values) /\ c[0] = 0
      /\ \A a \in D : a # 0 => c[a] = n(a)
      /\ \A a \in D : c[a] < c[b] \/ (c[a] = c[b] /\ b <= a)
  BY DEF Tallied
<1>3. \A a \in D : (v = a => m(a) = n(a) + 1) /\ (v # a => m(a) = n(a))  BY TimesNext
<1> HIDE DEF n, m
<1>4. CASE v = 0
  <2>1. Counting(acc, v) = acc  BY <1>4 DEF Counting
  <2>2. \A a \in D : a # 0 => m(a) = n(a)  BY <1>3, <1>4
  <2> QED  BY <1>2, <2>1, <2>2 DEF Tallied, m
<1>5. CASE v # 0
  <2> DEFINE k == [c EXCEPT ![v] = @ + 1]
             w == IF Better(k, v, b) THEN v ELSE b
             r == Counting(acc, v)
  <2>1. r = [counts |-> k, best |-> w]  BY <1>5 DEF Counting
  <2>2. k \in [D -> Nat] /\ k[v] = c[v] + 1 /\ \A a \in D : a # v => k[a] = c[a]
    BY <1>1, SMTT(30)
  <2> HIDE DEF k, r, D, c, b, v
  <2>3. w \in D  BY <1>1
  <2>4. r.counts = k /\ r.best = w /\ r \in Tallies(values)
    BY <2>1, <2>2, <2>3 DEF Tallies, D
  <2>5. k[0] = 0  BY <1>1, <1>2, <1>5, <2>2
  <2>6. \A a \in D : a # 0 => k[a] = m(a)  BY <1>1, <1>2, <1>3, <2>2
  <2>7. \A a \in D : k[a] < k[w] \/ (k[a] = k[w] /\ w <= a)
    <3> TAKE a \in D
    <3>1. /\ k[a] \in Nat /\ k[v] \in Nat /\ k[b] \in Nat /\ c[a] \in Nat /\ c[b] \in Nat
          /\ c[v] \in Nat /\ a \in Nat
      BY <1>1, <2>2
    <3>2. CASE Better(k, v, b)
      <4>1. w = v /\ (k[v] > k[b] \/ (k[v] = k[b] /\ v < b))  BY <3>2 DEF Better
      <4>2. v # b  BY <1>1, <3>1, <4>1
      <4>3. k[b] = c[b]  BY <1>1, <2>2, <4>2
      <4>4. CASE a = v  BY <4>1, <4>4, <1>1
      <4>5. CASE a # v
        <5>1. k[a] = c[a]  BY <2>2, <4>5
        <5> QED  BY <1>1, <1>2, <3>1, <4>1, <4>3, <5>1
      <4> QED  BY <4>4, <4>5
    <3>3. CASE ~Better(k, v, b)
      <4>1. w = b /\ ~(k[v] > k[b] \/ (k[v] = k[b] /\ v < b))  BY <3>3 DEF Better
      <4>2. k[b] >= c[b]
        <5>1. k[b] = c[b] \/ (v = b /\ k[b] = c[b] + 1)  BY <1>1, <2>2
        <5> QED  BY <3>1, <5>1
      <4>3. CASE a = v  BY <1>1, <3>1, <4>1, <4>3
      <4>4. CASE a # v
        <5>1. k[a] = c[a]  BY <2>2, <4>4
        <5>2. c[a] < c[b] \/ (c[a] = c[b] /\ b <= a)  BY <1>2
        <5>3. k[a] < k[b] \/ (k[a] = k[b] /\ b <= a)  BY <3>1, <4>2, <5>1, <5>2
        <5> QED  BY <4>1, <5>3
      <4> QED  BY <4>3, <4>4
    <3> QED  BY <3>2, <3>3
  <2> HIDE DEF w
  <2> QED  BY <2>4, <2>5, <2>6, <2>7 DEF Tallied, D, m, r, v
<1> QED  BY <1>4, <1>5

LEMMA NoneTallied ==
    ASSUME NEW values \in Seq(Nat)
    PROVE  Tallied(values, 0, NoneCounted(values))
<1> DEFINE D == Counted(values)
           acc == NoneCounted(values)
<1>1. acc = [counts |-> [a \in D |-> 0], best |-> 0]  BY DEF NoneCounted, Counted
<1>2. 0 \in D /\ D \subseteq Nat
  <2>1. DOMAIN values = 1..Len(values) /\ \A j \in 1..Len(values) : values[j] \in Nat
    BY LenProperties, ElementOfSeq
  <2> QED  BY <2>1 DEF Counted, Range
<1>3. \A a \in D : Times(values, 0, a) = 0
  <2>1. 0 \in Nat  OBVIOUS
  <2> QED  BY <2>1, TimesNext
<1> HIDE DEF D, acc
<1>4. acc \in Tallies(values) /\ acc.best = 0 /\ \A a \in D : acc.counts[a] = 0
  BY <1>1, <1>2 DEF Tallies, D
<1> QED  BY <1>2, <1>3, <1>4 DEF Tallied, D, acc

(* The recursion that the fold over values is the chosen solution of.      *)
IsCount(g, values) ==
    g = [s \in SUBSET DOMAIN values |->
            IF s = {} THEN NoneCounted(values)
                      ELSE Counting(g[s \ {Max(s)}], values[Max(s)])]

(* It has a solution, because counting takes tallies to tallies.           *)
LEMMA CountExists ==
    ASSUME NEW values \in Seq(Nat)
    PROVE  \E g : IsCount(g, values)
<1> DEFINE S == 1..Len(values)
           V == Tallies(values)
           c == [s \in SUBSET S |-> Max(s)]
           step == [p \in S \X V |-> Counting(p[2], values[p[1]])]
<1>1. Len(values) \in Nat /\ DOMAIN values = S /\ \A x \in S : values[x] \in Nat
  BY LenProperties, ElementOfSeq
<1>2. IsFiniteSet(S)  BY <1>1, FS_Interval
<1>3. NoneCounted(values) \in V  BY NoneTallied DEF Tallied
<1>4. ASSUME NEW x \in S, NEW acc \in V PROVE Counting(acc, values[x]) \in V
  <2> DEFINE v == values[x]
             D == Counted(values)
             k == [acc.counts EXCEPT ![v] = @ + 1]
  <2>1. v \in D  BY <1>1 DEF Counted, Range
  <2>2. acc.counts \in [D -> Nat] /\ acc.best \in D  BY DEF Tallies
  <2> HIDE DEF v, D
  <2>3. k \in [D -> Nat]  BY <2>1, <2>2
  <2>4. CASE v = 0  BY <2>4 DEF Counting, v
  <2>5. CASE v # 0
    <3>1. Counting(acc, v) = [counts |-> k, best |-> IF Better(k, v, acc.best) THEN v ELSE acc.best]
      BY <2>5 DEF Counting
    <3> HIDE DEF k
    <3> QED  BY <3>1, <2>1, <2>2, <2>3 DEF Tallies, D, v
  <2> QED  BY <2>4, <2>5
<1>5. ASSUME NEW s \in SUBSET S, s # {} PROVE Max(s) \in s
  <2>1. s \in SUBSET Nat /\ \A x \in s : x <= Len(values)  BY <1>1
  <2> QED  BY <1>1, <1>5, <2>1, GreatestNatural
<1>6. \A s \in SUBSET S : c[s] = Max(s)  OBVIOUS
<1>7. \A x \in S, v \in V : step[<<x, v>>] = Counting(v, values[x])  OBVIOUS
<1> HIDE DEF c, step, V, S
<1>8. PICK h \in [SUBSET S -> V] : IsFold(h, S, NoneCounted(values), c, step)
  <2>1. \A s \in SUBSET S : s # {} => c[s] \in s  BY <1>5, <1>6
  <2>2. \A x \in S, v \in V : step[<<x, v>>] \in V  BY <1>4, <1>7
  <2> QED  BY <1>2, <1>3, <2>1, <2>2, FoldExists
<1>9. ASSUME NEW s \in SUBSET S
      PROVE  h[s] = IF s = {} THEN NoneCounted(values)
                              ELSE Counting(h[s \ {Max(s)}], values[Max(s)])
  <2>1. CASE s = {}  BY <2>1, <1>8 DEF IsFold
  <2>2. CASE s # {}
    <3>1. Max(s) \in S /\ s \ {Max(s)} \in SUBSET S  BY <2>2, <1>5
    <3>2. h[s] = step[<<Max(s), h[s \ {Max(s)}]>>] /\ h[s \ {Max(s)}] \in V
      BY <3>1, <2>2, <1>6, <1>8 DEF IsFold
    <3> QED  BY <3>1, <3>2, <2>2, <1>7
  <2> QED  BY <2>1, <2>2
<1>10. h = [s \in SUBSET S |-> h[s]]  BY <1>8
<1>11. IsCount(h, values)  BY <1>1, <1>9, <1>10 DEF IsCount
<1> QED  BY <1>11

(* MostCommon returns the most frequent value that is not zero, of the     *)
(* most frequent ones the smallest, and zero if there is no other.         *)
IsMostCommon(times, best) ==
    \/ best = 0 /\ \A a \in Nat \ {0} : times[a] = 0
    \/ /\ best \in Nat \ {0} /\ times[best] > 0
       /\ \A a \in Nat \ {0} :
             times[a] < times[best] \/ (times[a] = times[best] /\ best <= a)

LEMMA MostCommonIs ==
    ASSUME NEW values \in Seq(Nat)
    PROVE  IsMostCommon([a \in Nat \ {0} |-> Times(values, Len(values), a)], MostCommon(values))
<1> DEFINE n == Len(values)
           g == CHOOSE h : IsCount(h, values)
           acc(i) == g[1..i]
           B == {i \in 0..n : ~Tallied(values, i, acc(i))}
<1>1. n \in Nat /\ DOMAIN values = 1..n /\ \A j \in 1..n : values[j] \in Nat
  BY LenProperties, ElementOfSeq
<1>2. IsCount(g, values)  BY CountExists
<1>3. MostCommon(values) = acc(n).best
  <2>1. MostCommon(values) = g[DOMAIN values].best
    BY DEF MostCommon, FoldLeft, MapThenFoldSet, IsCount
  <2> QED  BY <1>1, <2>1
<1> HIDE DEF g
<1>4. \A s \in SUBSET (1..n) :
         g[s] = IF s = {} THEN NoneCounted(values)
                          ELSE Counting(g[s \ {Max(s)}], values[Max(s)])
  BY <1>1, <1>2 DEF IsCount
<1>5. acc(0) = NoneCounted(values)
  <2>1. 1..0 = {} /\ {} \in SUBSET (1..n)  OBVIOUS
  <2> QED  BY <1>4, <2>1
<1>6. ASSUME NEW i \in Nat, i + 1 \in 1..n PROVE acc(i + 1) = Counting(acc(i), values[i + 1])
  <2> DEFINE s == 1..(i + 1)
  <2>1. s \in SUBSET (1..n) /\ s \in SUBSET Nat /\ s # {} /\ i + 1 \in s /\ i + 1 \in Nat
        /\ \A x \in s : x <= i + 1
    <3>1. i + 1 \in s /\ i + 1 \in Nat /\ i + 1 <= n  BY <1>1, <1>6
    <3>2. \A x \in s : x \in Nat /\ x <= i + 1 /\ x \in 1..n  BY <1>1, <3>1
    <3> HIDE DEF s
    <3> QED  BY <3>1, <3>2
  <2>2. Max(s) = i + 1
    <3>1. Max(s) \in s /\ \A x \in s : x <= Max(s)  BY <2>1, GreatestNatural
    <3>2. Max(s) <= i + 1 /\ i + 1 <= Max(s) /\ Max(s) \in Nat  BY <2>1, <3>1
    <3> QED  BY <3>2
  <2>3. s \ {i + 1} = 1..i  OBVIOUS
  <2> HIDE DEF s
  <2> QED  BY <1>4, <2>1, <2>2, <2>3 DEF s
<1> HIDE DEF acc, n
<1>7. ASSUME B # {} PROVE FALSE
  <2>1. B \in SUBSET Nat  BY <1>1
  <2>2. PICK i \in B : \A k \in B : i <= k  BY <1>7, <2>1, LeastNatural
  <2>3. i \in Nat /\ i <= n /\ ~Tallied(values, i, acc(i))  BY <1>1, <2>2
  <2>4. i # 0  BY <2>3, <1>5, NoneTallied
  <2>5. i - 1 \in Nat /\ (i - 1) + 1 = i /\ i \in 1..n /\ i - 1 \in 0..n  BY <1>1, <2>3, <2>4
  <2>6. i - 1 \notin B  BY <2>2, <2>3, <2>5
  <2>7. Tallied(values, i - 1, acc(i - 1))  BY <2>5, <2>6
  <2>8. acc(i) = Counting(acc(i - 1), values[i])
    <3> DEFINE k == i - 1
    <3>1. k \in Nat /\ k + 1 = i  BY <2>5
    <3> HIDE DEF k
    <3>2. acc(k + 1) = Counting(acc(k), values[k + 1])  BY <3>1, <2>5, <1>6
    <3> QED  BY <3>1, <3>2 DEF k
  <2> DEFINE k == i - 1
  <2>9. k \in Nat /\ k + 1 = i /\ Tallied(values, k, acc(k)) /\ k + 1 \in 1..Len(values)
    BY <2>5, <2>7 DEF n
  <2> HIDE DEF k
  <2>10. Tallied(values, k + 1, Counting(acc(k), values[k + 1]))  BY <2>9, CountingTallies
  <2> QED  BY <2>3, <2>8, <2>9, <2>10 DEF k
<1>8. Tallied(values, n, acc(n))
  <2>1. n \in 0..n  BY <1>1
  <2> QED  BY <1>7, <2>1
<1> DEFINE t == [a \in Nat \ {0} |-> Times(values, n, a)]
           b == acc(n).best
           c == acc(n).counts
           D == Counted(values)
<1>9. /\ b \in D /\ c \in [D -> Nat] /\ c[0] = 0 /\ 0 \in D /\ D \subseteq Nat
      /\ \A a \in D : c[a] < c[b] \/ (c[a] = c[b] /\ b <= a)
  BY <1>1, <1>8 DEF Tallied, Tallies, Counted, Range
<1>10. \A a \in D : a # 0 => t[a] = c[a]  BY <1>8, <1>9 DEF Tallied
<1>11. \A a \in Nat \ {0} : a \notin D => t[a] = 0
  <2> TAKE a \in Nat \ {0}
  <2> HAVE a \notin D
  <2>1. {j \in 1..n : values[j] = a} = {}  BY <1>1 DEF Counted, Range
  <2> QED  BY <2>1, FS_EmptySet DEF Times
<1> HIDE DEF t, b, c, D
<1>12. \A a \in D : c[a] \in Nat /\ a \in Nat  BY <1>9
<1>13. CASE b = 0
  <2>1. \A a \in D : c[a] = 0  BY <1>9, <1>12, <1>13
  <2>2. \A a \in Nat \ {0} : t[a] = 0  BY <1>10, <1>11, <2>1
  <2> QED  BY <1>3, <1>13, <2>2 DEF IsMostCommon, t, b, n
<1>14. CASE b # 0
  <2>1. c[b] > 0 /\ b \in Nat \ {0}  BY <1>9, <1>12, <1>14
  <2>2. t[b] = c[b] /\ t[b] \in Nat  BY <1>9, <1>10, <1>12, <1>14
  <2>3. \A a \in Nat \ {0} : t[a] < t[b] \/ (t[a] = t[b] /\ b <= a)
    <3> TAKE a \in Nat \ {0}
    <3>1. CASE a \in D  BY <3>1, <1>9, <1>10, <2>2
    <3>2. CASE a \notin D  BY <3>2, <1>11, <2>1, <2>2
    <3> QED  BY <3>1, <3>2
  <2>4. IsMostCommon(t, b)  BY <2>1, <2>2, <2>3 DEF IsMostCommon
  <2> QED  BY <1>3, <2>4 DEF t, b, n
<1> QED  BY <1>13, <1>14

-----------------------------------------------------------------------------
(* The artists of an album.                                                *)

(* The entries before the nth that are SPC files which name artist a.      *)
Naming(t, d, n, a) ==
    {i \in 1..Len(t[d]) : i < n /\ IsChip(t[d][i]) /\ t[d][i].format = "spc" /\ t[d][i].artist = a}

(* A call of populate has the artists of the SPC files read so far.        *)
ArtistsRead(t, f) ==
    /\ f.pc = "read" => f.artists = <<>>
    /\ f.pc # "read" => \A a \in Nat \ {0} :
          Times(f.artists, Len(f.artists), a) = Cardinality(Naming(t, f.dir, f.next, a))

AlbumArtistOf(t, d, a) ==
    IsMostCommon([b \in Nat \ {0} |-> Cardinality(Naming(t, d, Len(t[d]) + 1, b))], a)

(* A folder has the album artist of all the SPC files beside it, or none.  *)
Credited(t, d, node) ==
    \E i \in 1..Len(t[d]) :
        /\ IsChip(t[d][i]) /\ node.of = t[d][i].name
        /\ t[d][i].format = "spc" => AlbumArtistOf(t, d, node.albumArtist)
        /\ t[d][i].format # "spc" => node.albumArtist = 0

AllCredited(t, ns) ==
    \A p \in DOMAIN ns : ns[p].kind = "ChipDir" => Credited(t, Front(p), ns[p])

ArtistInv ==
    /\ IInv /\ AllCredited(source, nodes)
    /\ \A k \in 1..Len(stack) : ArtistsRead(source, stack[k])

(* An entry is passed.                                                     *)
AddsArtist(f, g, e) ==
    IF IsChip(e) /\ e.format = "spc" THEN g.artists = Append(f.artists, e.artist)
                                     ELSE g.artists = f.artists

Appends(s, x, r) == s \in Seq(Nat) /\ x \in Nat /\ r = Append(s, x)

LEMMA TimesAppended ==
    ASSUME NEW s, NEW x, NEW r, Appends(s, x, r), NEW a
    PROVE  /\ x = a => Times(r, Len(r), a) = Times(s, Len(s), a) + 1
           /\ x # a => Times(r, Len(r), a) = Times(s, Len(s), a)
<1> DEFINE l == Len(s)
<1>1. l \in Nat /\ Len(r) = l + 1 /\ r[l + 1] = x /\ \A j \in 1..l : r[j] = s[j]
  BY AppendProperties, LenProperties DEF Appends
<1> HIDE DEF l
<1>2. {j \in 1..l : r[j] = a} = {j \in 1..l : s[j] = a}  BY <1>1
<1>3. Times(r, l, a) = Times(s, l, a)  BY <1>2 DEF Times
<1>4. /\ x = a => Times(r, l + 1, a) = Times(r, l, a) + 1
      /\ x # a => Times(r, l + 1, a) = Times(r, l, a)
  BY <1>1, TimesNext
<1> QED  BY <1>1, <1>3, <1>4 DEF l

LEMMA ArtistAdded ==
    ASSUME NEW t, IsTree(t), NEW f \in Frames, NEW g, f.dir \in DOMAIN t, t[f.dir] # Unreadable,
           f.pc = "entries", f.next \in 1..Len(t[f.dir]), ArtistsRead(t, f),
           g.dir = f.dir, g.pc = "entries", g.next = f.next + 1,
           AddsArtist(f, g, t[f.dir][f.next])
    PROVE  ArtistsRead(t, g)
<1> DEFINE d == f.dir
           n == f.next
           e == t[d][n]
           N(k, a) == Naming(t, d, k, a)
           T(h, a) == Times(h.artists, Len(h.artists), a)
<1>1. n \in Nat /\ Len(t[d]) \in Nat /\ f.artists \in Seq(Nat) /\ e.artist \in Nat
  BY EntriesTyped, FrameTyped
<1>2. \A a \in Nat \ {0} : T(f, a) = Cardinality(N(n, a))  BY DEF ArtistsRead
<1>3. SUFFICES ASSUME NEW a \in Nat \ {0} PROVE T(g, a) = Cardinality(N(n + 1, a))
  BY DEF ArtistsRead
<1>4. IsFiniteSet(N(n, a)) /\ Cardinality(N(n, a)) \in Nat
  <2>1. IsFiniteSet(1..Len(t[d])) /\ N(n, a) \subseteq 1..Len(t[d])
    BY <1>1, FS_Interval DEF Naming
  <2> HIDE DEF N
  <2> QED  BY <2>1, FS_Subset, FS_CardinalityType
<1>5. CASE IsChip(e) /\ e.format = "spc" /\ e.artist = a
  <2>1. N(n + 1, a) = N(n, a) \cup {n} /\ n \notin N(n, a)  BY <1>1, <1>5 DEF Naming
  <2>2. T(g, a) = T(f, a) + 1
    <3> DEFINE s == f.artists
               r == g.artists
               x == e.artist
    <3>1. Appends(s, x, r) /\ x = a  BY <1>1, <1>5 DEF AddsArtist, Appends
    <3> HIDE DEF s, r, x
    <3>2. Times(r, Len(r), a) = Times(s, Len(s), a) + 1  BY <3>1, TimesAppended
    <3> QED  BY <3>2 DEF s, r
  <2> HIDE DEF N, T
  <2> QED  BY <1>2, <1>4, <2>1, <2>2, FS_AddElement
<1>6. CASE ~(IsChip(e) /\ e.format = "spc" /\ e.artist = a)
  <2>1. N(n + 1, a) = N(n, a)  BY <1>1, <1>6 DEF Naming
  <2>2. T(g, a) = T(f, a)
    <3>1. CASE IsChip(e) /\ e.format = "spc"
      <4> DEFINE s == f.artists
                 r == g.artists
                 x == e.artist
      <4>1. Appends(s, x, r) /\ x # a  BY <1>1, <1>6, <3>1 DEF AddsArtist, Appends
      <4> HIDE DEF s, r, x
      <4>2. Times(r, Len(r), a) = Times(s, Len(s), a)  BY <4>1, TimesAppended
      <4> QED  BY <4>2 DEF s, r
    <3>2. CASE ~(IsChip(e) /\ e.format = "spc")
      <4>1. g.artists = f.artists  BY <3>2 DEF AddsArtist
      <4> QED  BY <4>1
    <3> QED  BY <3>1, <3>2
  <2> QED  BY <1>2, <2>1, <2>2
<1> QED  BY <1>5, <1>6

LEMMA NoArtists ==
    ASSUME NEW t, NEW g, g.next = 1, g.artists = <<>>
    PROVE  ArtistsRead(t, g)
<1>1. SUFFICES ASSUME NEW a
               PROVE  Times(<<>>, Len(<<>>), a) = Cardinality(Naming(t, g.dir, 1, a))
  BY <1>1 DEF ArtistsRead
<1>2. {j \in 1..Len(<<>>) : <<>>[j] = a} = {}  BY EmptySeq
<1>3. Naming(t, g.dir, 1, a) = {}  BY DEF Naming
<1> QED  BY <1>2, <1>3 DEF Times

(* All SPC files of the directory have been read when the chiptunes begin. *)
LEMMA AlbumArtistRight ==
    ASSUME NEW t, NEW ns, NEW f \in Frames, f.pc = "chips", FrameOK(t, ns, f), ArtistsRead(t, f)
    PROVE  AlbumArtistOf(t, f.dir, MostCommon(f.artists))
<1> DEFINE s == f.artists
           T == [a \in Nat \ {0} |-> Times(s, Len(s), a)]
           N == [b \in Nat \ {0} |-> Cardinality(Naming(t, f.dir, Len(t[f.dir]) + 1, b))]
<1>1. f.next = Len(t[f.dir]) + 1  BY DEF FrameOK
<1>2. T = N  BY <1>1 DEF ArtistsRead
<1>3. IsMostCommon(T, MostCommon(s))  BY FrameTyped, MostCommonIs
<1> QED  BY <1>2, <1>3 DEF AlbumArtistOf

(* What a step must show of the call on top and of the new nodes.          *)
LEMMA TopKeepsArtists ==
    ASSUME ArtistInv, IInv', stack # <<>>, UNCHANGED source, NEW f \in Frames, Becomes(f),
           ArtistsRead(source, f), AllCredited(source, nodes')
    PROVE  ArtistInv'
<1>1. /\ stack' = <<f>> \o Tail(stack) /\ stack \in Seq(Frames)
      /\ \A k \in 1..Len(stack) : ArtistsRead(source, stack[k])
  BY DEF Becomes, ArtistInv, IInv, Inv
<1>2. /\ Len(stack') = Len(stack) /\ stack'[1] = f /\ Len(stack) \in Nat \ {0}
      /\ \A k \in 2..Len(stack) : stack'[k] = stack[k]
  BY <1>1, Replaced
<1>3. \A k \in 1..Len(stack) : k = 1 \/ k \in 2..Len(stack)  BY <1>2
<1>4. \A k \in 1..Len(stack') : ArtistsRead(source, stack'[k])  BY <1>1, <1>2, <1>3
<1>5. source' = source  OBVIOUS
<1> HIDE DEF Becomes
<1> QED  BY <1>4, <1>5 DEF ArtistInv

LEMMA CreditedKept ==
    ASSUME ArtistInv, stack # <<>>, NEW name \in Names, NEW node,
           node.kind \in {"SourceDir", "RealFile", "ChipDir"},
           nodes' = WithChild(Top.dir, name, node),
           node.kind = "ChipDir" => Credited(source, Top.dir, node)
    PROVE  AllCredited(source, nodes')
<1>1. Top.dir \in Paths /\ AllCredited(source, nodes)  BY TopFacts DEF ArtistInv
<1>2. Extends(nodes, nodes', Append(Top.dir, name), node)  BY AddingChild DEF ArtistInv
<1>3. Front(Append(Top.dir, name)) = Top.dir  BY <1>1, PathOfChild
<1> QED  BY <1>1, <1>2, <1>3 DEF AllCredited, Extends

LEMMA EntryKeepsArtists ==
    ASSUME ArtistInv, NEW type, Entry(type), NEW f \in Frames, f.dir = Top.dir, f.pc = Top.pc,
           f.next = Top.next + 1, AddsArtist(Top, f, source[Top.dir][Top.next])
    PROVE  ArtistsRead(source, f)
<1>1. /\ stack # <<>> /\ Top.pc = "entries" /\ source[Top.dir] # Unreadable
      /\ Top.next \in 1..Len(source[Top.dir])
  BY EntryFacts DEF ArtistInv
<1>2. /\ Top \in Frames /\ IsTree(source) /\ Top.dir \in DOMAIN source /\ Top = stack[1]
  BY <1>1, TopFacts DEF ArtistInv
<1>3. ArtistsRead(source, Top)
  <2>1. Len(stack) \in Nat \ {0}
    <3>1. stack \in Seq(Frames)  BY DEF ArtistInv, IInv, Inv
    <3> QED  BY <1>1, <3>1, EmptySeq, LenProperties
  <2> QED  BY <1>2, <2>1 DEF ArtistInv
<1> QED  BY <1>1, <1>2, <1>3, ArtistAdded

LEMMA ArtistsKept ==
    ASSUME ArtistInv, IInv', [Next]_vars
    PROVE  ArtistInv'
<1>1. /\ IInv /\ AllCredited(source, nodes) /\ stack \in Seq(Frames)
      /\ \A k \in 1..Len(stack) : ArtistsRead(source, stack[k])
  BY DEF ArtistInv, IInv, Inv
<1>2. ASSUME stack # <<>>
      PROVE  /\ Top \in Frames /\ ArtistsRead(source, Top) /\ Len(stack) \in Nat \ {0}
             /\ FrameOK(source, nodes, Top) /\ Top.dir \in DOMAIN source /\ IsTree(source)
             /\ Top.dir \in Paths
  <2>1. Top = stack[1] /\ Top \in Frames /\ FrameOK(source, nodes, Top)
        /\ Top.dir \in DOMAIN source /\ IsTree(source) /\ Top.dir \in Paths
    BY <1>1, <1>2, TopFacts
  <2>2. Len(stack) \in Nat \ {0}  BY <1>1, <1>2, Popped
  <2> QED  BY <1>1, <2>1, <2>2
<1>3. CASE UNCHANGED vars  BY <1>1, <1>3 DEF vars, ArtistInv
<1>4. ASSUME stack # <<>>, stack' = Tail(stack), UNCHANGED <<source, nodes>> PROVE ArtistInv'
  <2>1. \A k \in 1..Len(stack') : stack'[k] = stack[k + 1] /\ k + 1 \in 1..Len(stack)
    <3>1. /\ Len(Tail(stack)) = Len(stack) - 1 /\ Len(stack) \in Nat
          /\ \A k \in 1..Len(Tail(stack)) : Tail(stack)[k] = stack[k + 1]
      BY <1>1, <1>4, Popped
    <3>2. \A k \in 1..(Len(stack) - 1) : k + 1 \in 1..Len(stack)  BY <3>1
    <3> QED  BY <1>4, <3>1, <3>2
  <2>2. \A k \in 1..Len(stack') : ArtistsRead(source, stack'[k])  BY <1>1, <2>1
  <2> QED  BY <1>1, <1>4, <2>2 DEF ArtistInv
<1>5. CASE ReadDir
  <2>1. stack # <<>> /\ Top.pc = "read" /\ UNCHANGED <<source, nodes>>
    BY <1>5 DEF ReadDir, Running
  <2>2. CASE Entries = Unreadable
    <3>1. stack' = Tail(stack)  BY <1>5, <2>2 DEF ReadDir
    <3> QED  BY <1>4, <2>1, <3>1
  <2>3. CASE Entries # Unreadable
    <3> DEFINE f == [Top EXCEPT !.pc = "entries"]
    <3>1. Becomes(f)  BY <1>5, <2>3 DEF ReadDir
    <3>2. f \in Frames /\ f.next = Top.next /\ f.artists = Top.artists
      BY <1>2, <2>1 DEF Frames
    <3>3. Top.next = 1 /\ Top.artists = <<>>
      BY <1>2, <2>1 DEF FrameOK, ArtistsRead
    <3> HIDE DEF f
    <3>4. ArtistsRead(source, f)  BY <3>2, <3>3, NoArtists
    <3>5. UNCHANGED source /\ AllCredited(source, nodes')  BY <1>1, <2>1
    <3> QED  BY <2>1, <3>1, <3>2, <3>4, <3>5, TopKeepsArtists
  <2> QED  BY <2>2, <2>3
<1>6. CASE Directory
  <2> DEFINE name == source[Top.dir][Top.next].name
             c == Call(Append(Top.dir, name))
  <2>1. /\ Entry("dir") /\ UNCHANGED source /\ nodes' = WithChild(Top.dir, name, Dir)
        /\ stack' = <<c, PastEntry>> \o Tail(stack)
    BY <1>6 DEF Directory, Entries
  <2>2. /\ stack # <<>> /\ name \in Names /\ source[Top.dir][Top.next].type = "dir"
    BY <1>1, <2>1, EntryFacts
  <2>3. AllCredited(source, nodes')
    <3>1. Dir.kind = "SourceDir"  BY DEF Dir
    <3> QED  BY <2>1, <2>2, <3>1, CreditedKept
  <2>4. /\ PastEntry \in Frames /\ PastEntry.dir = Top.dir /\ PastEntry.pc = Top.pc
        /\ PastEntry.next = Top.next + 1 /\ PastEntry.artists = Top.artists
    BY <1>2, <2>2, PastEntryTyped
  <2>5. ArtistsRead(source, PastEntry)
    <3>1. AddsArtist(Top, PastEntry, source[Top.dir][Top.next])
      BY <2>2, <2>4 DEF AddsArtist, IsChip
    <3> QED  BY <2>1, <2>4, <3>1, EntryKeepsArtists
  <2>6. c \in Frames /\ c.next = 1 /\ c.artists = <<>>
    <3>1. Append(Top.dir, name) \in Paths  BY <1>2, <2>2, PathOfChild
    <3> QED  BY <3>1, CallTyped DEF Call
  <2> HIDE DEF c
  <2>7. ArtistsRead(source, c)  BY <2>6, NoArtists
  <2>8. /\ Len(stack') = Len(stack) + 1 /\ stack'[1] = c /\ stack'[2] = PastEntry
        /\ \A k \in 3..Len(stack') : stack'[k] = stack[k - 1]
    BY <1>1, <2>1, <2>2, <2>4, <2>6, Pushed
  <2>9. \A k \in 1..(Len(stack) + 1) :
           k = 1 \/ k = 2 \/ (k \in 3..(Len(stack) + 1) /\ k - 1 \in 1..Len(stack))
    BY <1>2, <2>2
  <2>10. \A k \in 1..Len(stack') : ArtistsRead(source, stack'[k])
    BY <1>1, <2>5, <2>7, <2>8, <2>9
  <2> QED  BY <2>1, <2>3, <2>10 DEF ArtistInv
<1>7. CASE Irregular
  <2>1. Entry("other") /\ Becomes(PastEntry) /\ UNCHANGED <<source, nodes>>
    BY <1>7 DEF Irregular
  <2>2. stack # <<>> /\ source[Top.dir][Top.next].type = "other"
    BY <1>1, <2>1, EntryFacts
  <2>3. /\ PastEntry \in Frames /\ PastEntry.dir = Top.dir /\ PastEntry.pc = Top.pc
        /\ PastEntry.next = Top.next + 1 /\ PastEntry.artists = Top.artists
    BY <1>2, <2>2, PastEntryTyped
  <2>4. ArtistsRead(source, PastEntry)
    <3>1. AddsArtist(Top, PastEntry, source[Top.dir][Top.next])
      BY <2>2, <2>3 DEF AddsArtist, IsChip
    <3> QED  BY <2>1, <2>3, <3>1, EntryKeepsArtists
  <2>5. UNCHANGED source /\ AllCredited(source, nodes')  BY <1>1, <2>1
  <2> QED  BY <2>1, <2>2, <2>3, <2>4, <2>5, TopKeepsArtists
<1>8. CASE RegularFile
  <2> DEFINE e == source[Top.dir][Top.next]
             g == [PastEntry EXCEPT !.pending = Append(@, e),
                                    !.artists = IF e.format = "spc" THEN Append(@, e.artist) ELSE @]
             f == IF e.format = "none" THEN PastEntry ELSE g
  <2>1. /\ Entry("regular") /\ UNCHANGED source /\ nodes' = WithChild(Top.dir, e.name, File)
        /\ Becomes(f)
    BY <1>8 DEF RegularFile, Entries
  <2>2. stack # <<>> /\ e.type = "regular" /\ e.name \in Names /\ e \in SourceEntries
    BY <1>1, <2>1, EntryFacts
  <2>3. /\ PastEntry \in Frames /\ PastEntry.dir = Top.dir /\ PastEntry.pc = Top.pc
        /\ PastEntry.next = Top.next + 1 /\ PastEntry.artists = Top.artists
        /\ PastEntry.pending = Top.pending
    BY <1>2, <2>2, PastEntryTyped
  <2>4. AllCredited(source, nodes')
    <3>1. File.kind = "RealFile"  BY DEF File
    <3> QED  BY <2>1, <2>2, <3>1, CreditedKept
  <2>5. e.artist \in Nat  BY <2>2 DEF SourceEntries
  <2> HIDE DEF e
  <2>6. /\ g \in Frames /\ g.dir = Top.dir /\ g.pc = Top.pc /\ g.next = Top.next + 1
        /\ g.artists = IF e.format = "spc" THEN Append(Top.artists, e.artist) ELSE Top.artists
    <3>1. Append(PastEntry.pending, e) \in Seq(SourceEntries)
      <4>1. PastEntry.pending \in Seq(SourceEntries)  BY <2>3, FrameTyped
      <4> QED  BY <2>2, <4>1, AppendProperties
    <3>2. Append(PastEntry.artists, e.artist) \in Seq(Nat)
      <4>1. PastEntry.artists \in Seq(Nat)  BY <2>3, FrameTyped
      <4> QED  BY <2>5, <4>1, AppendProperties
    <3> QED  BY <2>3, <3>1, <3>2 DEF Frames
  <2> HIDE DEF g
  <2>7. /\ f \in Frames /\ f.dir = Top.dir /\ f.pc = Top.pc /\ f.next = Top.next + 1
        /\ AddsArtist(Top, f, e)
    BY <2>2, <2>3, <2>6 DEF AddsArtist, IsChip
  <2> HIDE DEF f
  <2>8. ArtistsRead(source, f)  BY <2>1, <2>7, EntryKeepsArtists DEF e
  <2> QED  BY <2>1, <2>2, <2>4, <2>7, <2>8, TopKeepsArtists
<1>9. CASE EndOfEntries
  <2> DEFINE f == [Top EXCEPT !.pc = "chips"]
  <2>1. stack # <<>> /\ Top.pc = "entries" /\ Becomes(f) /\ UNCHANGED <<source, nodes>>
    BY <1>9 DEF EndOfEntries, Running
  <2>2. f \in Frames /\ f.dir = Top.dir /\ f.pc = "chips" /\ f.next = Top.next
        /\ f.artists = Top.artists
    BY <1>2, <2>1 DEF Frames
  <2> HIDE DEF f
  <2>3. ArtistsRead(source, f)  BY <1>2, <2>1, <2>2 DEF ArtistsRead
  <2>4. UNCHANGED source /\ AllCredited(source, nodes')  BY <1>1, <2>1
  <2> QED  BY <2>1, <2>2, <2>3, <2>4, TopKeepsArtists
<1>10. CASE AddChip
  <2> DEFINE f == [Top EXCEPT !.pending = Tail(@)]
             d == Top.dir
             e == Head(Top.pending)
             name == FolderName(d, e.name)
             node == Chip(e, MostCommon(Top.artists))
  <2>1. /\ stack # <<>> /\ Top.pc = "chips" /\ Top.pending # <<>>
        /\ nodes' = WithChild(d, name, node) /\ Becomes(f) /\ UNCHANGED source
    BY <1>10 DEF AddChip, Running
  <2>2. Top.pending \in Seq(SourceEntries)  BY <1>2, <2>1, FrameTyped
  <2>3. f \in Frames /\ f.dir = d /\ f.pc = "chips" /\ f.next = Top.next
        /\ f.artists = Top.artists
    <3>1. Tail(Top.pending) \in Seq(SourceEntries)  BY <2>1, <2>2, HeadRemoved
    <3> QED  BY <1>2, <2>1, <3>1 DEF Frames
  <2> HIDE DEF f
  <2>4. ArtistsRead(source, f)  BY <1>2, <2>1, <2>3 DEF ArtistsRead
  <2>5. PICK m \in 1..Len(source[d]) : IsChip(source[d][m]) /\ e = source[d][m]
    <3>1. PendingRead(source, Top)  BY <1>2, <2>1 DEF FrameOK
    <3>2. Len(Top.pending) \in Nat \ {0} /\ e = Top.pending[1]  BY <2>1, <2>2, HeadRemoved
    <3> QED  BY <3>1, <3>2 DEF PendingRead
  <2>6. name \in Names
    <3>1. Stem[e.name] \in Names /\ Fallback[e.name] \in Names
      <4>1. source[d] # Unreadable  BY <1>2, <2>1 DEF FrameOK
      <4> QED  BY <1>2, <2>1, <2>5, <4>1, EntriesTyped DEF IsChip
    <3> QED  BY <3>1 DEF FolderName
  <2>7. Credited(source, d, node)
    <3> DEFINE a == MostCommon(Top.artists)
    <3>1. AlbumArtistOf(source, d, a)  BY <1>2, <2>1, AlbumArtistRight
    <3> HIDE DEF a
    <3>2. /\ node.of = e.name
          /\ e.format = "spc" => node.albumArtist = a
          /\ e.format # "spc" => node.albumArtist = 0
      BY DEF Chip, a
    <3> QED  BY <2>5, <3>1, <3>2 DEF Credited
  <2>8. node.kind = "ChipDir"  BY DEF Chip
  <2> HIDE DEF node, name
  <2>9. AllCredited(source, nodes')  BY <2>1, <2>6, <2>7, <2>8, CreditedKept
  <2> QED  BY <2>1, <2>3, <2>4, <2>9, TopKeepsArtists
<1>11. CASE Return
  <2>1. stack # <<>> /\ stack' = Tail(stack) /\ UNCHANGED <<source, nodes>>
    BY <1>11 DEF Return, Running
  <2> QED  BY <1>4, <2>1
<1> QED  BY <1>3, <1>5, <1>6, <1>7, <1>8, <1>9, <1>10, <1>11 DEF Next

(* ArtistInv is an inductive invariant of the scan.                        *)
THEOREM ArtistInvInvariant == Spec => []ArtistInv
<1>1. Init => ArtistInv
  <2> SUFFICES ASSUME Init PROVE ArtistInv  OBVIOUS
  <2>1. IInv  BY InitIInv
  <2>2. AllCredited(source, nodes)
    <3> DEFINE root == <<>>
    <3>1. \A p \in DOMAIN nodes : nodes[p] = Dir  BY DEF Init
    <3> QED  BY <3>1 DEF AllCredited, Dir
  <2>3. ASSUME NEW k \in 1..Len(stack) PROVE ArtistsRead(source, stack[k])
    <3> DEFINE c == Call(<<>>)
    <3>1. c.next = 1 /\ c.artists = <<>>  BY DEF Call
    <3>2. stack = <<c>>  BY DEF Init
    <3> HIDE DEF c
    <3>3. stack[k] = c  BY <2>3, <3>2
    <3> QED  BY <3>1, <3>3, NoArtists
  <2> QED  BY <2>1, <2>2, <2>3 DEF ArtistInv
<1>2. ArtistInv /\ IInv' /\ [Next]_vars => ArtistInv'  BY ArtistsKept
<1> QED  BY <1>1, <1>2, IInvInvariant, PTL DEF Spec

(* The SPC files that name an artist, counted as the property does.        *)
LEMMA AlbumArtistAsStated ==
    ASSUME NEW d \in DOMAIN source, IsTree(source), source[d] # Unreadable,
           NEW x, AlbumArtistOf(source, d, x)
    PROVE  LET named    == {i \in DOMAIN source[d] :
                               source[d][i] \in Chiptunes(d) /\ source[d][i].format = "spc"
                               /\ source[d][i].artist # 0}
               times(a) == Cardinality({i \in named : source[d][i].artist = a})
               artists  == {source[d][i].artist : i \in named}
               most     == {a \in artists : \A b \in artists : times(b) <= times(a)}
           IN  IF named = {} THEN x = 0 ELSE x \in most /\ \A b \in most : x <= b
<1> DEFINE s == source[d]
           named == {i \in DOMAIN s : s[i] \in Chiptunes(d) /\ s[i].format = "spc" /\ s[i].artist # 0}
           of(a) == {i \in named : s[i].artist = a}
           artists == {s[i].artist : i \in named}
           N == [a \in Nat \ {0} |-> Cardinality(Naming(source, d, Len(s) + 1, a))]
<1>1. /\ Len(s) \in Nat /\ DOMAIN s = 1..Len(s) /\ \A i \in 1..Len(s) : s[i].artist \in Nat
  BY EntriesTyped
<1>2. \A i \in 1..Len(s) : s[i] \in Chiptunes(d) <=> IsChip(s[i])
  BY <1>1 DEF Chiptunes, Range, IsChip
<1>3. ASSUME NEW a \in Nat \ {0} PROVE Naming(source, d, Len(s) + 1, a) = of(a)
  <2>1. \A i \in 1..Len(s) : i < Len(s) + 1  BY <1>1
  <2>2. \A i : i \in Naming(source, d, Len(s) + 1, a) <=> i \in of(a)
    BY <1>1, <1>2, <2>1 DEF Naming
  <2> HIDE DEF of
  <2> QED  BY <2>2
<1>4. \A a : IsFiniteSet(of(a)) /\ Cardinality(of(a)) \in Nat
             /\ (Cardinality(of(a)) = 0 <=> of(a) = {})
  <2> TAKE a
  <2>1. IsFiniteSet(1..Len(s)) /\ of(a) \subseteq 1..Len(s)  BY <1>1, FS_Interval
  <2> HIDE DEF of
  <2> QED  BY <2>1, FS_Subset, FS_CardinalityType, FS_EmptySet
<1>5. \A a \in Nat \ {0} : N[a] = Cardinality(of(a))  BY <1>3
<1>6. \A a \in artists : a \in Nat \ {0} /\ of(a) # {}  BY <1>1
<1>7. \A a : of(a) # {} => a \in artists /\ named # {}  OBVIOUS
<1>8. named # {} => \E a : a \in artists  OBVIOUS
<1>9. IsMostCommon(N, x)  BY DEF AlbumArtistOf
<1> DEFINE most == {a \in artists : \A b \in artists : Cardinality(of(b)) <= Cardinality(of(a))}
<1>10. \A a : a \in most
          <=> a \in artists /\ \A b \in artists : Cardinality(of(b)) <= Cardinality(of(a))
  OBVIOUS
<1> DEFINE Right == IF named = {} THEN x = 0 ELSE x \in most /\ \A b \in most : x <= b
<1>11. Right
  <2> HIDE DEF N, of, artists, named, most
  <2>1. CASE x = 0 /\ \A a \in Nat \ {0} : N[a] = 0
    <3>1. named = {}  BY <2>1, <1>4, <1>5, <1>6, <1>8
    <3> QED  BY <2>1, <3>1
  <2>2. CASE /\ x \in Nat \ {0} /\ N[x] > 0
             /\ \A a \in Nat \ {0} : N[a] < N[x] \/ (N[a] = N[x] /\ x <= a)
    <3>1. of(x) # {}
      <4>1. Cardinality(of(x)) # 0  BY <2>2, <1>4, <1>5
      <4> QED  BY <4>1, <1>4
    <3>2. x \in artists /\ named # {}  BY <3>1, <1>7
    <3>3. \A a \in artists : Cardinality(of(a)) < Cardinality(of(x))
                             \/ (Cardinality(of(a)) = Cardinality(of(x)) /\ x <= a)
      BY <2>2, <1>5, <1>6
    <3>4. x \in most
      <4>1. \A b \in artists : Cardinality(of(b)) <= Cardinality(of(x))  BY <3>3, <1>4
      <4> QED  BY <1>10, <3>2, <4>1
    <3>5. ASSUME NEW b \in most PROVE x <= b
      <4>1. b \in artists /\ Cardinality(of(x)) <= Cardinality(of(b))  BY <3>5, <1>10, <3>2
      <4> QED  BY <4>1, <3>3, <1>4
    <3> QED  BY <3>2, <3>4, <3>5
  <2> QED  BY <1>9, <2>1, <2>2 DEF IsMostCommon
<1> QED  BY <1>11

(* SPC files of one folder make one album, whose artist is the one that    *)
(* most of them name, and of several the first in lexicographic order.     *)
THEOREM AlbumsNotSplit == Spec => []OneAlbumArtist
<1>1. ArtistInv => OneAlbumArtist
  <2> SUFFICES ASSUME ArtistInv, Mounted, NEW d \in DirsRead, NEW e \in Chiptunes(d),
                      NEW p \in FoldersOf(d, e)
               PROVE  LET named    == {i \in DOMAIN source[d] :
                                          source[d][i] \in Chiptunes(d) /\ source[d][i].format = "spc"
                                          /\ source[d][i].artist # 0}
                          times(a) == Cardinality({i \in named : source[d][i].artist = a})
                          artists  == {source[d][i].artist : i \in named}
                          most     == {a \in artists : \A b \in artists : times(b) <= times(a)}
                          right(a) == IF named = {} THEN a = 0 ELSE a \in most /\ \A b \in most : a <= b
                      IN  IF e.format = "spc" THEN right(nodes[p].albumArtist)
                                              ELSE nodes[p].albumArtist = 0
    BY DEF OneAlbumArtist
  <2>1. IsTree(source) /\ AllCredited(source, nodes)  BY TreesAssumption DEF ArtistInv, IInv, Inv
  <2>2. d \in DOMAIN source /\ source[d] # Unreadable  BY DEF DirsRead
  <2>3. /\ p \in DOMAIN nodes /\ Front(p) = d /\ nodes[p].kind = "ChipDir"
        /\ nodes[p].of = e.name
    BY DEF FoldersOf, FoldersIn
  <2>4. PICK i \in 1..Len(source[d]) :
           /\ nodes[p].of = source[d][i].name
           /\ source[d][i].format = "spc" => AlbumArtistOf(source, d, nodes[p].albumArtist)
           /\ source[d][i].format # "spc" => nodes[p].albumArtist = 0
    BY <2>1, <2>3 DEF AllCredited, Credited
  <2>5. PICK j \in 1..Len(source[d]) : source[d][j] = e  BY <2>1, <2>2, ChiptuneEntries
  <2>6. i = j
    <3>1. \A k, l \in 1..Len(source[d]) : k # l => source[d][k].name # source[d][l].name
      BY <2>1, <2>2, EntriesTyped
    <3>2. source[d][i].name = source[d][j].name  BY <2>3, <2>4, <2>5
    <3> QED  BY <3>1, <3>2
  <2>7. CASE e.format = "spc"
    <3>1. AlbumArtistOf(source, d, nodes[p].albumArtist)  BY <2>4, <2>5, <2>6, <2>7
    <3> QED  BY <2>1, <2>2, <2>7, <3>1, AlbumArtistAsStated
  <2>8. CASE e.format # "spc"
    <3>1. nodes[p].albumArtist = 0  BY <2>4, <2>5, <2>6, <2>8
    <3> QED  BY <2>8, <3>1
  <2> QED  BY <2>7, <2>8
<1> QED  BY <1>1, ArtistInvInvariant, PTL

=============================================================================
