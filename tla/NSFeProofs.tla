----------------------------- MODULE NSFeProofs -----------------------------
(***************************************************************************)
(* That the parser keeps its types on every file, and that an NSFe file    *)
(* which begins with its only INFO chunk leaves no data of tracks beyond   *)
(* the number that INFO gives, or only durations when that is zero.        *)
(***************************************************************************)
EXTENDS NSFe, SequenceTheorems, TLAPS

-----------------------------------------------------------------------------
(* The helpers.                                                            *)

LEMMA FunctionIsSequence ==
    ASSUME NEW S, NEW n \in Nat, NEW f \in [1..n -> S]
    PROVE  f \in Seq(S) /\ Len(f) = n
<1>1. f \in Seq(S)  BY SeqDef
<1> QED  BY <1>1, LenProperties

LEMMA ByteIsNat == \A b \in Byte : b \in Nat
BY DEF Byte

LEMMA UpToLength ==
    ASSUME NEW S, NEW values \in Seq(S), NEW n \in Nat
    PROVE  /\ UpTo(values, n) \in Seq(S)
           /\ Len(UpTo(values, n)) <= n
           /\ Len(UpTo(values, n)) <= Len(values)
<1> DEFINE m == IF n < Len(values) THEN n ELSE Len(values)
<1>1. m \in 0..Len(values) /\ m <= n  OBVIOUS
<1>2. UpTo(values, n) = SubSeq(values, 1, m)  BY DEF UpTo
<1>3. \A i \in 1..m : values[i] \in S  BY <1>1
<1>4. SubSeq(values, 1, m) = [i \in 1..m |-> values[i]]
  BY <1>1
<1>5. [i \in 1..m |-> values[i]] \in Seq(S) /\ Len([i \in 1..m |-> values[i]]) = m
  BY <1>1, <1>3
<1> QED  BY <1>1, <1>2, <1>4, <1>5

LEMMA BlankType == Blank \in TrackInfos
BY TitleAssumption DEF Blank, TrackInfos

LEMMA TrackAtType ==
    ASSUME tracks \in Seq(TrackInfos), NEW i \in Nat \ {0}
    PROVE  TrackAt(i) \in TrackInfos
<1>1. i <= Len(tracks) => i \in 1..Len(tracks)  OBVIOUS
<1> QED  BY <1>1, BlankType DEF TrackAt

(* A chunk about tracks makes no more of them than it has values.          *)
LEMMA ApplyLength ==
    ASSUME tracks \in Seq(TrackInfos), NEW n \in Nat, NEW new \in [1..n -> TrackInfos],
           Apply(new)
    PROVE  /\ tracks' \in Seq(TrackInfos)
           /\ Len(tracks') = IF n <= Len(tracks) THEN Len(tracks) ELSE n
<1> DEFINE rest == SubSeq(tracks, n + 1, Len(tracks))
<1>1. new \in Seq(TrackInfos) /\ Len(new) = n  BY FunctionIsSequence
<1>2. rest \in Seq(TrackInfos) /\ Len(rest) = IF n + 1 <= Len(tracks) THEN Len(tracks) - n ELSE 0
  BY SubSeqProperties
<1>3. tracks' = new \o rest  BY <1>1 DEF Apply
<1> HIDE DEF rest
<1>4. tracks' \in Seq(TrackInfos) /\ Len(tracks') = Len(new) + Len(rest)
  BY <1>1, <1>2, <1>3, ConcatProperties
<1> QED  BY <1>1, <1>2, <1>4

(* What a chunk leaves of the track at t: what it has for it, or what was  *)
(* there.                                                                  *)
LEMMA ApplyTrackAt ==
    ASSUME tracks \in Seq(TrackInfos), NEW n \in Nat, NEW new \in [1..n -> TrackInfos],
           Apply(new), NEW t \in Nat \ {0}
    PROVE  TrackAt(t)' = IF t <= n THEN new[t] ELSE TrackAt(t)
<1> DEFINE rest == SubSeq(tracks, n + 1, Len(tracks))
<1>1. new \in Seq(TrackInfos) /\ Len(new) = n  BY FunctionIsSequence
<1>2. /\ rest \in Seq(TrackInfos) /\ Len(tracks) \in Nat
      /\ Len(rest) = IF n + 1 <= Len(tracks) THEN Len(tracks) - n ELSE 0
      /\ \A i \in 1..Len(rest) : rest[i] = tracks[n + i]
  <2>1. \A i \in (n + 1)..Len(tracks) : tracks[i] \in TrackInfos  OBVIOUS
  <2>2. /\ rest \in Seq(TrackInfos)
        /\ Len(rest) = IF n + 1 <= Len(tracks) THEN Len(tracks) - (n + 1) + 1 ELSE 0
        /\ \A i \in 1..(Len(tracks) - (n + 1) + 1) : rest[i] = tracks[(n + 1) + i - 1]
    BY <2>1, SubSeqProperties
  <2> HIDE DEF rest
  <2>3. \A i \in 1..Len(rest) : /\ i \in 1..(Len(tracks) - (n + 1) + 1)
                                /\ (n + 1) + i - 1 = n + i
    BY <2>2
  <2> QED  BY <2>2, <2>3
<1>3. tracks' = new \o rest  BY <1>1 DEF Apply
<1> HIDE DEF rest
<1>4. /\ Len(tracks') = n + Len(rest)
      /\ \A i \in 1..(n + Len(rest)) : tracks'[i] = IF i <= n THEN new[i] ELSE rest[i - n]
  BY <1>1, <1>2, <1>3, ConcatProperties, ZenonT(30)
<1>5. CASE t <= n
  BY <1>1, <1>2, <1>4, <1>5 DEF TrackAt
<1>6. CASE t > n /\ t <= Len(tracks)
  <2>1. Len(rest) = Len(tracks) - n /\ t - n \in 1..Len(rest) /\ n + (t - n) = t
    BY <1>2, <1>6
  <2>2. tracks'[t] = rest[t - n] /\ t <= Len(tracks')  BY <1>4, <1>6, <2>1
  <2>3. rest[t - n] = tracks[t]  BY <1>2, <2>1
  <2> QED  BY <1>6, <2>2, <2>3 DEF TrackAt
<1>7. CASE t > n /\ t > Len(tracks)
  <2>1. t > Len(tracks')  BY <1>2, <1>4, <1>7
  <2> QED  BY <1>7, <2>1 DEF TrackAt
<1> QED  BY <1>5, <1>6, <1>7

LEMMA RemappedLength ==
    ASSUME NEW ts \in Seq(TrackInfos), NEW playlist \in Seq(Byte)
    PROVE  /\ Remapped(ts, playlist) \in Seq(TrackInfos)
           /\ Len(Remapped(ts, playlist)) = Len(playlist)
<1>1. \A slot \in 1..Len(playlist) :
          (IF playlist[slot] < Len(ts) THEN ts[playlist[slot] + 1] ELSE Blank) \in TrackInfos
  <2> SUFFICES ASSUME NEW slot \in 1..Len(playlist), playlist[slot] < Len(ts)
               PROVE  ts[playlist[slot] + 1] \in TrackInfos
    BY BlankType
  <2>1. playlist[slot] \in Byte  BY ElementOfSeq
  <2>2. playlist[slot] \in Nat  BY <2>1, ByteIsNat
  <2>3. playlist[slot] + 1 \in 1..Len(ts)  BY <2>2
  <2> QED  BY <2>3
<1>2. Remapped(ts, playlist) \in [1..Len(playlist) -> TrackInfos]
  BY <1>1 DEF Remapped
<1> QED  BY <1>2, FunctionIsSequence

-----------------------------------------------------------------------------
(* In a file that begins with INFO there are no tracks before it, and from *)
(* then on none beyond the count but those without titles.                 *)

IInv ==
    /\ TypeOK
    /\ file \in Files
    /\ BeyondTheCount
    /\ pc \in {"read", "chunks"} /\ pos = 1 => tracks = <<>> /\ trackCount = 0
    /\ pc = "read" => pos = 1

(* The body of a chunk that is read.                                       *)
LEMMA BodyType ==
    ASSUME IInv, NEW ids, Chunk(ids)
    PROVE  /\ file.chunks[pos] \in Chunks /\ file.chunks[pos].id \in ids
           /\ pos \in 1..Len(file.chunks)
           /\ InfoFirst => (file.chunks[pos].id = "INFO" <=> pos = 1)
<1>1. file.chunks \in Seq(Chunks)
  BY FilesAssumption DEF IInv
<1>2. pos \in 1..Len(file.chunks)
  BY <1>1 DEF IInv, TypeOK, Chunk
<1> QED  BY <1>1, <1>2 DEF Chunk, InfoFirst

LEMMA InitIInv == Init => IInv
<1> SUFFICES ASSUME Init PROVE IInv  OBVIOUS
<1>1. file.chunks \in Seq(Chunks)  BY FilesAssumption DEF Init
<1>2. pos \in 1..(Len(file.chunks) + 1)  BY <1>1 DEF Init
<1>3. tracks \in Seq(TrackInfos) /\ plst \in Seq(Byte)  BY DEF Init
<1>4. TypeOK  BY <1>2, <1>3 DEF Init, TypeOK
<1> QED  BY <1>4 DEF Init, IInv, BeyondTheCount

LEMMA ReadStep == IInv /\ (Read \/ ReadGBS) => IInv'
<1> SUFFICES ASSUME IInv, Read \/ ReadGBS PROVE IInv'  OBVIOUS
<1>1. file.count \in Nat
  <2>1. file.count \in Byte  BY FilesAssumption DEF IInv
  <2> QED  BY <2>1, ByteIsNat
<1>2. tracks = <<>> /\ pos = 1 /\ trackCount = 0  BY DEF IInv, Read, ReadGBS
<1>3. TypeOK'  BY <1>1 DEF IInv, TypeOK, Read, ReadGBS, Goto, Reject
<1>4. BeyondTheCount'  BY <1>1, <1>2 DEF Read, ReadGBS, BeyondTheCount, InfoFirst
<1>5. (pc \in {"read", "chunks"} /\ pos = 1 => tracks = <<>> /\ trackCount = 0)'
  BY <1>2 DEF Read, ReadGBS, Goto, Reject
<1>6. (pc = "read" => pos = 1)'  BY <1>2 DEF Read, ReadGBS
<1> QED  BY <1>3, <1>4, <1>5, <1>6 DEF IInv, Read, ReadGBS

LEMMA InfoStep == IInv /\ Info => IInv'
<1> SUFFICES ASSUME IInv, Info PROVE IInv'  OBVIOUS
<1>1. /\ file.chunks[pos] \in Chunks /\ file.chunks[pos].id = "INFO"
      /\ pos \in 1..Len(file.chunks) /\ (InfoFirst => pos = 1)
  BY BodyType DEF Info
<1>2. Body \in Seq(Byte) /\ Body # <<>>  BY <1>1 DEF Chunks, Body, Info
<1>3. Body[1] \in Nat
  <2>1. 1 \in 1..Len(Body)  BY <1>2
  <2>2. Body[1] \in Byte  BY <1>2, <2>1, ElementOfSeq
  <2> QED  BY <2>2, ByteIsNat
<1>4. TypeOK'  BY <1>1, <1>3 DEF IInv, TypeOK, Info, Chunk
<1>5. BeyondTheCount'
  BY <1>1, <1>3 DEF IInv, BeyondTheCount, InfoFirst, Info, Chunk
<1> QED  BY <1>1, <1>4, <1>5 DEF IInv, TypeOK, Info, Chunk

(* Beyond a count of zero no track has a title.                            *)
LEMMA UntitledBeyondZero ==
    ASSUME IInv, InfoFirst, trackCount = 0, NEW i \in Nat \ {0}
    PROVE  TrackAt(i).title = NoTitle
<1>1. tracks \in Seq(TrackInfos)  BY DEF IInv, TypeOK
<1>2. CASE i <= Len(tracks)
  <2>1. i \in DOMAIN tracks /\ i > trackCount  BY <1>1, <1>2
  <2> QED  BY <1>2, <2>1 DEF IInv, BeyondTheCount, TrackAt
<1>3. CASE i > Len(tracks)
  <2>1. ~(i <= Len(tracks))  BY <1>1, <1>3
  <2> QED  BY <2>1 DEF TrackAt, Blank
<1> QED  BY <1>1, <1>2, <1>3

(* Chunks about tracks that stop at the number of tracks, or at the number *)
(* zero leave the titles alone.                                            *)
LEMMA ApplyStep ==
    ASSUME IInv, NEW ids, Chunk(ids), "INFO" \notin ids,
           UNCHANGED <<trackCount, hasINFO, plst>>,
           NEW n \in Nat, NEW new \in [1..n -> TrackInfos], Apply(new),
           \A i \in 1..n : i > trackCount => trackCount = 0 /\ new[i].title = TrackAt(i).title
    PROVE  IInv'
<1>1. pos \in 1..Len(file.chunks) /\ (InfoFirst => pos # 1)  BY BodyType
<1>2. tracks \in Seq(TrackInfos) /\ trackCount \in Nat  BY DEF IInv, TypeOK
<1>3. /\ tracks' \in Seq(TrackInfos)
      /\ Len(tracks') = IF n <= Len(tracks) THEN Len(tracks) ELSE n
  BY <1>2, ApplyLength
<1>4. TypeOK'  BY <1>1, <1>3 DEF IInv, TypeOK, Chunk
<1>5. ASSUME InfoFirst, NEW i \in DOMAIN tracks', i > trackCount
      PROVE  trackCount = 0 /\ tracks'[i].title = NoTitle
  <2>1. i \in Nat \ {0} /\ i <= Len(tracks')  BY <1>3
  <2>2. tracks'[i] = IF i <= n THEN new[i] ELSE TrackAt(i)
    <3>1. TrackAt(i)' = IF i <= n THEN new[i] ELSE TrackAt(i)  BY <1>2, <2>1, ApplyTrackAt
    <3> QED  BY <2>1, <3>1 DEF TrackAt
  <2>3. CASE i <= n
    <3>1. i \in 1..n  BY <2>1, <2>3
    <3> QED  BY <1>5, <2>1, <2>2, <2>3, <3>1, UntitledBeyondZero
  <2>4. CASE ~(i <= n)
    <3>1. i <= Len(tracks) /\ i \in DOMAIN tracks  BY <1>2, <1>3, <2>1, <2>4
    <3> QED  BY <1>5, <2>2, <2>4, <3>1 DEF IInv, BeyondTheCount, TrackAt
  <2> QED  BY <2>3, <2>4
<1>6. BeyondTheCount'
  <2>1. InfoFirst' => InfoFirst  BY DEF InfoFirst, Chunk
  <2>2. trackCount' = trackCount  OBVIOUS
  <2> QED  BY <1>5, <2>1, <2>2 DEF BeyondTheCount
<1> QED  BY <1>1, <1>4, <1>6 DEF IInv, TypeOK, Chunk

LEMMA TitlesStep == IInv /\ Titles => IInv'
<1> SUFFICES ASSUME IInv, Titles PROVE IInv'  OBVIOUS
<1>1. /\ Chunk({"tlbl"})
      /\ LET values == SplitTitles(Body)
         IN  Apply([i \in DOMAIN values |-> [TrackAt(i) EXCEPT !.title = values[i]]])
      /\ UNCHANGED <<trackCount, hasINFO, plst>>
  BY DEF Titles
<1>2. file.chunks[pos] \in Chunks /\ file.chunks[pos].id = "tlbl"  BY <1>1, BodyType
<1>3. Body \in Seq(STRING)  BY <1>2 DEF Chunks, Body
<1>4. trackCount \in Nat /\ tracks \in Seq(TrackInfos)  BY DEF IInv, TypeOK
<1>5. SplitTitles(Body) \in Seq(STRING) /\ Len(SplitTitles(Body)) <= trackCount
  BY <1>3, <1>4, UpToLength DEF SplitTitles
<1> DEFINE values == SplitTitles(Body)
           new == [i \in DOMAIN values |-> [TrackAt(i) EXCEPT !.title = values[i]]]
<1>6. values \in Seq(STRING) /\ Len(values) \in Nat /\ DOMAIN values = 1..Len(values)
  BY <1>5, <1>4
<1> HIDE DEF values
<1>7. new \in [1..Len(values) -> TrackInfos] /\ Apply(new)
  <2>1. ASSUME NEW i \in 1..Len(values)
        PROVE  [TrackAt(i) EXCEPT !.title = values[i]] \in TrackInfos
    <3>1. TrackAt(i) \in TrackInfos  BY <1>6, <1>4, TrackAtType
    <3>2. values[i] \in STRING  BY <1>6
    <3> QED  BY <3>1, <3>2 DEF TrackInfos
  <2>2. Apply(new)  BY <1>1 DEF values
  <2> QED  BY <1>6, <2>1, <2>2
<1> HIDE DEF new
<1>9. \A i \in 1..Len(values) : ~(i > trackCount)  BY <1>4, <1>5, <1>6 DEF values
<1> HIDE DEF values
<1> QED  BY <1>1, <1>6, <1>7, <1>9, ApplyStep

(* The entries of a chunk of durations that are used.                      *)
LEMMA Int32sLength ==
    ASSUME IInv, NEW ids \in SUBSET {"time", "fade"}, Chunk(ids)
    PROVE  Int32s(Body) \in Seq(Int) /\ (trackCount > 0 => Len(Int32s(Body)) <= trackCount)
<1>1. file.chunks[pos] \in Chunks /\ file.chunks[pos].id \in {"time", "fade"}  BY BodyType
<1>2. Body \in Seq(Int)  BY <1>1 DEF Chunks, Body
<1>3. trackCount \in Nat  BY DEF IInv, TypeOK
<1> QED  BY <1>2, <1>3, UpToLength DEF Int32s

LEMMA TimesStep == IInv /\ Times => IInv'
<1> SUFFICES ASSUME IInv, Times PROVE IInv'  OBVIOUS
<1>1. /\ Chunk({"time"})
      /\ LET values == Int32s(Body)
         IN  Apply([i \in DOMAIN values |-> [TrackAt(i) EXCEPT !.durationMs = values[i]]])
      /\ UNCHANGED <<trackCount, hasINFO, plst>>
  BY DEF Times
<1>2. Int32s(Body) \in Seq(Int) /\ (trackCount > 0 => Len(Int32s(Body)) <= trackCount)
  BY <1>1, Int32sLength
<1>3. trackCount \in Nat /\ tracks \in Seq(TrackInfos)  BY DEF IInv, TypeOK
<1> DEFINE values == Int32s(Body)
           new == [i \in DOMAIN values |-> [TrackAt(i) EXCEPT !.durationMs = values[i]]]
<1>6. values \in Seq(Int) /\ Len(values) \in Nat /\ DOMAIN values = 1..Len(values)
  BY <1>2, <1>3
<1> HIDE DEF values
<1>7. new \in [1..Len(values) -> TrackInfos] /\ Apply(new)
  <2>1. ASSUME NEW i \in 1..Len(values)
        PROVE  [TrackAt(i) EXCEPT !.durationMs = values[i]] \in TrackInfos
    <3>1. TrackAt(i) \in TrackInfos  BY <1>6, <1>3, TrackAtType
    <3>2. values[i] \in Int  BY <1>6
    <3> QED  BY <3>1, <3>2 DEF TrackInfos
  <2>2. Apply(new)  BY <1>1 DEF values
  <2> QED  BY <1>6, <2>1, <2>2
<1>8. \A i \in 1..Len(values) : new[i].title = TrackAt(i).title
  <2> SUFFICES ASSUME NEW i \in 1..Len(values)  PROVE  new[i].title = TrackAt(i).title
    OBVIOUS
  <2>1. TrackAt(i) \in TrackInfos  BY <1>6, <1>3, TrackAtType
  <2>2. new[i] = [TrackAt(i) EXCEPT !.durationMs = values[i]]  BY <1>6
  <2> QED  BY <2>1, <2>2 DEF TrackInfos
<1> HIDE DEF new
<1>9. \A i \in 1..Len(values) : i > trackCount => trackCount = 0  BY <1>2, <1>3, <1>6 DEF values
<1> HIDE DEF values
<1> QED  BY <1>1, <1>6, <1>7, <1>8, <1>9, ApplyStep

LEMMA FadesStep == IInv /\ Fades => IInv'
<1> SUFFICES ASSUME IInv, Fades PROVE IInv'  OBVIOUS
<1>1. /\ Chunk({"fade"})
      /\ LET values == Int32s(Body)
         IN  Apply([i \in DOMAIN values |-> [TrackAt(i) EXCEPT !.fadeMs = values[i]]])
      /\ UNCHANGED <<trackCount, hasINFO, plst>>
  BY DEF Fades
<1>2. Int32s(Body) \in Seq(Int) /\ (trackCount > 0 => Len(Int32s(Body)) <= trackCount)
  BY <1>1, Int32sLength
<1>3. trackCount \in Nat /\ tracks \in Seq(TrackInfos)  BY DEF IInv, TypeOK
<1> DEFINE values == Int32s(Body)
           new == [i \in DOMAIN values |-> [TrackAt(i) EXCEPT !.fadeMs = values[i]]]
<1>6. values \in Seq(Int) /\ Len(values) \in Nat /\ DOMAIN values = 1..Len(values)
  BY <1>2, <1>3
<1> HIDE DEF values
<1>7. new \in [1..Len(values) -> TrackInfos] /\ Apply(new)
  <2>1. ASSUME NEW i \in 1..Len(values)
        PROVE  [TrackAt(i) EXCEPT !.fadeMs = values[i]] \in TrackInfos
    <3>1. TrackAt(i) \in TrackInfos  BY <1>6, <1>3, TrackAtType
    <3>2. values[i] \in Int  BY <1>6
    <3> QED  BY <3>1, <3>2 DEF TrackInfos
  <2>2. Apply(new)  BY <1>1 DEF values
  <2> QED  BY <1>6, <2>1, <2>2
<1>8. \A i \in 1..Len(values) : new[i].title = TrackAt(i).title
  <2> SUFFICES ASSUME NEW i \in 1..Len(values)  PROVE  new[i].title = TrackAt(i).title
    OBVIOUS
  <2>1. TrackAt(i) \in TrackInfos  BY <1>6, <1>3, TrackAtType
  <2>2. new[i] = [TrackAt(i) EXCEPT !.fadeMs = values[i]]  BY <1>6
  <2> QED  BY <2>1, <2>2 DEF TrackInfos
<1> HIDE DEF new
<1>9. \A i \in 1..Len(values) : i > trackCount => trackCount = 0  BY <1>2, <1>3, <1>6 DEF values
<1> HIDE DEF values
<1> QED  BY <1>1, <1>6, <1>7, <1>8, <1>9, ApplyStep

LEMMA PlaylistStep == IInv /\ Playlist => IInv'
<1> SUFFICES ASSUME IInv, Playlist PROVE IInv'  OBVIOUS
<1>1. /\ file.chunks[pos] \in Chunks /\ file.chunks[pos].id = "plst"
      /\ pos \in 1..Len(file.chunks) /\ (InfoFirst => pos # 1)
  BY BodyType DEF Playlist
<1>2. Body \in Seq(Byte)  BY <1>1 DEF Chunks, Body
<1>3. TypeOK'  BY <1>1, <1>2 DEF IInv, TypeOK, Playlist, Chunk
<1>4. BeyondTheCount'  BY DEF IInv, BeyondTheCount, InfoFirst, Playlist, Chunk
<1> QED  BY <1>1, <1>3, <1>4 DEF IInv, TypeOK, Playlist, Chunk

LEMMA SkipStep == IInv /\ (Auth \/ Skip) => IInv'
<1> SUFFICES ASSUME IInv, NEW ids, Chunk(ids), UNCHANGED <<trackCount, tracks, hasINFO, plst>>,
                    "INFO" \notin ids
             PROVE IInv'
  BY DEF Auth, Skip, header
<1>1. pos \in 1..Len(file.chunks) /\ (InfoFirst => pos # 1)  BY BodyType
<1>2. TypeOK'  BY <1>1 DEF IInv, TypeOK, Chunk
<1>3. BeyondTheCount'  BY DEF IInv, BeyondTheCount, InfoFirst, Chunk
<1> QED  BY <1>1, <1>2, <1>3 DEF IInv, TypeOK, Chunk

LEMMA FinishStep == IInv /\ Finish => IInv'
<1> SUFFICES ASSUME IInv, Finish PROVE IInv'  OBVIOUS
<1>1. tracks \in Seq(TrackInfos) /\ plst \in Seq(Byte)  BY DEF IInv, TypeOK
<1>2. Remapped(tracks, plst) \in Seq(TrackInfos) /\ Len(Remapped(tracks, plst)) = Len(plst)
  BY <1>1, RemappedLength
<1>3. TypeOK'  BY <1>1, <1>2 DEF IInv, TypeOK, Finish, AtEnd, Goto
<1>4. BeyondTheCount'
  BY <1>1, <1>2 DEF IInv, BeyondTheCount, InfoFirst, Finish
<1> QED  BY <1>3, <1>4 DEF IInv, Finish, Goto

LEMMA RestSteps == IInv /\ (BadChunk \/ FinishWithoutINFO \/ Build \/ UNCHANGED vars) => IInv'
<1> SUFFICES ASSUME IInv, BadChunk \/ FinishWithoutINFO \/ Build \/ UNCHANGED vars PROVE IInv'
  OBVIOUS
<1>1. UNCHANGED <<file, pos, trackCount, tracks, hasINFO, plst>>
  BY DEF BadChunk, FinishWithoutINFO, Build, vars, header
<1>2. pc' = "done" \/ (pc' = pc /\ list' = list)
  BY DEF BadChunk, FinishWithoutINFO, Build, Reject, Goto, vars
<1>3. TypeOK'  BY <1>1, <1>2 DEF IInv, TypeOK
<1>4. BeyondTheCount'  BY <1>1 DEF IInv, BeyondTheCount, InfoFirst
<1> QED  BY <1>1, <1>2, <1>3, <1>4 DEF IInv

(* IInv is an inductive invariant of the parser.                           *)
THEOREM IInvInvariant == Spec => []IInv
<1>1. IInv /\ [Next]_vars => IInv'
  BY ReadStep, InfoStep, TitlesStep, TimesStep, FadesStep, PlaylistStep, SkipStep, FinishStep,
     RestSteps DEF Next
<1> QED  BY InitIInv, <1>1, PTL DEF Spec

(* The parser's state keeps its types, on every file.                      *)
THEOREM TypeCorrect == Spec => []TypeOK
<1>1. IInv => TypeOK  BY DEF IInv
<1> QED  BY <1>1, IInvInvariant, PTL

(* A file that begins with its only INFO chunk leaves no data of tracks    *)
(* beyond its count, or only durations when it counts none.                *)
THEOREM PhantomsExcluded == Spec => []BeyondTheCount
<1>1. IInv => BeyondTheCount  BY DEF IInv
<1> QED  BY <1>1, IInvInvariant, PTL

-----------------------------------------------------------------------------
(* What the file says up to a chunk: the reading of module NSFeReading,    *)
(* cut off before position p.                                              *)

By(id, t, p) == {i \in R!Positions(file.chunks, id) : i < p /\ R!Mentions(file.chunks, i, t)}

SaidBefore(id, t, otherwise, p) ==
    IF By(id, t, p) = {} THEN otherwise ELSE file.chunks[R!Max(By(id, t, p))].body[t]

TrackBefore(t, p) ==
    [title      |-> SaidBefore("tlbl", t, NoTitle, p),
     durationMs |-> SaidBefore("time", t, 0, p),
     fadeMs     |-> SaidBefore("fade", t, 0, p)]

ListsBefore(p) == {i \in R!Positions(file.chunks, "plst") : i < p}

PlaylistBefore(p) ==
    IF ListsBefore(p) = {} THEN <<>> ELSE file.chunks[R!Max(ListsBefore(p))].body

(* What the parser has is what the chunks before pos say.                  *)
SoFar ==
    /\ \A i \in 1..(pos - 1) : file.chunks[i].id # "NEND" /\ ~R!Faulty(file.chunks[i])
    /\ trackCount = R!CountAt(file.chunks, pos)
    /\ hasINFO <=> \E i \in 1..(pos - 1) : file.chunks[i].id = "INFO"
    /\ plst = PlaylistBefore(pos)
    /\ \A t \in Nat \ {0} : TrackAt(t) = TrackBefore(t, pos)

Entries == [i \in 1..trackCount |-> Entry(i, TrackAt(i))]

RInv ==
    /\ IInv
    /\ pc = "read" => trackCount = 0 /\ tracks = <<>> /\ ~hasINFO /\ plst = <<>>
    /\ pc = "chunks" => file.magic = "NSFE" /\ SoFar
    /\ pc = "build" => Entries = R!Meaning(file)

-----------------------------------------------------------------------------
(* One more chunk.                                                         *)

LEMMA LastIsMax ==
    ASSUME NEW p \in Int, NEW S, p \in S, \A i \in S : i \in Int /\ i <= p
    PROVE  R!Max(S) = p
<1>1. \A i \in S : p >= i  OBVIOUS
<1>2. \A x \in S : (\A y \in S : x >= y) => x = p  OBVIOUS
<1> QED  BY <1>1, <1>2 DEF R!Max

(* A chunk that is read is in use, and the positions of its kind grow by   *)
(* its own.                                                                *)
LEMMA ChunkInUse ==
    ASSUME RInv, NEW ids, Chunk(ids), "NEND" \notin ids
    PROVE  /\ pos \in 1..Len(file.chunks) /\ pos \in R!InUse(file.chunks)
           /\ \A id : pos \in R!Positions(file.chunks, id) <=> file.chunks[pos].id = id
           /\ \A id : R!Positions(file.chunks, id) \subseteq Int
           /\ file.chunks \in Seq(Chunks) /\ pc = "chunks" /\ SoFar
<1>1. file.chunks \in Seq(Chunks) /\ pos \in 1..Len(file.chunks)
      /\ file.chunks[pos].id \in ids
  BY BodyType, FilesAssumption DEF RInv, IInv
<1>2. pc = "chunks" /\ SoFar  BY DEF RInv, Chunk
<1>3. \A j \in 1..pos : file.chunks[j].id # "NEND"
  BY <1>1, <1>2 DEF SoFar
<1>4. pos \in R!InUse(file.chunks)  BY <1>1, <1>3 DEF R!InUse
<1>5. \A id : R!Positions(file.chunks, id) \subseteq 1..Len(file.chunks)
  BY <1>1 DEF R!Positions, R!InUse
<1> QED  BY <1>1, <1>2, <1>4, <1>5 DEF R!Positions

LEMMA SaidStep ==
    ASSUME RInv, NEW ids, Chunk(ids), "NEND" \notin ids, NEW id, NEW t, NEW otherwise
    PROVE  SaidBefore(id, t, otherwise, pos + 1) =
               IF file.chunks[pos].id = id /\ R!Mentions(file.chunks, pos, t)
               THEN file.chunks[pos].body[t]
               ELSE SaidBefore(id, t, otherwise, pos)
<1>1. /\ pos \in Int /\ R!Positions(file.chunks, id) \subseteq Int
      /\ pos \in R!Positions(file.chunks, id) <=> file.chunks[pos].id = id
  BY ChunkInUse
<1>2. CASE file.chunks[pos].id = id /\ R!Mentions(file.chunks, pos, t)
  <2>1. pos \in By(id, t, pos + 1) /\ \A i \in By(id, t, pos + 1) : i \in Int /\ i <= pos
    BY <1>1, <1>2 DEF By
  <2>2. R!Max(By(id, t, pos + 1)) = pos  BY <1>1, <2>1, LastIsMax
  <2> QED  BY <1>2, <2>1, <2>2 DEF SaidBefore
<1>3. CASE ~(file.chunks[pos].id = id /\ R!Mentions(file.chunks, pos, t))
  <2>1. \A i \in R!Positions(file.chunks, id) :
            R!Mentions(file.chunks, i, t) => (i < pos + 1 <=> i < pos)
    BY <1>1, <1>3
  <2>2. By(id, t, pos + 1) = By(id, t, pos)  BY <2>1 DEF By
  <2> QED  BY <1>3, <2>2 DEF SaidBefore
<1> QED  BY <1>2, <1>3

LEMMA CountStep ==
    ASSUME RInv, NEW ids, Chunk(ids), "NEND" \notin ids
    PROVE  R!CountAt(file.chunks, pos + 1) =
               IF file.chunks[pos].id = "INFO" THEN file.chunks[pos].body[1]
                                               ELSE R!CountAt(file.chunks, pos)
<1> DEFINE infos(p) == {j \in R!Positions(file.chunks, "INFO") : j < p}
<1>1. /\ pos \in Int /\ R!Positions(file.chunks, "INFO") \subseteq Int
      /\ pos \in R!Positions(file.chunks, "INFO") <=> file.chunks[pos].id = "INFO"
  BY ChunkInUse
<1>2. \A p : R!CountAt(file.chunks, p) =
                  IF infos(p) = {} THEN 0 ELSE file.chunks[R!Max(infos(p))].body[1]
  BY DEF R!CountAt
<1>3. CASE file.chunks[pos].id = "INFO"
  <2>1. pos \in infos(pos + 1) /\ \A i \in infos(pos + 1) : i \in Int /\ i <= pos
    BY <1>1, <1>3
  <2>2. R!Max(infos(pos + 1)) = pos  BY <1>1, <2>1, LastIsMax
  <2> QED  BY <1>2, <1>3, <2>1, <2>2
<1>4. CASE file.chunks[pos].id # "INFO"
  <2>1. infos(pos + 1) = infos(pos)  BY <1>1, <1>4
  <2> QED  BY <1>2, <1>4, <2>1
<1> QED  BY <1>3, <1>4

LEMMA PlaylistBeforeStep ==
    ASSUME RInv, NEW ids, Chunk(ids), "NEND" \notin ids
    PROVE  PlaylistBefore(pos + 1) =
               IF file.chunks[pos].id = "plst" THEN file.chunks[pos].body ELSE PlaylistBefore(pos)
<1>1. /\ pos \in Int /\ R!Positions(file.chunks, "plst") \subseteq Int
      /\ pos \in R!Positions(file.chunks, "plst") <=> file.chunks[pos].id = "plst"
  BY ChunkInUse
<1>3. CASE file.chunks[pos].id = "plst"
  <2>1. pos \in ListsBefore(pos + 1) /\ \A i \in ListsBefore(pos + 1) : i \in Int /\ i <= pos
    BY <1>1, <1>3 DEF ListsBefore
  <2>2. R!Max(ListsBefore(pos + 1)) = pos  BY <1>1, <2>1, LastIsMax
  <2> QED  BY <1>3, <2>1, <2>2 DEF PlaylistBefore
<1>4. CASE file.chunks[pos].id # "plst"
  <2>1. ListsBefore(pos + 1) = ListsBefore(pos)  BY <1>1, <1>4 DEF ListsBefore
  <2> QED  BY <1>4, <2>1 DEF PlaylistBefore
<1> QED  BY <1>3, <1>4

(* The parts of SoFar that every chunk but its own kind leaves alone.      *)
LEMMA SoFarStep ==
    ASSUME RInv, NEW ids, Chunk(ids), "NEND" \notin ids, ~R!Faulty(file.chunks[pos]),
           trackCount' = R!CountAt(file.chunks, pos + 1),
           hasINFO' <=> (hasINFO \/ file.chunks[pos].id = "INFO"),
           plst' = PlaylistBefore(pos + 1),
           \A t \in Nat \ {0} : TrackAt(t)' = TrackBefore(t, pos + 1),
           IInv'
    PROVE  RInv'
<1>1. /\ pos' = pos + 1 /\ file' = file /\ pc' = pc /\ pc = "chunks"
      /\ pos \in 1..Len(file.chunks) /\ file.chunks[pos].id # "NEND" /\ SoFar
  BY ChunkInUse DEF Chunk
<1>2. \A i : i \in 1..(pos' - 1) <=> i \in 1..(pos - 1) \/ i = pos
  BY <1>1
<1>3. (\A i \in 1..(pos - 1) : file.chunks[i].id # "NEND" /\ ~R!Faulty(file.chunks[i]))'
  BY <1>1, <1>2 DEF SoFar
<1>4. (hasINFO <=> \E i \in 1..(pos - 1) : file.chunks[i].id = "INFO")'
  BY <1>1, <1>2 DEF SoFar
<1>5. (plst = PlaylistBefore(pos))'
  BY <1>1 DEF PlaylistBefore, ListsBefore
<1>6. (\A t \in Nat \ {0} : TrackAt(t) = TrackBefore(t, pos))'
  BY <1>1 DEF TrackBefore, SaidBefore, By
<1>7. SoFar'  BY <1>1, <1>3, <1>4, <1>5, <1>6 DEF SoFar
<1> QED  BY <1>1, <1>7 DEF RInv

-----------------------------------------------------------------------------
(* The steps.                                                              *)

LEMMA RInit == Init => RInv
<1> SUFFICES ASSUME Init PROVE RInv  OBVIOUS
<1> QED  BY InitIInv DEF Init, RInv

(* At the first chunk nothing has been said.                               *)
LEMMA NothingSaid ==
    ASSUME file.chunks \in Seq(Chunks)
    PROVE  /\ R!CountAt(file.chunks, 1) = 0 /\ PlaylistBefore(1) = <<>>
           /\ \A t : TrackBefore(t, 1) = Blank
<1>1. \A id : \A i \in R!Positions(file.chunks, id) : ~(i < 1)
  BY DEF R!Positions, R!InUse
<1>2. {j \in R!Positions(file.chunks, "INFO") : j < 1} = {} /\ ListsBefore(1) = {}
  BY <1>1 DEF ListsBefore
<1>3. \A id, t : By(id, t, 1) = {}  BY <1>1 DEF By
<1>4. R!CountAt(file.chunks, 1) = 0  BY <1>2 DEF R!CountAt
<1>5. PlaylistBefore(1) = <<>>  BY <1>2 DEF PlaylistBefore
<1>6. \A t : TrackBefore(t, 1) = Blank  BY <1>3 DEF TrackBefore, SaidBefore, Blank
<1> QED  BY <1>4, <1>5, <1>6

LEMMA RReadStep == RInv /\ (Read \/ ReadGBS) => RInv'
<1> SUFFICES ASSUME RInv, Read \/ ReadGBS PROVE RInv'  OBVIOUS
<1>1. IInv'  BY ReadStep DEF RInv
<1>2. /\ pc = "read" /\ pos = 1 /\ trackCount = 0 /\ tracks = <<>> /\ ~hasINFO /\ plst = <<>>
      /\ file.chunks \in Seq(Chunks)
      /\ UNCHANGED <<file, pos, tracks, hasINFO, plst>>
  BY FilesAssumption DEF RInv, IInv, Read, ReadGBS
<1>3. \A t \in Nat \ {0} : TrackAt(t) = Blank  BY <1>2 DEF TrackAt
<1>4. CASE pc' = "chunks"
  <2>1. file.magic = "NSFE" /\ trackCount' = trackCount
    BY <1>4 DEF Read, ReadGBS, Goto, Reject
  <2>2. SoFar  BY <1>2, <1>3, NothingSaid DEF SoFar
  <2>3. SoFar'
    BY <1>2, <2>1, <2>2 DEF SoFar, TrackAt, PlaylistBefore, ListsBefore, TrackBefore,
       SaidBefore, By
  <2> QED  BY <1>1, <1>2, <1>4, <2>1, <2>3 DEF RInv
<1>5. CASE pc' = "build"
  <2>1. file.magic \in {"NESM", "GBS"} /\ file.whole /\ trackCount' = file.count
    BY <1>5 DEF Read, ReadGBS, Goto, Reject
  <2>2. R!Meaning(file) = [slot \in 1..file.count |-> R!Track(slot, NoTitle, 0, 0)]
    BY <2>1 DEF R!Meaning
  <2>3. file.count \in Nat
    <3>1. file.count \in Byte  BY FilesAssumption DEF RInv, IInv
    <3> QED  BY <3>1, ByteIsNat
  <2>4. \A slot \in 1..file.count : Entry(slot, TrackAt(slot))' = R!Track(slot, NoTitle, 0, 0)
    BY <1>2, <1>3, <2>3
       DEF Entry, TrackAt, Blank, CleanTag, TrimSpace, R!Track, R!Tag, ClampMs, R!ClampMs
  <2>5. Entries' = R!Meaning(file)'  BY <1>2, <2>1, <2>2, <2>4 DEF Entries
  <2> QED  BY <1>1, <1>5, <2>5 DEF RInv
<1>6. pc' \in {"chunks", "build", "done"}  BY DEF Read, ReadGBS, Goto, Reject
<1> QED  BY <1>1, <1>4, <1>5, <1>6 DEF RInv

(* A chunk of another kind leaves a track as the chunks before left it.    *)
LEMMA TrackBeforeStep ==
    ASSUME RInv, NEW ids, Chunk(ids), "NEND" \notin ids, NEW t \in Nat \ {0}
    PROVE  LET c    == file.chunks[pos]
               here == R!Mentions(file.chunks, pos, t)
               old  == TrackAt(t)
           IN  TrackBefore(t, pos + 1) =
                   [title      |-> IF c.id = "tlbl" /\ here THEN c.body[t] ELSE old.title,
                    durationMs |-> IF c.id = "time" /\ here THEN c.body[t] ELSE old.durationMs,
                    fadeMs     |-> IF c.id = "fade" /\ here THEN c.body[t] ELSE old.fadeMs]
<1>1. TrackAt(t) = TrackBefore(t, pos)  BY ChunkInUse DEF SoFar
<1>2. /\ TrackAt(t).title = SaidBefore("tlbl", t, NoTitle, pos)
      /\ TrackAt(t).durationMs = SaidBefore("time", t, 0, pos)
      /\ TrackAt(t).fadeMs = SaidBefore("fade", t, 0, pos)
  BY <1>1 DEF TrackBefore
<1> QED  BY <1>2, SaidStep DEF TrackBefore

LEMMA TrackAtRecord ==
    ASSUME RInv, NEW t \in Nat \ {0}
    PROVE  TrackAt(t) = [title |-> TrackAt(t).title, durationMs |-> TrackAt(t).durationMs,
                         fadeMs |-> TrackAt(t).fadeMs]
<1>1. TrackAt(t) \in TrackInfos  BY TrackAtType DEF RInv, IInv, TypeOK
<1> QED  BY <1>1 DEF TrackInfos

LEMMA RInfoStep == RInv /\ Info => RInv'
<1> SUFFICES ASSUME RInv, Info PROVE RInv'  OBVIOUS
<1>1. Chunk({"INFO"}) /\ file.chunks[pos].id = "INFO"  BY DEF Info, Chunk
<1>2. IInv'  BY InfoStep DEF RInv
<1>3. ~R!Faulty(file.chunks[pos])  BY <1>1 DEF Info, Chunk, Body, R!Faulty
<1>4. trackCount' = R!CountAt(file.chunks, pos + 1)
  BY <1>1, CountStep DEF Info, Body
<1>5. plst' = PlaylistBefore(pos + 1)
  BY <1>1, PlaylistBeforeStep, ChunkInUse DEF Info, SoFar
<1>6. \A t \in Nat \ {0} : TrackAt(t)' = TrackBefore(t, pos + 1)
  BY <1>1, TrackBeforeStep, TrackAtRecord DEF Info, TrackAt
<1> QED  BY <1>1, <1>2, <1>3, <1>4, <1>5, <1>6, SoFarStep DEF Info

LEMMA RPlaylistStep == RInv /\ Playlist => RInv'
<1> SUFFICES ASSUME RInv, Playlist PROVE RInv'  OBVIOUS
<1>1. Chunk({"plst"}) /\ file.chunks[pos].id = "plst"  BY DEF Playlist, Chunk
<1>2. IInv'  BY PlaylistStep DEF RInv
<1>3. ~R!Faulty(file.chunks[pos])  BY <1>1 DEF Chunk, R!Faulty
<1>4. trackCount' = R!CountAt(file.chunks, pos + 1)
  BY <1>1, CountStep, ChunkInUse DEF Playlist, SoFar
<1>5. plst' = PlaylistBefore(pos + 1)
  BY <1>1, PlaylistBeforeStep DEF Playlist, Body
<1>6. \A t \in Nat \ {0} : TrackAt(t)' = TrackBefore(t, pos + 1)
  BY <1>1, TrackBeforeStep, TrackAtRecord DEF Playlist, TrackAt
<1> QED  BY <1>1, <1>2, <1>3, <1>4, <1>5, <1>6, SoFarStep DEF Playlist

LEMMA RSkipStep == RInv /\ (Auth \/ Skip) => RInv'
<1> SUFFICES ASSUME RInv, Auth \/ Skip PROVE RInv'  OBVIOUS
<1>1. /\ Chunk({"auth"}) \/ Chunk({"DATA", "unkn"})
      /\ file.chunks[pos].id \in {"auth", "DATA", "unkn"}
      /\ UNCHANGED <<trackCount, tracks, hasINFO, plst>>
  BY DEF Auth, Skip, Chunk, header
<1>2. IInv'  BY SkipStep DEF RInv
<1>3. ~R!Faulty(file.chunks[pos])  BY <1>1 DEF Chunk, R!Faulty
<1>4. trackCount' = R!CountAt(file.chunks, pos + 1)
  BY <1>1, CountStep, ChunkInUse DEF SoFar
<1>5. plst' = PlaylistBefore(pos + 1)
  BY <1>1, PlaylistBeforeStep, ChunkInUse DEF SoFar
<1>6. \A t \in Nat \ {0} : TrackAt(t)' = TrackBefore(t, pos + 1)
  BY <1>1, TrackBeforeStep, TrackAtRecord DEF TrackAt
<1> QED  BY <1>1, <1>2, <1>3, <1>4, <1>5, <1>6, SoFarStep

LEMMA UpToElements ==
    ASSUME NEW S, NEW values \in Seq(S), NEW n \in Nat
    PROVE  /\ UpTo(values, n) \in Seq(S)
           /\ Len(UpTo(values, n)) = IF n < Len(values) THEN n ELSE Len(values)
           /\ \A i \in 1..Len(UpTo(values, n)) : UpTo(values, n)[i] = values[i]
<1> DEFINE m == IF n < Len(values) THEN n ELSE Len(values)
<1>1. m \in 0..Len(values)  OBVIOUS
<1>2. UpTo(values, n) = SubSeq(values, 1, m)  BY DEF UpTo
<1>3. \A i \in 1..m : values[i] \in S  BY <1>1
<1>4. SubSeq(values, 1, m) = [i \in 1..m |-> values[i]]  BY <1>1
<1>5. [i \in 1..m |-> values[i]] \in Seq(S) /\ Len([i \in 1..m |-> values[i]]) = m
  BY <1>1, <1>3
<1> QED  BY <1>1, <1>2, <1>4, <1>5

LEMMA UpToReaches ==
    ASSUME NEW S, NEW values \in Seq(S), NEW n \in Nat, NEW t \in Nat \ {0}
    PROVE  t <= Len(UpTo(values, n)) <=> t <= Len(values) /\ t <= n
<1>1. Len(UpTo(values, n)) = IF n < Len(values) THEN n ELSE Len(values)  BY UpToElements
<1>2. Len(values) \in Nat  OBVIOUS
<1> QED  BY <1>1, <1>2

LEMMA SplitTitlesReaches ==
    ASSUME NEW S, NEW values \in Seq(S), trackCount \in Nat, NEW t \in Nat \ {0}
    PROVE  /\ SplitTitles(values) \in Seq(S)
           /\ \A i \in 1..Len(SplitTitles(values)) : SplitTitles(values)[i] = values[i]
           /\ t <= Len(SplitTitles(values)) <=> t <= Len(values) /\ t <= trackCount
BY UpToElements, UpToReaches DEF SplitTitles

LEMMA Int32sReaches ==
    ASSUME NEW S, NEW values \in Seq(S), trackCount \in Nat, NEW t \in Nat \ {0}
    PROVE  /\ Int32s(values) \in Seq(S)
           /\ \A i \in 1..Len(Int32s(values)) : Int32s(values)[i] = values[i]
           /\ t <= Len(Int32s(values)) <=>
                  t <= Len(values) /\ (t <= trackCount \/ trackCount = 0)
<1>1. CASE trackCount > 0
  <2>1. Int32s(values) = UpTo(values, trackCount)  BY <1>1 DEF Int32s
  <2> QED  BY <1>1, <2>1, UpToElements, UpToReaches
<1>2. CASE trackCount = 0
  <2>1. Int32s(values) = values  BY <1>2 DEF Int32s
  <2> QED  BY <1>2, <2>1
<1> QED  BY <1>1, <1>2

LEMMA RTitlesStep == RInv /\ Titles => RInv'
<1> SUFFICES ASSUME RInv, Titles PROVE RInv'  OBVIOUS
<1>1. Chunk({"tlbl"}) /\ file.chunks[pos].id = "tlbl" /\ UNCHANGED <<trackCount, hasINFO, plst>>
  BY DEF Titles, Chunk
<1>2. IInv'  BY TitlesStep DEF RInv
<1>3. ~R!Faulty(file.chunks[pos])  BY <1>1 DEF Chunk, R!Faulty
<1>4. trackCount' = R!CountAt(file.chunks, pos + 1) /\ trackCount = R!CountAt(file.chunks, pos)
  BY <1>1, CountStep, ChunkInUse DEF SoFar
<1>5. plst' = PlaylistBefore(pos + 1)
  BY <1>1, PlaylistBeforeStep, ChunkInUse DEF SoFar
<1>6. ASSUME NEW t \in Nat \ {0}
      PROVE  TrackAt(t)' = TrackBefore(t, pos + 1)
  <2> DEFINE values == SplitTitles(Body)
             new == [i \in DOMAIN values |-> [TrackAt(i) EXCEPT !.title = values[i]]]
  <2>1. Body \in Seq(STRING)  BY <1>1, BodyType DEF RInv, Chunks, Body
  <2>2. trackCount \in Nat /\ tracks \in Seq(TrackInfos)  BY DEF RInv, IInv, TypeOK
  <2>3. /\ values \in Seq(STRING) /\ Len(values) \in Nat /\ DOMAIN values = 1..Len(values)
        /\ \A i \in 1..Len(values) : values[i] = Body[i]
        /\ t <= Len(values) <=> R!Mentions(file.chunks, pos, t)
    <3>1. /\ values \in Seq(STRING) /\ \A i \in 1..Len(values) : values[i] = Body[i]
          /\ t <= Len(values) <=> t <= Len(Body) /\ t <= trackCount
      BY <2>1, <2>2, SplitTitlesReaches
    <3>2. Len(values) \in Nat /\ DOMAIN values = 1..Len(values)  BY <3>1
    <3> HIDE DEF values
    <3>3. R!Mentions(file.chunks, pos, t) <=> t <= Len(Body) /\ t <= trackCount
      BY <1>1, <1>4, <2>1, <2>2 DEF R!Mentions, Body
    <3> QED  BY <3>1, <3>2, <3>3
  <2>4. Apply(new)  BY DEF Titles
  <2> HIDE DEF values
  <2>5. ASSUME NEW i \in 1..Len(values)
        PROVE  [TrackAt(i) EXCEPT !.title = values[i]] \in TrackInfos
    <3>1. TrackAt(i) \in TrackInfos  BY <2>2, <2>3, TrackAtType
    <3>2. values[i] \in STRING  BY <2>3
    <3> QED  BY <3>1, <3>2 DEF TrackInfos
  <2>6. new \in [1..Len(values) -> TrackInfos]  BY <2>3, <2>5
  <2>7. t <= Len(values) => new[t] = [TrackAt(t) EXCEPT !.title = Body[t]]
    BY <2>3
  <2> HIDE DEF new
  <2>8. TrackAt(t)' = IF t <= Len(values) THEN new[t] ELSE TrackAt(t)
    BY <2>2, <2>3, <2>4, <2>6, ApplyTrackAt
  <2>9. TrackAt(t)' = IF R!Mentions(file.chunks, pos, t)
                      THEN [TrackAt(t) EXCEPT !.title = Body[t]] ELSE TrackAt(t)
    BY <2>3, <2>7, <2>8
  <2>10. TrackBefore(t, pos + 1) =
             [TrackAt(t) EXCEPT !.title =
                 IF R!Mentions(file.chunks, pos, t) THEN Body[t] ELSE @]
    BY <1>1, TrackBeforeStep, TrackAtRecord DEF Body
  <2> QED  BY <2>9, <2>10, TrackAtRecord
<1> QED  BY <1>1, <1>2, <1>3, <1>4, <1>5, <1>6, SoFarStep

LEMMA RTimesStep == RInv /\ Times => RInv'
<1> SUFFICES ASSUME RInv, Times PROVE RInv'  OBVIOUS
<1>1. Chunk({"time"}) /\ file.chunks[pos].id = "time" /\ UNCHANGED <<trackCount, hasINFO, plst>>
  BY DEF Times, Chunk
<1>2. IInv'  BY TimesStep DEF RInv
<1>3. ~R!Faulty(file.chunks[pos])  BY <1>1 DEF Chunk, R!Faulty
<1>4. trackCount' = R!CountAt(file.chunks, pos + 1) /\ trackCount = R!CountAt(file.chunks, pos)
  BY <1>1, CountStep, ChunkInUse DEF SoFar
<1>5. plst' = PlaylistBefore(pos + 1)
  BY <1>1, PlaylistBeforeStep, ChunkInUse DEF SoFar
<1>6. ASSUME NEW t \in Nat \ {0}
      PROVE  TrackAt(t)' = TrackBefore(t, pos + 1)
  <2> DEFINE values == Int32s(Body)
             new == [i \in DOMAIN values |-> [TrackAt(i) EXCEPT !.durationMs = values[i]]]
  <2>1. Body \in Seq(Int)  BY <1>1, BodyType DEF RInv, Chunks, Body
  <2>2. trackCount \in Nat /\ tracks \in Seq(TrackInfos)  BY DEF RInv, IInv, TypeOK
  <2>3. /\ values \in Seq(Int) /\ Len(values) \in Nat /\ DOMAIN values = 1..Len(values)
        /\ \A i \in 1..Len(values) : values[i] = Body[i]
        /\ t <= Len(values) <=> R!Mentions(file.chunks, pos, t)
    <3>1. /\ values \in Seq(Int) /\ \A i \in 1..Len(values) : values[i] = Body[i]
          /\ t <= Len(values) <=> t <= Len(Body) /\ (t <= trackCount \/ trackCount = 0)
      BY <2>1, <2>2, Int32sReaches
    <3>2. Len(values) \in Nat /\ DOMAIN values = 1..Len(values)  BY <3>1
    <3> HIDE DEF values
    <3>3. R!Mentions(file.chunks, pos, t) <=> t <= Len(Body) /\ (t <= trackCount \/ trackCount = 0)
      BY <1>1, <1>4, <2>1, <2>2 DEF R!Mentions, Body
    <3> QED  BY <3>1, <3>2, <3>3
  <2>4. Apply(new)  BY DEF Times
  <2> HIDE DEF values
  <2>5. ASSUME NEW i \in 1..Len(values)
        PROVE  [TrackAt(i) EXCEPT !.durationMs = values[i]] \in TrackInfos
    <3>1. TrackAt(i) \in TrackInfos  BY <2>2, <2>3, TrackAtType
    <3>2. values[i] \in Int  BY <2>3
    <3> QED  BY <3>1, <3>2 DEF TrackInfos
  <2>6. new \in [1..Len(values) -> TrackInfos]  BY <2>3, <2>5
  <2>7. t <= Len(values) => new[t] = [TrackAt(t) EXCEPT !.durationMs = Body[t]]
    BY <2>3
  <2> HIDE DEF new
  <2>8. TrackAt(t)' = IF t <= Len(values) THEN new[t] ELSE TrackAt(t)
    BY <2>2, <2>3, <2>4, <2>6, ApplyTrackAt
  <2>9. TrackAt(t)' = IF R!Mentions(file.chunks, pos, t)
                      THEN [TrackAt(t) EXCEPT !.durationMs = Body[t]] ELSE TrackAt(t)
    BY <2>3, <2>7, <2>8
  <2>10. TrackBefore(t, pos + 1) =
             [TrackAt(t) EXCEPT !.durationMs =
                 IF R!Mentions(file.chunks, pos, t) THEN Body[t] ELSE @]
    BY <1>1, TrackBeforeStep, TrackAtRecord DEF Body
  <2> QED  BY <2>9, <2>10, TrackAtRecord
<1> QED  BY <1>1, <1>2, <1>3, <1>4, <1>5, <1>6, SoFarStep

LEMMA RFadesStep == RInv /\ Fades => RInv'
<1> SUFFICES ASSUME RInv, Fades PROVE RInv'  OBVIOUS
<1>1. Chunk({"fade"}) /\ file.chunks[pos].id = "fade" /\ UNCHANGED <<trackCount, hasINFO, plst>>
  BY DEF Fades, Chunk
<1>2. IInv'  BY FadesStep DEF RInv
<1>3. ~R!Faulty(file.chunks[pos])  BY <1>1 DEF Chunk, R!Faulty
<1>4. trackCount' = R!CountAt(file.chunks, pos + 1) /\ trackCount = R!CountAt(file.chunks, pos)
  BY <1>1, CountStep, ChunkInUse DEF SoFar
<1>5. plst' = PlaylistBefore(pos + 1)
  BY <1>1, PlaylistBeforeStep, ChunkInUse DEF SoFar
<1>6. ASSUME NEW t \in Nat \ {0}
      PROVE  TrackAt(t)' = TrackBefore(t, pos + 1)
  <2> DEFINE values == Int32s(Body)
             new == [i \in DOMAIN values |-> [TrackAt(i) EXCEPT !.fadeMs = values[i]]]
  <2>1. Body \in Seq(Int)  BY <1>1, BodyType DEF RInv, Chunks, Body
  <2>2. trackCount \in Nat /\ tracks \in Seq(TrackInfos)  BY DEF RInv, IInv, TypeOK
  <2>3. /\ values \in Seq(Int) /\ Len(values) \in Nat /\ DOMAIN values = 1..Len(values)
        /\ \A i \in 1..Len(values) : values[i] = Body[i]
        /\ t <= Len(values) <=> R!Mentions(file.chunks, pos, t)
    <3>1. /\ values \in Seq(Int) /\ \A i \in 1..Len(values) : values[i] = Body[i]
          /\ t <= Len(values) <=> t <= Len(Body) /\ (t <= trackCount \/ trackCount = 0)
      BY <2>1, <2>2, Int32sReaches
    <3>2. Len(values) \in Nat /\ DOMAIN values = 1..Len(values)  BY <3>1
    <3> HIDE DEF values
    <3>3. R!Mentions(file.chunks, pos, t) <=> t <= Len(Body) /\ (t <= trackCount \/ trackCount = 0)
      BY <1>1, <1>4, <2>1, <2>2 DEF R!Mentions, Body
    <3> QED  BY <3>1, <3>2, <3>3
  <2>4. Apply(new)  BY DEF Fades
  <2> HIDE DEF values
  <2>5. ASSUME NEW i \in 1..Len(values)
        PROVE  [TrackAt(i) EXCEPT !.fadeMs = values[i]] \in TrackInfos
    <3>1. TrackAt(i) \in TrackInfos  BY <2>2, <2>3, TrackAtType
    <3>2. values[i] \in Int  BY <2>3
    <3> QED  BY <3>1, <3>2 DEF TrackInfos
  <2>6. new \in [1..Len(values) -> TrackInfos]  BY <2>3, <2>5
  <2>7. t <= Len(values) => new[t] = [TrackAt(t) EXCEPT !.fadeMs = Body[t]]
    BY <2>3
  <2> HIDE DEF new
  <2>8. TrackAt(t)' = IF t <= Len(values) THEN new[t] ELSE TrackAt(t)
    BY <2>2, <2>3, <2>4, <2>6, ApplyTrackAt
  <2>9. TrackAt(t)' = IF R!Mentions(file.chunks, pos, t)
                      THEN [TrackAt(t) EXCEPT !.fadeMs = Body[t]] ELSE TrackAt(t)
    BY <2>3, <2>7, <2>8
  <2>10. TrackBefore(t, pos + 1) =
             [TrackAt(t) EXCEPT !.fadeMs =
                 IF R!Mentions(file.chunks, pos, t) THEN Body[t] ELSE @]
    BY <1>1, TrackBeforeStep, TrackAtRecord DEF Body
  <2> QED  BY <2>9, <2>10, TrackAtRecord
<1> QED  BY <1>1, <1>2, <1>3, <1>4, <1>5, <1>6, SoFarStep

(* At the end of the loop the chunks before pos are all that are in use.   *)
LEMMA AllInUse ==
    ASSUME RInv, AtEnd
    PROVE  /\ file.chunks \in Seq(Chunks) /\ SoFar /\ file.magic = "NSFE"
           /\ \A id : \A i \in R!Positions(file.chunks, id) : i < pos /\ i < Len(file.chunks) + 1
           /\ \A i \in R!InUse(file.chunks) : ~R!Faulty(file.chunks[i])
           /\ hasINFO <=> R!Positions(file.chunks, "INFO") # {}
<1>1. file.chunks \in Seq(Chunks) /\ pos \in 1..(Len(file.chunks) + 1)
  BY FilesAssumption DEF RInv, IInv, TypeOK
<1>2. SoFar /\ file.magic = "NSFE"  BY DEF RInv, AtEnd
<1>3. ASSUME NEW i \in R!InUse(file.chunks)
      PROVE  i \in 1..(pos - 1)
  <2>1. i \in 1..Len(file.chunks) /\ \A j \in 1..i : file.chunks[j].id # "NEND"
    BY <1>1, <1>3 DEF R!InUse
  <2>2. CASE i >= pos
    <3>1. pos \in 1..i /\ pos <= Len(file.chunks)  BY <1>1, <2>1, <2>2
    <3> QED  BY <2>1, <3>1 DEF AtEnd
  <2> QED  BY <1>1, <2>1, <2>2
<1>4. ASSUME NEW i \in 1..(pos - 1)
      PROVE  i \in R!InUse(file.chunks)
  BY <1>1, <1>2 DEF SoFar, R!InUse
<1>5. \A id : \A i \in R!Positions(file.chunks, id) : i < pos /\ i < Len(file.chunks) + 1
  BY <1>1, <1>3 DEF R!Positions
<1>6. \A i \in R!InUse(file.chunks) : ~R!Faulty(file.chunks[i])
  BY <1>2, <1>3 DEF SoFar
<1>7. hasINFO <=> R!Positions(file.chunks, "INFO") # {}
  BY <1>2, <1>3, <1>4 DEF SoFar, R!Positions
<1> QED  BY <1>1, <1>2, <1>5, <1>6, <1>7

(* So what has been read of them is what the file means.                   *)
LEMMA MeaningAtEnd ==
    ASSUME RInv, AtEnd, hasINFO
    PROVE  LET played == IF plst = <<>> THEN [slot \in 1..trackCount |-> slot]
                                        ELSE [slot \in 1..Len(plst) |-> plst[slot] + 1]
           IN  R!Meaning(file) =
                   [slot \in DOMAIN played |->
                       R!Track(slot, TrackBefore(played[slot], pos).title,
                               TrackBefore(played[slot], pos).durationMs,
                               TrackBefore(played[slot], pos).fadeMs)]
<1> DEFINE cs == file.chunks
           played == IF plst = <<>> THEN [slot \in 1..trackCount |-> slot]
                                    ELSE [slot \in 1..Len(plst) |-> plst[slot] + 1]
<1>1. \A id : \A i \in R!Positions(cs, id) : i < pos /\ i < Len(cs) + 1
  BY AllInUse
<1>2. \A id, t, otherwise : R!Said(cs, id, t, otherwise) = SaidBefore(id, t, otherwise, pos)
  <2>1. ASSUME NEW id, NEW t
        PROVE  {i \in R!Positions(cs, id) : R!Mentions(cs, i, t)} = By(id, t, pos)
    BY <1>1 DEF By
  <2> QED  BY <2>1 DEF R!Said, SaidBefore
<1>3. R!CountAt(cs, Len(cs) + 1) = trackCount
  <2>1. {j \in R!Positions(cs, "INFO") : j < Len(cs) + 1} = {j \in R!Positions(cs, "INFO") : j < pos}
    BY <1>1
  <2>2. trackCount = R!CountAt(cs, pos)  BY AllInUse DEF SoFar
  <2> QED  BY <2>1, <2>2 DEF R!CountAt
<1>4. R!Played(cs) = played
  <2>1. R!Positions(cs, "plst") = ListsBefore(pos)  BY <1>1 DEF ListsBefore
  <2>2. plst = PlaylistBefore(pos)  BY AllInUse DEF SoFar
  <2> QED  BY <1>3, <2>1, <2>2 DEF R!Played, PlaylistBefore
<1>5. R!Meaning(file) = R!MeaningOfChunks(cs)  BY AllInUse DEF R!Meaning
<1>6. ~((\E i \in R!InUse(cs) : R!Faulty(cs[i])) \/ R!Positions(cs, "INFO") = {})
  BY AllInUse
<1> HIDE DEF cs, played
<1>7. R!MeaningOfChunks(cs) =
          [slot \in DOMAIN played |->
              R!Track(slot, R!Said(cs, "tlbl", played[slot], NoTitle),
                      R!Said(cs, "time", played[slot], 0), R!Said(cs, "fade", played[slot], 0))]
  BY <1>4, <1>6 DEF R!MeaningOfChunks
<1>8. \A t : /\ TrackBefore(t, pos).title = R!Said(cs, "tlbl", t, NoTitle)
             /\ TrackBefore(t, pos).durationMs = R!Said(cs, "time", t, 0)
             /\ TrackBefore(t, pos).fadeMs = R!Said(cs, "fade", t, 0)
  BY <1>2 DEF TrackBefore
<1> QED  BY <1>5, <1>7, <1>8 DEF played, cs

LEMMA EntryIsTrack ==
    ASSUME NEW i, NEW t
    PROVE  Entry(i, t) = R!Track(i, t.title, t.durationMs, t.fadeMs)
BY DEF Entry, CleanTag, TrimSpace, R!Track, R!Tag, ClampMs, R!ClampMs

LEMMA RFinishStep == RInv /\ Finish => RInv'
<1> SUFFICES ASSUME RInv, Finish PROVE RInv'  OBVIOUS
<1>1. IInv'  BY FinishStep DEF RInv
<1>2. AtEnd /\ hasINFO /\ pc' = "build" /\ file' = file  BY DEF Finish, Goto
<1>3. /\ \A t \in Nat \ {0} : TrackAt(t) = TrackBefore(t, pos)
      /\ trackCount \in Nat /\ tracks \in Seq(TrackInfos) /\ plst \in Seq(Byte)
  BY <1>2, AllInUse DEF SoFar, RInv, IInv, TypeOK
<1>4. CASE plst = <<>>
  <2>1. UNCHANGED <<tracks, trackCount>>  BY <1>4 DEF Finish
  <2>2. R!Meaning(file) =
            [slot \in 1..trackCount |->
                R!Track(slot, TrackBefore(slot, pos).title, TrackBefore(slot, pos).durationMs,
                        TrackBefore(slot, pos).fadeMs)]
    BY <1>2, <1>4, MeaningAtEnd
  <2>3. ASSUME NEW slot \in 1..trackCount
        PROVE  Entry(slot, TrackAt(slot)) =
                   R!Track(slot, TrackBefore(slot, pos).title, TrackBefore(slot, pos).durationMs,
                           TrackBefore(slot, pos).fadeMs)
    BY <1>3, EntryIsTrack
  <2>4. Entries = R!Meaning(file)  BY <2>2, <2>3 DEF Entries
  <2>5. Entries' = Entries  BY <2>1 DEF Entries, TrackAt
  <2> QED  BY <1>1, <1>2, <2>4, <2>5 DEF RInv
<1>5. CASE plst # <<>>
  <2>1. tracks' = Remapped(tracks, plst) /\ trackCount' = Len(plst) /\ Len(plst) \in Nat
    BY <1>3, <1>5 DEF Finish
  <2>2. Len(tracks') = Len(plst)  BY <1>3, <2>1, RemappedLength
  <2>3. R!Meaning(file) =
            [slot \in 1..Len(plst) |->
                R!Track(slot, TrackBefore(plst[slot] + 1, pos).title,
                        TrackBefore(plst[slot] + 1, pos).durationMs,
                        TrackBefore(plst[slot] + 1, pos).fadeMs)]
    BY <1>2, <1>5, MeaningAtEnd
  <2>4. ASSUME NEW slot \in 1..Len(plst)
        PROVE  Entry(slot, TrackAt(slot)') =
                   R!Track(slot, TrackBefore(plst[slot] + 1, pos).title,
                           TrackBefore(plst[slot] + 1, pos).durationMs,
                           TrackBefore(plst[slot] + 1, pos).fadeMs)
    <3>1. plst[slot] \in Nat
      <4>1. plst[slot] \in Byte  BY <1>3, ElementOfSeq
      <4> QED  BY <4>1, ByteIsNat
    <3>2. TrackAt(slot)' = tracks'[slot]  BY <2>1, <2>2 DEF TrackAt
    <3>3. tracks'[slot] = TrackAt(plst[slot] + 1)
      BY <1>3, <2>1, <3>1 DEF Remapped, TrackAt
    <3> QED  BY <1>3, <3>1, <3>2, <3>3, EntryIsTrack
  <2>5. Entries' = [slot \in 1..Len(plst) |-> Entry(slot, TrackAt(slot)')]
    BY <2>1 DEF Entries, Entry
  <2>6. Entries' = R!Meaning(file)  BY <2>3, <2>4, <2>5
  <2> QED  BY <1>1, <1>2, <2>6 DEF RInv
<1> QED  BY <1>4, <1>5

LEMMA RRestSteps ==
    RInv /\ (BadChunk \/ FinishWithoutINFO \/ Build \/ UNCHANGED vars) => RInv'
<1> SUFFICES ASSUME RInv, BadChunk \/ FinishWithoutINFO \/ Build \/ UNCHANGED vars PROVE RInv'
  OBVIOUS
<1>1. IInv'  BY RestSteps DEF RInv
<1>2. CASE pc' = "done"  BY <1>1, <1>2 DEF RInv
<1>3. CASE UNCHANGED vars
  BY <1>1, <1>3 DEF vars, header, RInv, SoFar, TrackAt, PlaylistBefore, ListsBefore, TrackBefore,
     SaidBefore, By, Entries
<1> QED  BY <1>2, <1>3 DEF BadChunk, FinishWithoutINFO, Build, Reject, Goto

(* RInv is an inductive invariant of the parser.                           *)
THEOREM RInvInvariant == Spec => []RInv
<1>1. RInv /\ [Next]_vars => RInv'
  BY RReadStep, RInfoStep, RTitlesStep, RTimesStep, RFadesStep, RPlaylistStep, RSkipStep,
     RFinishStep, RRestSteps DEF Next
<1> QED  BY RInit, <1>1, PTL DEF Spec

(* Whatever the order of the chunks, wherever the playlist stands, and     *)
(* however often a kind of chunk repeats, the parser returns nil or what   *)
(* the last chunk to mention each track says of it.                        *)
THEOREM ParserImplementsReading == Spec => ImplementsReading
<1>1. Init => R!Init  BY DEF Init, R!Init
<1>2. RInv /\ [Next]_vars => [R!Read]_<<file, list>>
  <2> SUFFICES ASSUME RInv, [Next]_vars PROVE R!Read \/ UNCHANGED <<file, list>>
    BY DEF R!Read
  <2>1. CASE Build
    <3>1. list = Unread /\ Entries = R!Meaning(file)  BY <2>1 DEF Build, RInv, IInv, TypeOK
    <3>2. list' = Entries /\ file' = file  BY <2>1 DEF Build, Entries
    <3> QED  BY <3>1, <3>2 DEF R!Read
  <2>2. CASE list' = Nil /\ file' = file /\ pc \in {"read", "chunks"}
    <3>1. list = Unread  BY <2>2 DEF RInv, IInv, TypeOK
    <3> QED  BY <2>2, <3>1 DEF R!Read
  <2>3. CASE UNCHANGED <<file, list>>  BY <2>3
  <2>4. Build \/ (list' = Nil /\ file' = file /\ pc \in {"read", "chunks"})
        \/ UNCHANGED <<file, list>>
    BY DEF Next, Read, ReadGBS, Info, Titles, Times, Fades, Playlist, Auth, Skip, Chunk, BadChunk, AtEnd,
       Finish, FinishWithoutINFO, Reject, vars
  <2> QED  BY <2>1, <2>2, <2>3, <2>4
<1> QED  BY <1>1, <1>2, RInvInvariant, PTL DEF Spec, ImplementsReading, R!Spec

-----------------------------------------------------------------------------
(* The order of the chunks.                                                *)

(* A file that begins with its only INFO chunk, without NEND and with each *)
(* kind of chunk once, and the same in another order q.                    *)
Ordered(cs, n) ==
    /\ n \in Nat \ {0} /\ Len(cs) = n /\ DOMAIN cs = 1..n
    /\ \A i \in 1..n : (cs[i].id = "INFO" <=> i = 1) /\ cs[i].id # "NEND"
    /\ \A i, j \in 1..n : i # j => cs[i].id # cs[j].id

SameChunks(cs, ds, n) ==
    /\ ds[1] = cs[1]
    /\ \A i \in 1..n : \E j \in 1..n : cs[i] = ds[j]
    /\ \A j \in 1..n : \E i \in 1..n : cs[i] = ds[j]

LEMMA OrderedPositions ==
    ASSUME NEW cs, NEW n, Ordered(cs, n)
    PROVE  /\ R!InUse(cs) = 1..n
           /\ \A id : \A i \in 1..n : cs[i].id = id => R!Positions(cs, id) = {i}
           /\ \A id : (\A i \in 1..n : cs[i].id # id) => R!Positions(cs, id) = {}
<1>1. R!InUse(cs) = 1..n
  <2>1. \A i \in 1..n : \A j \in 1..i : j \in 1..n  BY DEF Ordered
  <2> QED  BY <2>1 DEF Ordered, R!InUse
<1> QED  BY <1>1 DEF Ordered, R!Positions

LEMMA MaxOfOne ==
    ASSUME NEW i \in Int
    PROVE  R!Max({i}) = i
BY LastIsMax

LEMMA OrderedCount ==
    ASSUME NEW cs, NEW n, Ordered(cs, n), NEW i \in Int, i > 1
    PROVE  R!CountAt(cs, i) = cs[1].body[1]
<1>1. 1 \in 1..n /\ cs[1].id = "INFO"  BY DEF Ordered
<1>2. R!Positions(cs, "INFO") = {1}  BY <1>1, OrderedPositions
<1>3. {j \in R!Positions(cs, "INFO") : j < i} = {1}  BY <1>2
<1> QED  BY <1>3, MaxOfOne DEF R!CountAt

LEMMA SameSaid ==
    ASSUME NEW cs, NEW ds, NEW n, Ordered(cs, n), Ordered(ds, n), SameChunks(cs, ds, n),
           NEW id, id # "INFO", NEW t, NEW otherwise
    PROVE  R!Said(cs, id, t, otherwise) = R!Said(ds, id, t, otherwise)
<1>1. CASE \E i \in 1..n : cs[i].id = id
  <2>1. PICK i \in 1..n : cs[i].id = id  BY <1>1
  <2>2. PICK j \in 1..n : cs[i] = ds[j]  BY <2>1 DEF SameChunks
  <2>3. n \in Nat /\ i \in Int /\ j \in Int /\ i > 1 /\ j > 1
    BY <2>1, <2>2 DEF Ordered
  <2>4. R!Positions(cs, id) = {i} /\ R!Positions(ds, id) = {j}
    BY <2>1, <2>2, OrderedPositions
  <2>5. R!Mentions(cs, i, t) <=> R!Mentions(ds, j, t)
    <3>1. R!CountAt(cs, i) = R!CountAt(ds, j)
      BY <2>3, OrderedCount DEF SameChunks
    <3> QED  BY <2>2, <3>1 DEF R!Mentions
  <2>6. CASE R!Mentions(cs, i, t)
    <3>1. {k \in R!Positions(cs, id) : R!Mentions(cs, k, t)} = {i}  BY <2>4, <2>6
    <3>2. {k \in R!Positions(ds, id) : R!Mentions(ds, k, t)} = {j}  BY <2>4, <2>5, <2>6
    <3> QED  BY <2>2, <2>3, <3>1, <3>2, MaxOfOne DEF R!Said
  <2>7. CASE ~R!Mentions(cs, i, t)
    <3>1. {k \in R!Positions(cs, id) : R!Mentions(cs, k, t)} = {}  BY <2>4, <2>7
    <3>2. {k \in R!Positions(ds, id) : R!Mentions(ds, k, t)} = {}  BY <2>4, <2>5, <2>7
    <3> QED  BY <3>1, <3>2 DEF R!Said
  <2> QED  BY <2>6, <2>7
<1>2. CASE \A i \in 1..n : cs[i].id # id
  <2>1. \A j \in 1..n : ds[j].id # id  BY <1>2 DEF SameChunks
  <2>2. R!Positions(cs, id) = {} /\ R!Positions(ds, id) = {}  BY <1>2, <2>1, OrderedPositions
  <2> QED  BY <2>2 DEF R!Said
<1> QED  BY <1>1, <1>2

LEMMA SamePlayed ==
    ASSUME NEW cs, NEW ds, NEW n, Ordered(cs, n), Ordered(ds, n), SameChunks(cs, ds, n)
    PROVE  R!Played(cs) = R!Played(ds)
<1>1. n \in Nat \ {0} /\ Len(cs) + 1 = n + 1 /\ Len(ds) + 1 = n + 1  BY DEF Ordered
<1>2. R!CountAt(cs, Len(cs) + 1) = R!CountAt(ds, Len(ds) + 1)
  <2>1. n + 1 \in Int /\ n + 1 > 1  BY <1>1
  <2>2. R!CountAt(cs, n + 1) = cs[1].body[1] /\ R!CountAt(ds, n + 1) = ds[1].body[1]
    BY <2>1, OrderedCount
  <2> QED  BY <1>1, <2>2 DEF SameChunks
<1>3. CASE \E i \in 1..n : cs[i].id = "plst"
  <2>1. PICK i \in 1..n : cs[i].id = "plst"  BY <1>3
  <2>2. PICK j \in 1..n : cs[i] = ds[j]  BY <2>1 DEF SameChunks
  <2>3. R!Positions(cs, "plst") = {i} /\ R!Positions(ds, "plst") = {j}
    BY <2>1, <2>2, OrderedPositions
  <2>5. i \in Int /\ j \in Int  BY <1>1
  <2>4. cs[R!Max(R!Positions(cs, "plst"))].body = ds[R!Max(R!Positions(ds, "plst"))].body
    BY <2>2, <2>3, <2>5, MaxOfOne
  <2> QED  BY <1>2, <2>3, <2>4 DEF R!Played
<1>4. CASE \A i \in 1..n : cs[i].id # "plst"
  <2>1. \A j \in 1..n : ds[j].id # "plst"  BY <1>4 DEF SameChunks
  <2>2. R!Positions(cs, "plst") = {} /\ R!Positions(ds, "plst") = {}
    BY <1>4, <2>1, OrderedPositions
  <2> QED  BY <1>2, <2>2 DEF R!Played
<1> QED  BY <1>3, <1>4

LEMMA SameMeaning ==
    ASSUME NEW cs, NEW ds, NEW n, Ordered(cs, n), Ordered(ds, n), SameChunks(cs, ds, n)
    PROVE  R!MeaningOfChunks(cs) = R!MeaningOfChunks(ds)
<1>1. (\E i \in R!InUse(cs) : R!Faulty(cs[i])) <=> (\E i \in R!InUse(ds) : R!Faulty(ds[i]))
  <2>1. R!InUse(cs) = 1..n /\ R!InUse(ds) = 1..n  BY OrderedPositions
  <2> QED  BY <2>1 DEF SameChunks
<1>2. R!Positions(cs, "INFO") # {} /\ R!Positions(ds, "INFO") # {}
  <2>1. 1 \in 1..n /\ cs[1].id = "INFO" /\ ds[1].id = "INFO"  BY DEF Ordered
  <2> QED  BY <2>1, OrderedPositions
<1>3. R!Played(cs) = R!Played(ds)  BY SamePlayed
<1>4. \A t : /\ R!Said(cs, "tlbl", t, NoTitle) = R!Said(ds, "tlbl", t, NoTitle)
             /\ R!Said(cs, "time", t, 0) = R!Said(ds, "time", t, 0)
             /\ R!Said(cs, "fade", t, 0) = R!Said(ds, "fade", t, 0)
  BY SameSaid
<1> QED  BY <1>1, <1>2, <1>3, <1>4 DEF R!MeaningOfChunks

(* What buildTrackList returns is what the file means.                     *)
ListMeant == pc = "done" => list \in {R!Meaning(file), Nil}

THEOREM ListMeantInvariant == Spec => []ListMeant
<1>1. Init => ListMeant  BY DEF Init, ListMeant
<1>2. RInv /\ ListMeant /\ [Next]_vars => ListMeant'
  <2> SUFFICES ASSUME RInv, ListMeant, [Next]_vars, pc' = "done"
               PROVE  (list \in {R!Meaning(file), Nil})'
    BY DEF ListMeant
  <2>1. file' = file
    BY DEF Next, Read, ReadGBS, Info, Titles, Times, Fades, Playlist, Auth, Skip, Chunk, BadChunk,
       Finish, FinishWithoutINFO, Build, vars
  <2>2. CASE Build  BY <2>1, <2>2 DEF Build, Entries, RInv
  <2>3. CASE list' = Nil  BY <2>3
  <2>4. CASE UNCHANGED vars  BY <2>1, <2>4 DEF vars, ListMeant
  <2>5. Build \/ list' = Nil \/ UNCHANGED vars
    BY DEF Next, Read, ReadGBS, Info, Titles, Times, Fades, Playlist, Auth, Skip, Chunk, BadChunk, AtEnd,
       Finish, FinishWithoutINFO, Reject, Goto, vars
  <2> QED  BY <2>2, <2>3, <2>4, <2>5
<1> QED  BY <1>1, <1>2, RInvInvariant, PTL DEF Spec

(* Of the chunks after INFO, each of another kind, the order does not      *)
(* matter: the list is the one that any other order of them gives.         *)
THEOREM OrderDoesNotMatter == Spec => []OrderIrrelevant
<1>1. RInv /\ ListMeant => OrderIrrelevant
  <2> SUFFICES ASSUME RInv, ListMeant, pc = "done", list # Nil, InfoFirst,
                      \A i, j \in 1..Len(file.chunks) :
                          i # j => file.chunks[i].id # file.chunks[j].id,
                      \A i \in 1..Len(file.chunks) : file.chunks[i].id # "NEND",
                      NEW p \in Orders(2..Len(file.chunks))
               PROVE  list = R!Meaning([file EXCEPT !.chunks =
                          [i \in 1..Len(file.chunks) |-> file.chunks[IF i = 1 THEN 1 ELSE p[i]]]])
    BY DEF OrderIrrelevant
  <2> DEFINE cs == file.chunks
             n  == Len(cs)
             ds == [i \in 1..n |-> cs[IF i = 1 THEN 1 ELSE p[i]]]
  <2>1. cs \in Seq(Chunks) /\ cs # <<>> /\ file.magic = "NSFE"
    BY FilesAssumption DEF RInv, IInv, InfoFirst
  <2>2. n \in Nat \ {0} /\ DOMAIN cs = 1..n /\ DOMAIN ds = 1..n
    BY <2>1
  <2>3. \A i \in 1..n : (cs[i].id = "INFO" <=> i = 1) /\ cs[i].id # "NEND"
    BY <2>2 DEF InfoFirst
  <2>4. Ordered(cs, n)  BY <2>2, <2>3 DEF Ordered
  <2>5. p \in [2..n -> 2..n] /\ \A w \in 2..n : \E v \in 2..n : p[v] = w
    BY DEF Orders
  <2>6. \A v, w \in 2..n : v # w => p[v] # p[w]  BY DEF Orders
  <2>7. SameChunks(cs, ds, n)
    <3>1. \A j \in 1..n : (IF j = 1 THEN 1 ELSE p[j]) \in 1..n
      <4> HIDE DEF cs, n, ds
      <4>1. \A j \in 2..n : p[j] \in 2..n  BY <2>5
      <4>2. \A j \in 1..n : j = 1 \/ j \in 2..n  BY <2>2
      <4>3. \A j \in 2..n : j \in 1..n  BY <2>2
      <4>4. 1 \in 1..n  BY <2>2
      <4> QED  BY <4>1, <4>2, <4>3, <4>4
    <3>2. \A i \in 1..n : \E j \in 1..n : i = IF j = 1 THEN 1 ELSE p[j]
      <4>1. ASSUME NEW i \in 1..n, i # 1
            PROVE  \E j \in 1..n : i = IF j = 1 THEN 1 ELSE p[j]
        <5>1. i \in 2..n  BY <2>2, <4>1
        <5>2. PICK j \in 2..n : p[j] = i  BY <2>5, <5>1
        <5> QED  BY <2>2, <5>2
      <4> QED  BY <2>2, <4>1
    <3>3. 1 \in 1..n /\ ds[1] = cs[1]  BY <2>2
    <3> HIDE DEF cs, n
    <3> QED  BY <3>1, <3>2, <3>3 DEF SameChunks
  <2>8. Ordered(ds, n)
    <3> DEFINE q == [j \in 1..n |-> IF j = 1 THEN 1 ELSE p[j]]
    <3>1. q \in [1..n -> 1..n] /\ \A j \in 1..n : q[j] = 1 <=> j = 1
      <4> HIDE DEF cs, n, ds
      <4>1. \A j \in 2..n : p[j] \in 2..n  BY <2>5
      <4>2. \A j \in 1..n : j = 1 \/ j \in 2..n  BY <2>2
      <4>3. \A j \in 2..n : j # 1 /\ j \in 1..n  BY <2>2
      <4>4. 1 \in 1..n  BY <2>2
      <4> QED  BY <4>1, <4>2, <4>3, <4>4
    <3>2. \A i, j \in 1..n : i # j => q[i] # q[j]
      <4>1. ASSUME NEW i \in 1..n, NEW j \in 1..n, i # j  PROVE  q[i] # q[j]
        <5>1. CASE i = 1 \/ j = 1  BY <3>1, <4>1, <5>1
        <5>2. CASE i # 1 /\ j # 1
          <6>1. i \in 2..n /\ j \in 2..n  BY <2>2, <5>2
          <6>2. q[i] = p[i] /\ q[j] = p[j]  BY <5>2
          <6> QED  BY <2>6, <4>1, <6>1, <6>2
        <5> QED  BY <5>1, <5>2
      <4> QED  BY <4>1
    <3>3. \A j \in 1..n : ds[j] = cs[q[j]]  OBVIOUS
    <3>4. Len(ds) = n
      <4>1. ds \in [1..n -> Chunks]
        <5>1. \A j \in 1..n : ds[j] = cs[q[j]] /\ q[j] \in 1..n  BY <3>1
        <5>2. \A j \in 1..n : cs[j] \in Chunks  BY <2>1, <2>2
        <5> QED  BY <5>1, <5>2
      <4> HIDE DEF ds
      <4> QED  BY <2>2, <4>1
    <3> HIDE DEF cs, n, ds, q
    <3>5. \A i \in 1..n : (ds[i].id = "INFO" <=> i = 1) /\ ds[i].id # "NEND"
      BY <2>3, <3>1, <3>3
    <3>6. \A i, j \in 1..n : i # j => ds[i].id # ds[j].id
      <4>1. ASSUME NEW i \in 1..n, NEW j \in 1..n, i # j  PROVE  ds[i].id # ds[j].id
        <5>1. q[i] \in 1..n /\ q[j] \in 1..n /\ q[i] # q[j]  BY <3>1, <3>2, <4>1
        <5>2. cs[q[i]].id # cs[q[j]].id  BY <2>4, <5>1 DEF Ordered
        <5> QED  BY <3>3, <5>2
      <4> QED  BY <4>1
    <3> QED  BY <2>2, <3>4, <3>5, <3>6 DEF Ordered
  <2>9. R!MeaningOfChunks(cs) = R!MeaningOfChunks(ds)
    BY <2>4, <2>7, <2>8, SameMeaning
  <2>10. R!Meaning(file) = R!MeaningOfChunks(cs)  BY <2>1 DEF R!Meaning
  <2>11. /\ [file EXCEPT !.chunks = ds].magic = "NSFE"
         /\ [file EXCEPT !.chunks = ds].chunks = ds
    BY <2>1, FilesAssumption DEF RInv, IInv
  <2> HIDE DEF cs, ds, n
  <2>12. R!Meaning([file EXCEPT !.chunks = ds]) = R!MeaningOfChunks(ds)
    BY <2>11 DEF R!Meaning
  <2>13. list = R!Meaning(file)  BY DEF ListMeant
  <2>14. list = R!Meaning([file EXCEPT !.chunks = ds])  BY <2>9, <2>10, <2>12, <2>13
  <2> QED  BY <2>14 DEF ds, n, cs
<1> QED  BY <1>1, RInvInvariant, ListMeantInvariant, PTL

=============================================================================
