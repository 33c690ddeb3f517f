-------------------------- MODULE TrackStoreProofs --------------------------
(***************************************************************************)
(* The track store's safety for every set of readers, tracks and sources,  *)
(* every rendering size, capacity and number of versions.                  *)
(*                                                                         *)
(* Every step of the store is a step of the cache or leaves it alone, so   *)
(* the invariant proved in CacheProofs is carried along; the rest of the   *)
(* invariant relates the readers' program counters to the calls in flight  *)
(* and to what the cache holds.                                            *)
(***************************************************************************)
EXTENDS ReadHistory, TrackFile, TLAPS

CP == INSTANCE CacheProofs WITH Callers <- Readers, Keys <- Tracks, Data <- Rendering,
                                Size <- [d \in Rendering |-> Bytes[d.track]]

(* The assumptions of module Cache hold of the parameters it is given.     *)
LEMMA CacheAssumptions ==
    /\ [d \in Rendering |-> Bytes[d.track]] \in [Rendering -> Nat]
    /\ MaxBytes \in Int
    /\ Free \notin Readers
    /\ Nil \notin CP!Entry
    /\ Nil \notin Rendering
<1>1. [d \in Rendering |-> Bytes[d.track]] \in [Rendering -> Nat]
  BY BytesAssumption DEF Rendering
<1> QED
  BY <1>1, BoundsAssumption, FreeAssumption, EntryAssumption, ReplyAssumption
     DEF CP!Entry, Reply

LEMMA CacheInit == C!Init => CP!IInv
<1>1. CP!Init => CP!IInv
  BY CP!InitIInv, CacheAssumptions, Zenon
<1> QED
  BY <1>1 DEF C!Init, CP!Init

LEMMA CacheStep == CP!IInv /\ [C!Next]_C!vars => CP!IInv'
<1>1. CP!IInv /\ [CP!Next]_CP!vars => CP!IInv'
  BY CP!NextIInv, CacheAssumptions, Zenon
<1>2. C!Next => CP!Next
  BY Zenon DEF C!Next, CP!Next, C!Get, CP!Get, C!Set, CP!Set,
     C!EvictBack, CP!EvictBack, C!SetReturn, CP!SetReturn,
     C!OverCapacity, CP!OverCapacity, C!Without, CP!Without, C!Cons, CP!Cons,
     C!Last, CP!Last, C!Front, CP!Front, C!RemoveAt, CP!RemoveAt
<1>3. [C!Next]_C!vars => [CP!Next]_CP!vars
  BY <1>2 DEF C!vars, CP!vars
<1> QED
  BY <1>1, <1>3

(* What the cache's invariant says of its types and of its entries.        *)
LEMMA CacheTypes ==
    ASSUME CP!IInv
    PROVE  /\ C!TypeOK
           /\ \A t \in Tracks : items[t] # Nil => items[t].data \in Rendering
<1>1. C!TypeOK
  BY DEF CP!IInv, CP!TypeOK, C!TypeOK, C!Entry, CP!Entry
<1> QED
  BY <1>1 DEF C!TypeOK, C!Entry

-----------------------------------------------------------------------------
(* What a reader has obtained at each point of its read.                   *)
GotFits ==
    \A r \in Readers :
        /\ pc[r] = "idle" => got[r] = Nil
        /\ pc[r] \in {"emulate", "store", "evict"} => got[r] \in Rendering
        /\ pc[r] = "finish" => got[r] \in Reply
        /\ got[r] \in Rendering => got[r].track = track[r]

LocalTypeOK ==
    /\ disk \in [Sources -> Versions]
    /\ flight \in [Tracks -> Readers \cup {Nil}]
    /\ pc \in [Readers -> {"idle", "get", "do", "waiting", "reply"} \cup InCall]
    /\ track \in [Readers -> Tracks \cup {Nil}]
    /\ \A r \in Readers : track[r] = Nil <=> pc[r] = "idle"
    /\ header \in [Readers -> BOOLEAN]
    /\ got \in [Readers -> Reply \cup {Nil}]

KeyedByTrack == \A t \in Tracks : items[t] # Nil => items[t].data.track = t

(* The inductive invariant.                                                *)
IInv ==
    /\ CP!IInv
    /\ LocalTypeOK
    /\ GotFits
    /\ OneRenderPerTrack
    /\ FlightHasLeader
    /\ NoRedundantRender
    /\ KeyedByTrack

(* Each operation of the cache changes the entries of one key at most.     *)
LEMMA GetItems ==
    ASSUME NEW t, C!Get(t)
    PROVE  items' = items /\ mu' = mu
BY DEF C!Get

(* A step of a reader is a step of the cache or leaves it alone.           *)
LEMMA NextIsCacheStep ==
    ASSUME IInv, Next
    PROVE  [C!Next]_C!vars
<1>1. ASSUME NEW r \in Readers, Lookup(r) \/ Recheck(r)
      PROVE  C!Next
  <2>1. track[r] \in Tracks
    BY <1>1 DEF IInv, LocalTypeOK, Lookup, Recheck
  <2> QED
    BY <1>1, <2>1 DEF Lookup, Recheck, C!Next
<1>2. ASSUME NEW r \in Readers, Store(r)
      PROVE  C!Next
  <2>1. track[r] \in Tracks /\ got[r] \in Rendering
    BY <1>2 DEF IInv, LocalTypeOK, GotFits, Store
  <2> QED
    BY <1>2, <2>1 DEF Store, C!Next
<1>3. ASSUME NEW r \in Readers, Evict(r) \/ Stored(r)
      PROVE  C!Next
  BY <1>3 DEF Evict, Stored, C!Next
<1>4. ASSUME NEW r \in Readers,
             \/ \E t \in Tracks, h \in BOOLEAN : BeginRead(r, t, h)
             \/ Do(r) \/ Render(r) \/ Finish(r) \/ Return(r)
      PROVE  UNCHANGED cacheVars
  BY <1>4 DEF BeginRead, Do, Render, Load, Rendered, RenderFails, Finish, Return
<1>5. ASSUME NEW s \in Sources, SourceChanges(s)
      PROVE  UNCHANGED cacheVars
  BY <1>5 DEF SourceChanges
<1>6. UNCHANGED cacheVars => UNCHANGED C!vars
  BY DEF cacheVars, C!vars
<1> QED
  BY <1>1, <1>2, <1>3, <1>4, <1>5, <1>6 DEF Next, Proceed

-----------------------------------------------------------------------------
(* The part of the invariant that is not the cache's.                      *)
LocalInv ==
    /\ LocalTypeOK
    /\ GotFits
    /\ OneRenderPerTrack
    /\ FlightHasLeader
    /\ NoRedundantRender
    /\ KeyedByTrack

(* While a reader is inside a call, no other reader is inside one for the  *)
(* same track.                                                             *)
LEMMA LeadersDiffer ==
    ASSUME LocalInv, NEW r \in Readers, NEW q \in Readers,
           pc[r] \in InCall, pc[q] \in InCall, track[r] = track[q]
    PROVE  r = q
BY DEF LocalInv, OneRenderPerTrack

(* What a reader inside a read knows of its track.                         *)
LEMMA TrackOfReader ==
    ASSUME LocalInv, NEW r \in Readers, pc[r] # "idle"
    PROVE  track[r] \in Tracks
BY DEF LocalInv, LocalTypeOK

LEMMA BeginReadInv ==
    ASSUME LocalInv, NEW r \in Readers, NEW t \in Tracks, NEW h \in BOOLEAN,
           BeginRead(r, t, h)
    PROVE  LocalInv'
<1> USE DEF LocalInv, BeginRead, Goto, cacheVars, InCall
<1>1. LocalTypeOK'
  BY NilAssumption DEF LocalTypeOK
<1>2. GotFits'
  BY ReplyAssumption DEF LocalTypeOK, GotFits, Reply
<1>3. ASSUME NEW q \in Readers
      PROVE  /\ pc'[q] \in InCall => flight'[track'[q]] = q
             /\ pc'[q] = "waiting" => flight'[track'[q]] # Nil
  <2>1. CASE q = r
    BY <2>1 DEF LocalTypeOK
  <2>2. CASE q # r
    <3>1. pc'[q] = pc[q] /\ track'[q] = track[q] /\ flight' = flight
      BY <2>2 DEF LocalTypeOK
    <3> QED
      BY <3>1 DEF OneRenderPerTrack
  <2> QED
    BY <2>1, <2>2
<1>4. FlightHasLeader'
  BY DEF LocalTypeOK, FlightHasLeader
<1>5. (NoRedundantRender /\ KeyedByTrack)'
  BY DEF LocalTypeOK, NoRedundantRender, KeyedByTrack
<1> QED
  BY <1>1, <1>2, <1>3, <1>4, <1>5 DEF OneRenderPerTrack

LEMMA LookupInv ==
    ASSUME IInv, LocalInv, NEW r \in Readers, Lookup(r)
    PROVE  LocalInv'
<1> USE DEF LocalInv, Lookup, Goto, Obtain, InCall
<1>1. items' = items
  BY GetItems
<1>2. track[r] \in Tracks /\ (items[track[r]] # Nil => items[track[r]].data \in Rendering)
  BY TrackOfReader, CacheTypes DEF IInv
<1>3. LocalTypeOK'
  BY <1>2 DEF LocalTypeOK, Reply
<1>4. GotFits'
  BY <1>2, ReplyAssumption DEF LocalTypeOK, GotFits, KeyedByTrack
<1>5. OneRenderPerTrack'
  BY DEF LocalTypeOK, OneRenderPerTrack
<1>6. FlightHasLeader'
  BY DEF LocalTypeOK, FlightHasLeader
<1>7. (NoRedundantRender /\ KeyedByTrack)'
  BY <1>1 DEF LocalTypeOK, NoRedundantRender, KeyedByTrack
<1> QED
  BY <1>3, <1>4, <1>5, <1>6, <1>7

LEMMA DoInv ==
    ASSUME LocalInv, NEW r \in Readers, Do(r)
    PROVE  LocalInv'
<1> USE DEF LocalInv, Do, Goto, cacheVars, InCall
<1>1. track[r] \in Tracks
  BY TrackOfReader
<1>2. LocalTypeOK'
  BY <1>1 DEF LocalTypeOK
<1>3. GotFits'
  BY DEF LocalTypeOK, GotFits
<1>4. OneRenderPerTrack'
  BY <1>1, NilAssumption DEF LocalTypeOK, OneRenderPerTrack
<1>5. FlightHasLeader'
  BY <1>1 DEF LocalTypeOK, FlightHasLeader
<1>6. (NoRedundantRender /\ KeyedByTrack)'
  BY DEF LocalTypeOK, NoRedundantRender, KeyedByTrack
<1> QED
  BY <1>2, <1>3, <1>4, <1>5, <1>6

LEMMA RecheckInv ==
    ASSUME IInv, LocalInv, NEW r \in Readers, Recheck(r)
    PROVE  LocalInv'
<1> USE DEF LocalInv, Recheck, Goto, Obtain, InCall
<1>1. items' = items
  BY GetItems
<1>2. track[r] \in Tracks /\ (items[track[r]] # Nil => items[track[r]].data \in Rendering)
  BY TrackOfReader, CacheTypes DEF IInv
<1>3. LocalTypeOK'
  BY <1>2 DEF LocalTypeOK, Reply
<1>4. GotFits'
  BY <1>2 DEF LocalTypeOK, GotFits, KeyedByTrack, Reply
<1>5. OneRenderPerTrack'
  BY DEF LocalTypeOK, OneRenderPerTrack
<1>6. FlightHasLeader'
  BY DEF LocalTypeOK, FlightHasLeader
<1>7. (NoRedundantRender /\ KeyedByTrack)'
  BY <1>1 DEF LocalTypeOK, NoRedundantRender, KeyedByTrack
<1> QED
  BY <1>3, <1>4, <1>5, <1>6, <1>7

LEMMA RenderInv ==
    ASSUME LocalInv, NEW r \in Readers, Render(r)
    PROVE  LocalInv'
<1> USE DEF LocalInv, Render, Load, Rendered, RenderFails, Goto, Obtain, cacheVars, InCall
<1>1. track[r] \in Tracks
  BY TrackOfReader
<1>2. [track |-> track[r], ver |-> disk[SourceOf[track[r]]]] \in Rendering
  BY <1>1, SourceOfAssumption DEF LocalTypeOK, Rendering
<1>3. LocalTypeOK'
  BY <1>2 DEF LocalTypeOK, Reply
<1>4. GotFits'
  BY <1>2, ReplyAssumption DEF LocalTypeOK, GotFits, Reply
<1>5. OneRenderPerTrack'
  BY DEF LocalTypeOK, OneRenderPerTrack
<1>6. FlightHasLeader'
  BY DEF LocalTypeOK, FlightHasLeader
<1>7. (NoRedundantRender /\ KeyedByTrack)'
  BY DEF LocalTypeOK, NoRedundantRender, KeyedByTrack
<1> QED
  BY <1>3, <1>4, <1>5, <1>6, <1>7

(* Filling the cache can only spoil NoRedundantRender for the track it     *)
(* fills, and the leader of that track is the one that fills it.           *)
LEMMA StoreInv ==
    ASSUME IInv, LocalInv, NEW r \in Readers, Store(r)
    PROVE  LocalInv'
<1> USE DEF LocalInv, Store, Goto, InCall
<1>1. track[r] \in Tracks /\ got[r] \in Rendering /\ got[r].track = track[r]
  BY TrackOfReader DEF GotFits
<1>2. items' = [items EXCEPT ![track[r]] = [k |-> track[r], data |-> got[r]]]
  BY DEF C!Set
<1>3. items \in [Tracks -> C!Entry \cup {Nil}]
  BY CacheTypes DEF IInv, C!TypeOK
<1>4. LocalTypeOK'
  BY DEF LocalTypeOK
<1>5. GotFits'
  BY DEF LocalTypeOK, GotFits
<1>6. OneRenderPerTrack'
  BY DEF LocalTypeOK, OneRenderPerTrack
<1>7. FlightHasLeader'
  BY DEF LocalTypeOK, FlightHasLeader
<1>8. KeyedByTrack'
  BY <1>1, <1>2, <1>3 DEF KeyedByTrack
<1>9. ASSUME NEW q \in Readers, pc'[q] \in {"load", "emulate", "store"}
      PROVE  items'[track'[q]] = Nil
  <2>1. q # r /\ pc[q] = pc'[q] /\ track' = track
    BY <1>9 DEF LocalTypeOK
  <2>2. track[q] # track[r] /\ track[q] \in Tracks
    BY <1>9, <2>1, LeadersDiffer, TrackOfReader
  <2> QED
    BY <1>2, <1>3, <1>9, <2>1, <2>2 DEF NoRedundantRender
<1> QED
  BY <1>4, <1>5, <1>6, <1>7, <1>8, <1>9 DEF NoRedundantRender

LEMMA EvictInv ==
    ASSUME IInv, LocalInv, NEW r \in Readers, Evict(r)
    PROVE  LocalInv'
<1> USE DEF LocalInv, Evict, readVars, InCall
<1>1. \A t \in Tracks : items'[t] \in {items[t], Nil}
  <2>1. items \in [Tracks -> C!Entry \cup {Nil}]
    BY CacheTypes DEF IInv, C!TypeOK
  <2>2. PICK x : items' = [items EXCEPT ![x] = Nil]
    BY DEF C!EvictBack
  <2> QED
    BY <2>1, <2>2
<1>2. (LocalTypeOK /\ GotFits)'
  BY DEF LocalTypeOK, GotFits
<1>3. (OneRenderPerTrack /\ FlightHasLeader)'
  BY DEF OneRenderPerTrack, FlightHasLeader
<1>4. KeyedByTrack'
  BY <1>1 DEF KeyedByTrack
<1>5. ASSUME NEW q \in Readers, pc'[q] \in {"load", "emulate", "store"}
      PROVE  items'[track'[q]] = Nil
  <2>1. pc[q] = pc'[q] /\ track' = track /\ track[q] \in Tracks
    BY <1>5, TrackOfReader
  <2> QED
    BY <1>1, <1>5, <2>1 DEF NoRedundantRender
<1> QED
  BY <1>2, <1>3, <1>4, <1>5 DEF NoRedundantRender

LEMMA StoredInv ==
    ASSUME LocalInv, NEW r \in Readers, Stored(r)
    PROVE  LocalInv'
<1> USE DEF LocalInv, Stored, Goto, InCall
<1>1. items' = items
  BY DEF C!SetReturn
<1>2. LocalTypeOK'
  BY DEF LocalTypeOK
<1>3. GotFits'
  BY DEF LocalTypeOK, GotFits, Reply
<1>4. OneRenderPerTrack'
  BY DEF LocalTypeOK, OneRenderPerTrack
<1>5. FlightHasLeader'
  BY DEF LocalTypeOK, FlightHasLeader
<1>6. (NoRedundantRender /\ KeyedByTrack)'
  BY <1>1 DEF LocalTypeOK, NoRedundantRender, KeyedByTrack
<1> QED
  BY <1>2, <1>3, <1>4, <1>5, <1>6

(* The end of a call takes its key away, its leader out of the call and    *)
(* every waiter out of the wait, all at once.                              *)
LEMMA FinishInv ==
    ASSUME LocalInv, NEW r \in Readers, Finish(r)
    PROVE  LocalInv'
<1> DEFINE woken == {w \in Readers : pc[w] = "waiting" /\ track[w] = track[r]}
<1> USE DEF LocalInv, InCall
<1>1. /\ pc[r] = "finish" /\ got[r] \in Reply
      /\ flight' = [flight EXCEPT ![track[r]] = Nil]
      /\ pc' = [w \in Readers |-> IF w = r \/ w \in woken THEN "reply" ELSE pc[w]]
      /\ got' = [w \in Readers |-> IF w \in woken THEN got[r] ELSE got[w]]
      /\ items' = items /\ disk' = disk /\ track' = track /\ header' = header
  BY DEF Finish, GotFits, cacheVars
<1>2. track[r] \in Tracks
  BY <1>1, TrackOfReader
<1>3. \A w \in woken : w \in Readers /\ pc[w] = "waiting" /\ track[w] = track[r]
  OBVIOUS
<1> HIDE DEF woken
<1>4. LocalTypeOK'
  BY <1>1, <1>2, <1>3 DEF LocalTypeOK
<1>5. GotFits'
  BY <1>1, <1>3 DEF LocalTypeOK, GotFits
<1>6. ASSUME NEW q \in Readers
      PROVE  /\ pc'[q] \in InCall => flight'[track'[q]] = q
             /\ pc'[q] = "waiting" => flight'[track'[q]] # Nil
  <2>1. pc'[q] \in InCall => q # r /\ pc[q] \in InCall /\ track[q] \in Tracks
    BY <1>1, <1>3, TrackOfReader
  <2>2. pc'[q] \in InCall => track[q] # track[r]
    BY <2>1, <1>1, LeadersDiffer
  <2>3. pc'[q] = "waiting" => pc[q] = "waiting" /\ track[q] # track[r] /\ track[q] \in Tracks
    BY <1>1, TrackOfReader DEF woken
  <2> QED
    BY <1>1, <1>2, <2>1, <2>2, <2>3 DEF OneRenderPerTrack, LocalTypeOK
<1>7. ASSUME NEW t \in Tracks, flight'[t] # Nil
      PROVE  pc'[flight'[t]] \in InCall /\ track'[flight'[t]] = t
  <2>1. t # track[r] /\ flight'[t] = flight[t]
    BY <1>1, <1>2, <1>7 DEF LocalTypeOK
  <2>2. pc[flight[t]] \in InCall /\ track[flight[t]] = t /\ flight[t] \in Readers
    BY <1>7, <2>1 DEF FlightHasLeader, LocalTypeOK
  <2>3. flight[t] # r /\ flight[t] \notin woken
    BY <2>1, <2>2, <1>3
  <2> QED
    BY <1>1, <2>1, <2>2, <2>3
<1>8. (NoRedundantRender /\ KeyedByTrack)'
  BY <1>1 DEF LocalTypeOK, NoRedundantRender, KeyedByTrack
<1> QED
  BY <1>4, <1>5, <1>6, <1>7, <1>8 DEF OneRenderPerTrack, FlightHasLeader

LEMMA ReturnInv ==
    ASSUME LocalInv, NEW r \in Readers, Return(r)
    PROVE  LocalInv'
<1> USE DEF LocalInv, Return, Goto, Obtain, cacheVars, InCall
<1>1. LocalTypeOK'
  BY DEF LocalTypeOK
<1>2. GotFits'
  BY ReplyAssumption DEF LocalTypeOK, GotFits, Reply
<1>3. OneRenderPerTrack'
  BY DEF LocalTypeOK, OneRenderPerTrack
<1>4. FlightHasLeader'
  BY DEF LocalTypeOK, FlightHasLeader
<1>5. (NoRedundantRender /\ KeyedByTrack)'
  BY DEF LocalTypeOK, NoRedundantRender, KeyedByTrack
<1> QED
  BY <1>1, <1>2, <1>3, <1>4, <1>5

LEMMA SourceChangesInv ==
    ASSUME LocalInv, NEW s \in Sources, SourceChanges(s)
    PROVE  LocalInv'
<1> USE DEF LocalInv, SourceChanges, cacheVars, readVars
<1>1. disk' \in [Sources -> Versions]
  BY BoundsAssumption DEF LocalTypeOK, Versions
<1> QED
  BY <1>1 DEF LocalTypeOK, GotFits, OneRenderPerTrack, FlightHasLeader,
              NoRedundantRender, KeyedByTrack

-----------------------------------------------------------------------------
LEMMA InitIInv == Init => IInv
<1> SUFFICES ASSUME Init PROVE IInv
  OBVIOUS
<1>1. CP!IInv
  BY CacheInit DEF Init
<1>2. LocalTypeOK /\ GotFits
  BY BoundsAssumption, ReplyAssumption
     DEF Init, LocalTypeOK, GotFits, Versions, Reply, InCall
<1>3. OneRenderPerTrack /\ FlightHasLeader
  BY DEF Init, OneRenderPerTrack, FlightHasLeader, InCall
<1>4. NoRedundantRender /\ KeyedByTrack
  BY DEF Init, C!Init, NoRedundantRender, KeyedByTrack
<1> QED
  BY <1>1, <1>2, <1>3, <1>4 DEF IInv

LEMMA NextLocalInv ==
    ASSUME IInv, Next
    PROVE  LocalInv'
<1>1. LocalInv
  BY DEF IInv, LocalInv
<1>2. ASSUME NEW r \in Readers, NEW t \in Tracks, NEW h \in BOOLEAN, BeginRead(r, t, h)
      PROVE  LocalInv'
  BY <1>1, <1>2, BeginReadInv
<1>3. ASSUME NEW r \in Readers,
             Lookup(r) \/ Do(r) \/ Recheck(r) \/ Render(r)
      PROVE  LocalInv'
  BY <1>1, <1>3, LookupInv, DoInv, RecheckInv, RenderInv
<1>4. ASSUME NEW r \in Readers,
             Store(r) \/ Evict(r) \/ Stored(r) \/ Finish(r) \/ Return(r)
      PROVE  LocalInv'
  BY <1>1, <1>4, StoreInv, EvictInv, StoredInv, FinishInv, ReturnInv
<1>5. ASSUME NEW s \in Sources, SourceChanges(s)
      PROVE  LocalInv'
  BY <1>1, <1>5, SourceChangesInv
<1> QED
  BY <1>2, <1>3, <1>4, <1>5 DEF Next, Proceed

LEMMA NextIInv == IInv /\ [Next]_vars => IInv' /\ [C!Next]_C!vars
<1> SUFFICES ASSUME IInv, [Next]_vars PROVE IInv' /\ [C!Next]_C!vars
  OBVIOUS
<1>1. CASE Next
  <2>1. [C!Next]_C!vars
    BY <1>1, NextIsCacheStep
  <2>2. CP!IInv'
    BY <2>1, CacheStep DEF IInv
  <2>3. LocalInv'
    BY <1>1, NextLocalInv
  <2> QED
    BY <2>1, <2>2, <2>3 DEF IInv, LocalInv
<1>2. CASE UNCHANGED vars
  <2>1. UNCHANGED C!vars
    BY <1>2 DEF vars, cacheVars, C!vars
  <2>2. CP!IInv'
    BY <2>1, CacheStep DEF IInv
  <2>3. LocalInv'
    BY <1>2 DEF IInv, LocalInv, vars, cacheVars, readVars, LocalTypeOK, GotFits,
       OneRenderPerTrack, FlightHasLeader, NoRedundantRender, KeyedByTrack
  <2> QED
    BY <2>1, <2>2, <2>3 DEF IInv, LocalInv
<1> QED
  BY <1>1, <1>2

THEOREM IInvInvariant == Spec => []IInv
<1> QED
  BY InitIInv, NextIInv, PTL DEF Spec

(* The store stays within its types, its cache included.                   *)
THEOREM TypeCorrect == Spec => []TypeOK
<1>1. IInv => TypeOK
  BY CacheTypes DEF IInv, LocalTypeOK, TypeOK
<1> QED
  BY <1>1, IInvInvariant, PTL

(* However many readers ask for a track at once, one of them renders it    *)
(* and the others wait for that one.                                       *)
THEOREM RendersCoalesced == Spec => []OneRenderPerTrack
<1>1. IInv => OneRenderPerTrack
  BY DEF IInv
<1> QED
  BY <1>1, IInvInvariant, PTL

(* No call is left behind without a reader that will end it.               *)
THEOREM FlightsLed == Spec => []FlightHasLeader
<1>1. IInv => FlightHasLeader
  BY DEF IInv
<1> QED
  BY <1>1, IInvInvariant, PTL

(* A track is not rendered while the cache holds it.                       *)
THEOREM RendersNeeded == Spec => []NoRedundantRender
<1>1. IInv => NoRedundantRender
  BY DEF IInv
<1> QED
  BY <1>1, IInvInvariant, PTL

(* Readers get renderings of the tracks they asked for.                    *)
THEOREM TracksNotMixed == Spec => []RightTrack
<1>1. IInv => RightTrack
  BY DEF IInv, GotFits, KeyedByTrack, RightTrack
<1> QED
  BY <1>1, IInvInvariant, PTL

-----------------------------------------------------------------------------
(***************************************************************************)
(* The track store implements MonotonicReads, for every value of the       *)
(* constants.                                                              *)
(*                                                                         *)
(* The argument orders the versions of a track that are around at once:    *)
(* what has been shown, then what the readers about to return hold, then   *)
(* what the cache holds or the leader in flight is about to fill it with,  *)
(* then what is on disk.  No step can put one of them out of order.        *)
(***************************************************************************)

Holds(r) == got[r] \in Rendering

HistoryTypeOK ==
    /\ shown \in [Tracks -> Nat]
    /\ since \in [Readers -> Nat]

(* What has been shown is no newer than what the cache holds or the disk.  *)
ShownFirst ==
    \A t \in Tracks :
        /\ shown[t] <= disk[SourceOf[t]]
        /\ items[t] # Nil => /\ shown[t] <= items[t].data.ver
                             /\ items[t].data.ver <= disk[SourceOf[t]]

(* What a reader must respect is no newer than what has been shown since.  *)
SinceFirst == \A r \in Readers : pc[r] # "idle" => since[r] <= shown[track[r]]

(* What a reader holds respects what it must, and is no newer than what    *)
(* the cache holds or the disk.                                            *)
HeldBetween ==
    \A r \in Readers : Holds(r) =>
        /\ pc[r] \in {"emulate", "store", "evict", "finish", "reply"}
        /\ since[r] <= got[r].ver
        /\ got[r].ver <= disk[SourceOf[track[r]]]
        /\ items[track[r]] # Nil => got[r].ver <= items[track[r]].data.ver

(* What a leader holds is no older than what has been shown or the cache   *)
(* holds ...                                                               *)
LeaderLast ==
    \A r \in Readers : Holds(r) /\ pc[r] \in InCall =>
        /\ shown[track[r]] <= got[r].ver
        /\ items[track[r]] # Nil => items[track[r]].data.ver <= got[r].ver

(* ... or any other reader of the track holds.                             *)
LeaderNewest ==
    \A r, q \in Readers :
        Holds(r) /\ Holds(q) /\ pc[q] \in InCall /\ track[r] = track[q]
            => got[r].ver <= got[q].ver

HistoryInv ==
    /\ HistoryTypeOK
    /\ ShownFirst
    /\ SinceFirst
    /\ HeldBetween
    /\ LeaderLast
    /\ LeaderNewest

(* The versions the invariant compares are numbers.                        *)
LEMMA VersionTypes ==
    ASSUME IInv
    PROVE  /\ \A r \in Readers : Holds(r) => got[r].ver \in Nat
           /\ \A t \in Tracks : items[t] # Nil => /\ items[t].data \in Rendering
                                                  /\ items[t].data.ver \in Nat
           /\ \A t \in Tracks : disk[SourceOf[t]] \in Nat
           /\ \A r \in Readers : pc[r] # "idle" => track[r] \in Tracks
           /\ \A r \in Readers : Holds(r) => pc[r] # "idle"
<1>1. \A d \in Rendering : d.ver \in Nat
  BY BoundsAssumption DEF Rendering, Versions
<1>2. \A t \in Tracks : items[t] # Nil => items[t].data \in Rendering
  BY CacheTypes DEF IInv
<1>3. \A t \in Tracks : disk[SourceOf[t]] \in Nat
  BY BoundsAssumption, SourceOfAssumption DEF IInv, LocalTypeOK, Versions
<1>4. \A r \in Readers : pc[r] # "idle" => track[r] \in Tracks
  BY DEF IInv, LocalTypeOK
<1>5. \A r \in Readers : Holds(r) => pc[r] # "idle"
  BY ReplyAssumption DEF IInv, GotFits, Holds, Reply
<1> QED
  BY <1>1, <1>2, <1>3, <1>4, <1>5 DEF Holds

LEMMA BeginReadHistoryInv ==
    ASSUME IInv, HistoryInv, NEW r \in Readers, NEW t \in Tracks, NEW h \in BOOLEAN,
           BeginReadHistory(r, t, h)
    PROVE  HistoryInv'
<1> USE VersionTypes DEF HistoryInv
<1>1. /\ items' = items /\ disk' = disk /\ got' = got /\ shown' = shown
      /\ pc' = [pc EXCEPT ![r] = "get"] /\ track' = [track EXCEPT ![r] = t]
      /\ since' = [since EXCEPT ![r] = shown[t]] /\ pc[r] = "idle" /\ ~Holds(r)
  BY DEF BeginReadHistory, BeginRead, Goto, cacheVars
<1>2. \A q \in Readers : q # r => /\ pc'[q] = pc[q] /\ track'[q] = track[q]
                                  /\ since'[q] = since[q]
  BY <1>1 DEF IInv, LocalTypeOK, HistoryTypeOK
<1>3. pc'[r] = "get" /\ track'[r] = t /\ since'[r] = shown[t]
  BY <1>1 DEF IInv, LocalTypeOK, HistoryTypeOK
<1>4. \A q \in Readers : Holds(q)' <=> Holds(q)
  BY <1>1 DEF Holds
<1>5. HistoryTypeOK'
  BY <1>1 DEF HistoryTypeOK
<1>6. ShownFirst'
  BY <1>1 DEF ShownFirst
<1>7. SinceFirst'
  BY <1>1, <1>2, <1>3 DEF SinceFirst, HistoryTypeOK
<1>8. (HeldBetween /\ LeaderLast /\ LeaderNewest)'
  BY <1>1, <1>2, <1>4 DEF HeldBetween, LeaderLast, LeaderNewest
<1> QED
  BY <1>5, <1>6, <1>7, <1>8

(* A reader that returns had something between what was shown and what is  *)
(* held by everybody that comes after it, so showing it keeps the order.   *)
LEMMA ReturnHistoryInv ==
    ASSUME IInv, HistoryInv, NEW r \in Readers, ReturnHistory(r)
    PROVE  HistoryInv'
<1> USE VersionTypes DEF HistoryInv
<1>1. /\ items' = items /\ disk' = disk
      /\ pc' = [pc EXCEPT ![r] = "idle"] /\ track' = [track EXCEPT ![r] = Nil]
      /\ got' = [got EXCEPT ![r] = Nil] /\ since' = [since EXCEPT ![r] = 0]
      /\ pc[r] = "reply" /\ track[r] \in Tracks
  BY DEF ReturnHistory, Return, Goto, Obtain, cacheVars
<1>2. \A q \in Readers : q # r => /\ pc'[q] = pc[q] /\ track'[q] = track[q]
                                  /\ since'[q] = since[q] /\ got'[q] = got[q]
  BY <1>1 DEF IInv, LocalTypeOK, HistoryTypeOK
<1>3. pc'[r] = "idle" /\ ~Holds(r)'
  BY <1>1, ReplyAssumption DEF IInv, LocalTypeOK, Holds, Reply
<1>4. \A q \in Readers : q # r => (Holds(q)' <=> Holds(q))
  BY <1>2 DEF Holds
<1>5. \A t \in Tracks : /\ shown'[t] \in Nat /\ shown[t] <= shown'[t]
                        /\ \/ shown'[t] = shown[t]
                           \/ Holds(r) /\ t = track[r] /\ shown'[t] = got[r].ver
  BY <1>1 DEF ReturnHistory, Holds, HistoryTypeOK
<1>6. HistoryTypeOK'
  BY <1>1, <1>5 DEF HistoryTypeOK, ReturnHistory, Holds
<1>7. ShownFirst'
  BY <1>1, <1>5 DEF ShownFirst, HeldBetween
<1>8. SinceFirst'
  BY <1>2, <1>3, <1>5 DEF SinceFirst, HistoryTypeOK
<1>9. HeldBetween'
  BY <1>1, <1>2, <1>3, <1>4 DEF HeldBetween
<1>10. LeaderLast'
  BY <1>1, <1>2, <1>3, <1>4, <1>5 DEF LeaderLast, LeaderNewest
<1>11. LeaderNewest'
  BY <1>2, <1>3, <1>4 DEF LeaderNewest
<1> QED
  BY <1>6, <1>7, <1>8, <1>9, <1>10, <1>11

LEMMA SourceChangesHistoryInv ==
    ASSUME IInv, HistoryInv, NEW s \in Sources, SourceChanges(s), UNCHANGED <<shown, since>>
    PROVE  HistoryInv'
<1> USE VersionTypes DEF HistoryInv
<1>1. \A t \in Tracks : disk[SourceOf[t]] <= disk'[SourceOf[t]] /\ disk'[SourceOf[t]] \in Nat
  BY SourceOfAssumption, BoundsAssumption DEF SourceChanges, IInv, LocalTypeOK, Versions
<1>2. UNCHANGED <<items, pc, track, got>>
  BY DEF SourceChanges, cacheVars, readVars
<1>3. \A q \in Readers : Holds(q)' <=> Holds(q)
  BY <1>2 DEF Holds
<1>4. (HistoryTypeOK /\ SinceFirst /\ LeaderLast /\ LeaderNewest)'
  BY <1>2, <1>3 DEF HistoryTypeOK, SinceFirst, LeaderLast, LeaderNewest
<1>5. ShownFirst'
  BY <1>1, <1>2 DEF ShownFirst, HistoryTypeOK
<1>6. HeldBetween'
  BY <1>1, <1>2, <1>3 DEF HeldBetween
<1> QED
  BY <1>4, <1>5, <1>6

-----------------------------------------------------------------------------
(* The steps of a reader inside a read leave the history and the disk      *)
(* alone, and the read itself in progress.                                 *)
LEMMA ProceedFrame ==
    ASSUME IInv, NEW r \in Readers, Proceed(r)
    PROVE  /\ disk' = disk /\ track' = track
           /\ \A q \in Readers : pc'[q] = "idle" <=> pc[q] = "idle"
<1>1. disk' = disk /\ track' = track
  BY DEF Proceed, Lookup, Do, Recheck, Render, Load, Rendered, RenderFails,
         Store, Evict, Stored, Finish, readVars
<1>2. LocalTypeOK /\ LocalTypeOK'
  <2>1. LocalInv'
    BY NextLocalInv DEF Next
  <2> QED
    BY <2>1 DEF IInv, LocalInv
<1> QED
  BY <1>1, <1>2 DEF LocalTypeOK

(* A step that obtains nothing and changes no entry.                       *)
LEMMA PassInv ==
    ASSUME IInv, HistoryInv, NEW r \in Readers,
           Do(r) \/ Rendered(r) \/ Stored(r), UNCHANGED <<shown, since>>
    PROVE  HistoryInv'
<1> USE VersionTypes DEF HistoryInv
<1>1. UNCHANGED <<items, disk, track, got, shown, since>>
  BY DEF Do, Rendered, Stored, cacheVars, C!SetReturn
<1>2. \A q \in Readers : pc'[q] = "idle" <=> pc[q] = "idle"
  BY ProceedFrame DEF Proceed, Render
<1>3. \A q \in Readers : Holds(q)' <=> Holds(q)
  BY <1>1 DEF Holds
<1>4. \A q \in Readers : Holds(q) =>
         /\ pc'[q] \in {"emulate", "store", "evict", "finish", "reply"}
         /\ pc'[q] \in InCall => pc[q] \in InCall
  BY DEF Do, Rendered, Stored, Goto, HeldBetween, IInv, LocalTypeOK, InCall
<1>5. (HistoryTypeOK /\ ShownFirst /\ SinceFirst)'
  BY <1>1, <1>2 DEF HistoryTypeOK, ShownFirst, SinceFirst
<1>6. HeldBetween'
  BY <1>1, <1>3, <1>4 DEF HeldBetween
<1>7. (LeaderLast /\ LeaderNewest)'
  BY <1>1, <1>3, <1>4 DEF LeaderLast, LeaderNewest
<1> QED
  BY <1>5, <1>6, <1>7

(* A reader that looks its track up obtains what the cache holds, which is *)
(* what a leader beyond its fill holds as well.                            *)
LEMMA LookupHistoryInv ==
    ASSUME IInv, HistoryInv, NEW r \in Readers,
           Lookup(r) \/ Recheck(r), UNCHANGED <<shown, since>>
    PROVE  HistoryInv'
<1> USE VersionTypes DEF HistoryInv
<1> DEFINE t == track[r]
<1>1. /\ items' = items /\ UNCHANGED <<disk, track, shown, since>>
      /\ t \in Tracks /\ pc[r] \in {"get", "recheck"} /\ ~Holds(r)
  BY GetItems DEF Lookup, Recheck, HeldBetween
<1>2. \A q \in Readers : q # r => pc'[q] = pc[q] /\ got'[q] = got[q]
  BY DEF Lookup, Recheck, Goto, Obtain, IInv, LocalTypeOK
<1>3. \A q \in Readers : q # r => (Holds(q)' <=> Holds(q))
  BY <1>2 DEF Holds
<1>4. Holds(r)' => /\ items[t] # Nil /\ got'[r] = items[t].data
                   /\ pc'[r] \in {"finish", "reply"}
  BY <1>1, ReplyAssumption
     DEF Lookup, Recheck, Goto, Obtain, IInv, LocalTypeOK, Holds, Reply
<1>5. pc[r] # "idle" /\ pc'[r] # "idle"
  BY ProceedFrame, <1>1 DEF Proceed
<1>6. (HistoryTypeOK /\ ShownFirst)'
  BY <1>1 DEF HistoryTypeOK, ShownFirst
<1>7. SinceFirst'
  BY <1>1, <1>2, <1>5 DEF SinceFirst
<1>8. HeldBetween'
  <2>1. Holds(r)' => since[r] <= got'[r].ver /\ got'[r].ver <= disk[SourceOf[t]]
    BY <1>1, <1>4 DEF ShownFirst, SinceFirst, HistoryTypeOK
  <2>2. Holds(r)' => got'[r].ver <= items[t].data.ver
    BY <1>1, <1>4
  <2>3. ASSUME NEW q \in Readers, Holds(q)'
        PROVE  /\ pc'[q] \in {"emulate", "store", "evict", "finish", "reply"}
               /\ since[q] <= got'[q].ver
               /\ got'[q].ver <= disk[SourceOf[track[q]]]
               /\ items[track[q]] # Nil => got'[q].ver <= items[track[q]].data.ver
    <3>1. CASE q = r
      BY <3>1, <2>1, <2>2, <2>3, <1>4
    <3>2. CASE q # r
      BY <3>2, <2>3, <1>2, <1>3 DEF HeldBetween
    <3> QED
      BY <3>1, <3>2
  <2> QED
    BY <1>1, <2>3 DEF HeldBetween
<1>9. LeaderLast'
  BY <1>1, <1>2, <1>3, <1>4 DEF LeaderLast, ShownFirst
<1>10. ASSUME NEW p \in Readers, NEW q \in Readers, Holds(p)', Holds(q)',
              pc'[q] \in InCall, track[p] = track[q]
       PROVE  got'[p].ver <= got'[q].ver
  <2>1. CASE p = r /\ q = r
    <3>1. got'[r].ver \in Nat
      BY <2>1, <1>1, <1>4, <1>10
    <3> QED
      BY <2>1, <3>1
  <2>2. CASE p = r /\ q # r
    BY <2>2, <1>1, <1>2, <1>3, <1>4, <1>10 DEF LeaderLast
  <2>3. CASE p # r /\ q = r
    BY <2>3, <1>1, <1>2, <1>3, <1>4, <1>10 DEF HeldBetween
  <2>4. CASE p # r /\ q # r
    BY <2>4, <1>2, <1>3, <1>10 DEF LeaderNewest
  <2> QED
    BY <2>1, <2>2, <2>3, <2>4
<1> QED
  BY <1>1, <1>6, <1>7, <1>8, <1>9, <1>10 DEF LeaderNewest

(* The leader reads the source, of which nothing newer is around, or fails.*)
LEMMA LoadHistoryInv ==
    ASSUME IInv, HistoryInv, NEW r \in Readers,
           Load(r) \/ RenderFails(r), UNCHANGED <<shown, since>>
    PROVE  HistoryInv'
<1> USE VersionTypes DEF HistoryInv
<1> DEFINE t == track[r]
<1>1. /\ UNCHANGED <<items, disk, track, shown, since>>
      /\ t \in Tracks /\ pc[r] \in {"load", "emulate"} /\ pc[r] \in InCall
  BY DEF Load, RenderFails, cacheVars, InCall
<1>2. \A q \in Readers : q # r => pc'[q] = pc[q] /\ got'[q] = got[q]
  BY DEF Load, RenderFails, Goto, Obtain, IInv, LocalTypeOK
<1>3. \A q \in Readers : q # r => (Holds(q)' <=> Holds(q))
  BY <1>2 DEF Holds
<1>4. Holds(r)' => got'[r].ver = disk[SourceOf[t]] /\ pc'[r] = "emulate" /\ items[t] = Nil
  BY <1>1, ReplyAssumption
     DEF Load, RenderFails, Goto, Obtain, IInv, LocalTypeOK, Holds, NoRedundantRender
<1>5. pc[r] # "idle" /\ pc'[r] # "idle"
  BY ProceedFrame, <1>1 DEF Proceed, Render
<1>6. (HistoryTypeOK /\ ShownFirst)'
  BY <1>1 DEF HistoryTypeOK, ShownFirst
<1>7. SinceFirst'
  BY <1>1, <1>2, <1>5 DEF SinceFirst
<1>8. HeldBetween'
  <2>1. since[r] <= shown[t] /\ shown[t] <= disk[SourceOf[t]]
    BY <1>1, <1>5 DEF ShownFirst, SinceFirst
  <2>2. Holds(r)' => since[r] <= got'[r].ver /\ got'[r].ver <= disk[SourceOf[t]]
    BY <1>1, <1>4, <2>1 DEF HistoryTypeOK
  <2> QED
    BY <1>1, <1>2, <1>3, <1>4, <2>2 DEF HeldBetween
<1>9. LeaderLast'
  BY <1>1, <1>2, <1>3, <1>4 DEF LeaderLast, ShownFirst
<1>10. ASSUME NEW p \in Readers, NEW q \in Readers, Holds(p)', Holds(q)',
              pc'[q] \in InCall, track[p] = track[q]
       PROVE  got'[p].ver <= got'[q].ver
  <2>1. CASE q = r
    <3>1. p # r => got[p].ver <= disk[SourceOf[t]]
      BY <2>1, <1>1, <1>3, <1>10 DEF HeldBetween
    <3> QED
      BY <2>1, <3>1, <1>1, <1>2, <1>4, <1>10
  <2>2. CASE q # r
    <3>1. p # r
      BY <2>2, <1>1, <1>2, <1>10, LeadersDiffer DEF IInv, LocalInv
    <3> QED
      BY <2>2, <3>1, <1>2, <1>3, <1>10 DEF LeaderNewest
  <2> QED
    BY <2>1, <2>2
<1> QED
  BY <1>1, <1>6, <1>7, <1>8, <1>9, <1>10 DEF LeaderNewest

(* The leader fills the cache with what nobody holds a newer version of.   *)
LEMMA StoreHistoryInv ==
    ASSUME IInv, HistoryInv, NEW r \in Readers, Store(r), UNCHANGED <<shown, since>>
    PROVE  HistoryInv'
<1> USE VersionTypes DEF HistoryInv
<1> DEFINE t == track[r]
<1>1. /\ UNCHANGED <<disk, track, got, shown, since>>
      /\ t \in Tracks /\ pc[r] = "store" /\ pc[r] \in InCall /\ Holds(r)
      /\ items' = [items EXCEPT ![t] = [k |-> t, data |-> got[r]]]
  BY DEF Store, InCall, IInv, GotFits, Holds, C!Set
<1>2. /\ items'[t].data = got[r] /\ items'[t] # Nil
      /\ \A u \in Tracks : u # t => items'[u] = items[u]
  BY <1>1, CacheTypes, EntryAssumption DEF IInv, C!TypeOK, Holds
<1>3. /\ \A q \in Readers : q # r => pc'[q] = pc[q]
      /\ pc'[r] = "evict"
  BY DEF Store, Goto, IInv, LocalTypeOK
<1>4. \A q \in Readers : Holds(q)' <=> Holds(q)
  BY <1>1 DEF Holds
<1>5. HistoryTypeOK'
  BY <1>1 DEF HistoryTypeOK
<1>6. ShownFirst'
  BY <1>1, <1>2 DEF ShownFirst, LeaderLast, HeldBetween
<1>7. SinceFirst'
  BY <1>1, <1>3 DEF SinceFirst
<1>8. HeldBetween'
  BY <1>1, <1>2, <1>3, <1>4 DEF HeldBetween, LeaderNewest
<1>9. LeaderLast'
  <2>1. ASSUME NEW q \in Readers, Holds(q), pc'[q] \in InCall, q # r
        PROVE  pc[q] \in InCall /\ track[q] # t /\ track[q] \in Tracks
    BY <2>1, <1>1, <1>3, LeadersDiffer DEF IInv, LocalInv
  <2> QED
    BY <1>1, <1>2, <1>3, <1>4, <2>1 DEF LeaderLast
<1>10. LeaderNewest'
  BY <1>1, <1>3, <1>4 DEF LeaderNewest, InCall
<1> QED
  BY <1>5, <1>6, <1>7, <1>8, <1>9, <1>10

LEMMA EvictHistoryInv ==
    ASSUME IInv, HistoryInv, NEW r \in Readers, Evict(r), UNCHANGED <<shown, since>>
    PROVE  HistoryInv'
<1> USE VersionTypes DEF HistoryInv
<1>1. UNCHANGED <<disk, pc, track, got, shown, since>>
  BY DEF Evict, readVars
<1>2. \A t \in Tracks : items'[t] \in {items[t], Nil}
  <2>1. items \in [Tracks -> C!Entry \cup {Nil}]
    BY CacheTypes DEF IInv, C!TypeOK
  <2>2. PICK x : items' = [items EXCEPT ![x] = Nil]
    BY DEF Evict, C!EvictBack
  <2> QED
    BY <2>1, <2>2
<1>3. \A q \in Readers : Holds(q)' <=> Holds(q)
  BY <1>1 DEF Holds
<1>4. (HistoryTypeOK /\ SinceFirst /\ LeaderNewest)'
  BY <1>1, <1>3 DEF HistoryTypeOK, SinceFirst, LeaderNewest
<1>5. ShownFirst'
  BY <1>1, <1>2 DEF ShownFirst
<1>6. (HeldBetween /\ LeaderLast)'
  BY <1>1, <1>2, <1>3 DEF HeldBetween, LeaderLast
<1> QED
  BY <1>4, <1>5, <1>6

(* The waiters obtain what the leader held.                                *)
LEMMA FinishHistoryInv ==
    ASSUME IInv, HistoryInv, NEW r \in Readers, Finish(r), UNCHANGED <<shown, since>>
    PROVE  HistoryInv'
<1> USE VersionTypes DEF HistoryInv
<1> DEFINE woken == {w \in Readers : pc[w] = "waiting" /\ track[w] = track[r]}
<1>1. /\ UNCHANGED <<items, disk, track, shown, since>>
      /\ pc[r] = "finish" /\ pc[r] \in InCall /\ track[r] \in Tracks
      /\ pc' = [w \in Readers |-> IF w = r \/ w \in woken THEN "reply" ELSE pc[w]]
      /\ got' = [w \in Readers |-> IF w \in woken THEN got[r] ELSE got[w]]
  BY DEF Finish, cacheVars, InCall
<1>2. \A w \in woken : /\ w \in Readers /\ pc[w] = "waiting" /\ track[w] = track[r]
                       /\ pc'[w] = "reply" /\ got'[w] = got[r] /\ (Holds(w)' <=> Holds(r))
  BY <1>1 DEF Holds
<1>3. \A q \in Readers : q \notin woken => got'[q] = got[q] /\ (Holds(q)' <=> Holds(q))
  BY <1>1 DEF Holds
<1>4. \A q \in Readers : /\ pc'[q] # pc[q] => pc'[q] = "reply" /\ pc[q] # "idle"
                         /\ pc'[q] \in InCall => /\ pc[q] \in InCall /\ q \notin woken
                                                 /\ q # r
  BY <1>1 DEF InCall
<1> HIDE DEF woken
<1>5. (HistoryTypeOK /\ ShownFirst)'
  BY <1>1 DEF HistoryTypeOK, ShownFirst
<1>6. SinceFirst'
  BY <1>1, <1>4 DEF SinceFirst
<1>7. ASSUME NEW q \in Readers, Holds(q)'
      PROVE  /\ pc'[q] \in {"emulate", "store", "evict", "finish", "reply"}
             /\ since[q] <= got'[q].ver
             /\ got'[q].ver <= disk[SourceOf[track[q]]]
             /\ items[track[q]] # Nil => got'[q].ver <= items[track[q]].data.ver
  <2>1. CASE q \in woken
    <3>1. /\ got'[q] = got[r] /\ Holds(r) /\ track[q] = track[r]
          /\ pc'[q] = "reply" /\ pc[q] # "idle"
      BY <2>1, <1>2, <1>7
    <3>2. since[q] <= shown[track[r]] /\ shown[track[r]] <= got[r].ver
      BY <3>1, <1>1 DEF SinceFirst, LeaderLast
    <3>3. since[q] <= got[r].ver
      BY <3>1, <3>2, <1>1 DEF HistoryTypeOK
    <3> QED
      BY <3>1, <3>3 DEF HeldBetween
  <2>2. CASE q \notin woken
    BY <2>2, <1>3, <1>4, <1>7 DEF HeldBetween
  <2> QED
    BY <2>1, <2>2
<1>8. LeaderLast'
  BY <1>1, <1>3, <1>4 DEF LeaderLast
<1>9. ASSUME NEW p \in Readers, NEW q \in Readers, Holds(p)', Holds(q)',
             pc'[q] \in InCall, track[p] = track[q]
      PROVE  got'[p].ver <= got'[q].ver
  <2>1. pc[q] \in InCall /\ q \notin woken /\ q # r /\ Holds(q) /\ got'[q] = got[q]
    BY <1>3, <1>4, <1>9
  <2>2. track[q] # track[r]
    BY <2>1, <1>1, LeadersDiffer DEF IInv, LocalInv
  <2>3. p \notin woken
    BY <2>2, <1>2, <1>9
  <2> QED
    BY <2>1, <2>3, <1>3, <1>9 DEF LeaderNewest
<1> QED
  BY <1>1, <1>5, <1>6, <1>7, <1>8, <1>9 DEF HeldBetween, LeaderNewest

-----------------------------------------------------------------------------
LEMMA InitHistoryInv == InitHistory => IInv /\ HistoryInv
<1> SUFFICES ASSUME InitHistory PROVE IInv /\ HistoryInv
  OBVIOUS
<1>1. IInv
  BY InitIInv DEF InitHistory
<1>2. \A r \in Readers : ~Holds(r) /\ pc[r] = "idle"
  BY ReplyAssumption DEF InitHistory, Init, Holds, Reply
<1>3. HistoryTypeOK
  BY DEF InitHistory, HistoryTypeOK
<1>4. ShownFirst
  BY SourceOfAssumption DEF InitHistory, Init, C!Init, ShownFirst
<1> QED
  BY <1>1, <1>2, <1>3, <1>4
     DEF HistoryInv, SinceFirst, HeldBetween, LeaderLast, LeaderNewest

LEMMA NextHistoryInv ==
    IInv /\ HistoryInv /\ [NextHistory]_historyVars => IInv' /\ HistoryInv'
<1> SUFFICES ASSUME IInv, HistoryInv, [NextHistory]_historyVars
             PROVE  IInv' /\ HistoryInv'
  OBVIOUS
<1>1. [Next]_vars
  BY DEF NextHistory, historyVars, BeginReadHistory, ReturnHistory, Next
<1>2. IInv'
  BY <1>1, NextIInv
<1>3. ASSUME NEW r \in Readers, NEW t \in Tracks, NEW h \in BOOLEAN,
             BeginReadHistory(r, t, h)
      PROVE  HistoryInv'
  BY <1>3, BeginReadHistoryInv
<1>4. ASSUME NEW r \in Readers, ReturnHistory(r)
      PROVE  HistoryInv'
  BY <1>4, ReturnHistoryInv
<1>5. ASSUME NEW r \in Readers, Proceed(r), UNCHANGED <<shown, since>>
      PROVE  HistoryInv'
  BY <1>5, PassInv, LookupHistoryInv, LoadHistoryInv, StoreHistoryInv,
     EvictHistoryInv, FinishHistoryInv DEF Proceed, Render
<1>6. ASSUME NEW s \in Sources, SourceChanges(s), UNCHANGED <<shown, since>>
      PROVE  HistoryInv'
  BY <1>6, SourceChangesHistoryInv
<1>7. CASE UNCHANGED historyVars
  <2>1. UNCHANGED <<items, disk, pc, track, got, shown, since>>
    BY <1>7 DEF historyVars, vars, cacheVars, readVars
  <2>2. \A q \in Readers : Holds(q)' <=> Holds(q)
    BY <2>1 DEF Holds
  <2>3. (HistoryTypeOK /\ ShownFirst /\ SinceFirst)'
    BY <2>1 DEF HistoryInv, HistoryTypeOK, ShownFirst, SinceFirst
  <2>4. (HeldBetween /\ LeaderLast /\ LeaderNewest)'
    BY <2>1, <2>2 DEF HistoryInv, HeldBetween, LeaderLast, LeaderNewest
  <2> QED
    BY <1>2, <2>3, <2>4 DEF HistoryInv
<1> QED
  BY <1>2, <1>3, <1>4, <1>5, <1>6, <1>7 DEF NextHistory

(* Every step is a step of the clients' specification or invisible to them.*)
LEMMA StepRefines ==
    ASSUME IInv, HistoryInv, [NextHistory]_historyVars
    PROVE  [Clients!Next]_<<disk, shown, Reading, answer>>
<1> USE VersionTypes
<1> DEFINE open(r) == [track |-> track[r], since |-> since[r]]
<1>0. \A r \in Readers : pc[r] # "idle" => open(r) # Nil
  BY OpenAssumption DEF HistoryInv, HistoryTypeOK
<1>1. ASSUME NEW r \in Readers, NEW t \in Tracks, NEW h \in BOOLEAN,
             BeginReadHistory(r, t, h)
      PROVE  Clients!Begin(r, t)
  <2>1. /\ pc[r] = "idle" /\ pc' = [pc EXCEPT ![r] = "get"]
        /\ track' = [track EXCEPT ![r] = t] /\ since' = [since EXCEPT ![r] = shown[t]]
        /\ UNCHANGED <<disk, shown, answer>>
    BY <1>1 DEF BeginReadHistory, BeginRead, Goto
  <2>2. Reading[r] = Nil
    BY <2>1 DEF Reading
  <2>3. Reading' = [Reading EXCEPT ![r] = [track |-> t, since |-> shown[t]]]
    BY <2>1 DEF Reading, IInv, LocalTypeOK, HistoryInv, HistoryTypeOK
  <2> QED
    BY <2>1, <2>2, <2>3 DEF Clients!Begin
<1>2. ASSUME NEW r \in Readers, ReturnHistory(r)
      PROVE  Clients!ReturnAudio(r) \/ Clients!ReturnOther(r)
  <2>1. /\ pc[r] = "reply" /\ pc' = [pc EXCEPT ![r] = "idle"]
        /\ track' = [track EXCEPT ![r] = Nil] /\ since' = [since EXCEPT ![r] = 0]
        /\ UNCHANGED disk
    BY <1>2 DEF ReturnHistory, Return, Goto
  <2>2. Reading[r] = open(r) /\ Reading[r] # Nil /\ track[r] \in Tracks
    BY <2>1, <1>0 DEF Reading
  <2>3. Reading' = [Reading EXCEPT ![r] = Nil]
    BY <2>1 DEF Reading, IInv, LocalTypeOK, HistoryInv, HistoryTypeOK
  <2>4. CASE Holds(r)
    <3>1. /\ got[r].ver \in since[r] .. disk[SourceOf[track[r]]]
      BY <2>2, <2>4 DEF HistoryInv, HeldBetween, HistoryTypeOK
    <3>2. shown' = [shown EXCEPT ![track[r]] = IF got[r].ver > @ THEN got[r].ver ELSE @]
      BY <1>2, <2>2, <2>4 DEF ReturnHistory, Holds, HistoryInv, HistoryTypeOK
    <3>3. Reading[r].track = track[r] /\ Reading[r].since = since[r]
      BY <2>2
    <3>4. answer' = [track |-> track[r], ver |-> got[r].ver]
      BY <1>2, <2>4 DEF ReturnHistory, Holds, Rendering, IInv, GotFits
    <3>5. Clients!ReturnAudio(r)
      BY <2>1, <2>2, <2>3, <3>1, <3>2, <3>3, <3>4, Zenon DEF Clients!ReturnAudio
    <3> QED
      BY <3>5
  <2>5. CASE ~Holds(r)
    <3>1. shown' = shown /\ answer' = Nil
      BY <1>2, <2>5 DEF ReturnHistory, Holds
    <3> QED
      BY <2>1, <2>2, <2>3, <3>1 DEF Clients!ReturnOther
  <2> QED
    BY <2>4, <2>5
<1>3. ASSUME NEW r \in Readers, Proceed(r), UNCHANGED <<shown, since, answer>>
      PROVE  UNCHANGED <<disk, shown, Reading, answer>>
  BY <1>3, ProceedFrame DEF Reading
<1>4. ASSUME NEW s \in Sources, SourceChanges(s), UNCHANGED <<shown, since, answer>>
      PROVE  Clients!SourceChanges(s)
  BY <1>4 DEF SourceChanges, readVars, Clients!SourceChanges, Reading
<1>5. CASE UNCHANGED historyVars
  BY <1>5 DEF historyVars, vars, readVars, Reading
<1> QED
  BY <1>1, <1>2, <1>3, <1>4, <1>5 DEF NextHistory, Clients!Next

(* No time travel: the track store implements MonotonicReads.              *)
THEOREM StoreImplementsMonotonicReads == SpecHistory => ImplementsMonotonicReads
<1>1. InitHistory => Clients!Init
  <2> SUFFICES ASSUME InitHistory PROVE Clients!Init
    OBVIOUS
  <2>1. Reading = [r \in Readers |-> Nil]
    BY DEF InitHistory, Init, Reading
  <2> QED
    BY <2>1 DEF InitHistory, Init, Clients!Init
<1>2. IInv /\ HistoryInv /\ [NextHistory]_historyVars
        => [Clients!Next]_<<disk, shown, Reading, answer>>
  BY StepRefines
<1> QED
  BY <1>1, <1>2, InitHistoryInv, NextHistoryInv, PTL
     DEF SpecHistory, ImplementsMonotonicReads, Clients!Spec

-----------------------------------------------------------------------------
(***************************************************************************)
(* Virtual tracks read like plain files, for every set of clients and      *)
(* tracks, every length of header and file, every offset and read size.    *)
(*                                                                         *)
(* A reply can only be empty where the source it is cut from ends, so all  *)
(* that matters is which source that is: the header serves only reads that *)
(* start within it, and a reader that waits for a call or leads one has    *)
(* left the header behind.                                                 *)
(***************************************************************************)

(* What a read gets of a source is no more than it asked for and than the  *)
(* source holds from there on, and nothing exactly when it starts past it. *)
LEMMA SliceLenBounds ==
    ASSUME NEW len \in Nat, NEW off \in Nat, NEW n \in Nat \ {0}
    PROVE  /\ SliceLen(len, off, n) \in 0..n
           /\ off < len => SliceLen(len, off, n) \in 1..(len - off)
           /\ off >= len => SliceLen(len, off, n) = 0
BY DEF SliceLen

(* The header is what a read got only if it starts there; every read that  *)
(* returns has got something.                                              *)
ReplyFits ==
    \A r \in Readers :
        /\ pc[r] # "reply" => got[r] # HeaderOnly
        /\ pc[r] \in {"do", "waiting"} \cup InCall => ~header[r]
        /\ pc[r] = "reply" => /\ got[r] \in Reply
                              /\ got[r] = HeaderOnly => header[r]

(* The read in progress is the one the client asked for.                   *)
ReadFits ==
    \A r \in Readers :
        /\ status[r] = "reading" => file[r] \in Tracks
        /\ pc[r] # "idle" => /\ status[r] = "reading"
                             /\ track[r] = file[r]
                             /\ want[r] \in ReadSizes
                             /\ header[r] <=> InHeader(file[r], pos[r])

FileInv == TypeOKFile /\ ReplyFits /\ ReadFits

-----------------------------------------------------------------------------
(* The steps of the store.                                                 *)

(* What the cache holds is a rendering, so neither Nil nor HeaderOnly.     *)
LEMMA CachedIsAudio ==
    ASSUME IInv, NEW t \in Tracks, items[t] # Nil
    PROVE  items[t].data \in Rendering /\ items[t].data # HeaderOnly
BY CacheTypes, ReplyAssumption DEF IInv

LEMMA LookupReplyFits ==
    ASSUME IInv, ReplyFits, NEW r \in Readers, Lookup(r) \/ Recheck(r)
    PROVE  ReplyFits'
<1>1. track[r] \in Tracks
  BY DEF IInv, LocalTypeOK, Lookup, Recheck
<1>2. items[track[r]] # Nil => /\ items[track[r]].data \in Reply
                               /\ items[track[r]].data # HeaderOnly
  BY <1>1, CachedIsAudio DEF Reply
<1>3. \A q \in Readers : q # r => /\ pc'[q] = pc[q]
                                  /\ got'[q] = got[q]
                                  /\ header'[q] = header[q]
  BY DEF Lookup, Recheck, Goto, Obtain, IInv, LocalTypeOK
<1>4. CASE Lookup(r)
  <2>1. /\ pc[r] = "get" /\ header' = header /\ got[r] # HeaderOnly
        /\ \/ pc'[r] = "reply" /\ got'[r] \in Reply /\ got'[r] # HeaderOnly
           \/ pc'[r] = "reply" /\ got'[r] = HeaderOnly /\ header[r]
           \/ pc'[r] = "do" /\ got'[r] = got[r] /\ ~header[r]
    BY <1>2, <1>4 DEF Lookup, Goto, Obtain, IInv, LocalTypeOK, ReplyFits
  <2>2. HeaderOnly \in Reply
    BY DEF Reply
  <2> QED
    BY <1>3, <2>1, <2>2 DEF ReplyFits, InCall
<1>5. CASE Recheck(r)
  <2>1. /\ pc[r] = "recheck" /\ header' = header /\ ~header[r] /\ got[r] # HeaderOnly
        /\ \/ pc'[r] = "finish" /\ got'[r] # HeaderOnly
           \/ pc'[r] = "load" /\ got'[r] = got[r]
    BY <1>2, <1>5 DEF Recheck, Goto, Obtain, IInv, LocalTypeOK, ReplyFits, InCall
  <2> QED
    BY <1>3, <2>1 DEF ReplyFits, InCall
<1> QED
  BY <1>4, <1>5

LEMMA RenderReplyFits ==
    ASSUME IInv, ReplyFits, NEW r \in Readers, Render(r)
    PROVE  ReplyFits'
<1>1. /\ pc[r] \in {"load", "emulate"}
      /\ pc'[r] \in {"emulate", "store", "finish"}
      /\ header' = header
      /\ \A q \in Readers : q # r => pc'[q] = pc[q] /\ got'[q] = got[q]
  BY DEF Render, Load, Rendered, RenderFails, Goto, Obtain, IInv, LocalTypeOK
<1>2. got'[r] # HeaderOnly
  <2>1. CASE Load(r)
    <3>1. track[r] \in Tracks /\ disk[SourceOf[track[r]]] \in Versions
      BY <2>1, SourceOfAssumption DEF Load, IInv, LocalTypeOK
    <3>2. got'[r] \in Rendering
      BY <2>1, <3>1 DEF Load, Obtain, Rendering, IInv, LocalTypeOK
    <3> QED
      BY <3>2, ReplyAssumption
  <2>2. CASE Rendered(r)
    BY <2>2 DEF Rendered, ReplyFits
  <2>3. CASE RenderFails(r)
    BY <2>3, ReplyAssumption DEF RenderFails, Obtain, IInv, LocalTypeOK
  <2> QED
    BY <2>1, <2>2, <2>3 DEF Render
<1> QED
  BY <1>1, <1>2 DEF ReplyFits, InCall

LEMMA FinishReplyFits ==
    ASSUME IInv, ReplyFits, NEW r \in Readers, Finish(r)
    PROVE  ReplyFits'
<1>1. /\ pc[r] = "finish" /\ header' = header
      /\ got[r] \in Reply /\ got[r] # HeaderOnly
  BY DEF Finish, IInv, GotFits, ReplyFits
<1>2. \A q \in Readers :
        \/ pc'[q] = pc[q] /\ got'[q] = got[q] /\ q # r
        \/ pc'[q] = "reply" /\ got'[q] = got[r]
  BY DEF Finish
<1> QED
  BY <1>1, <1>2 DEF ReplyFits, InCall

LEMMA NextReplyFits ==
    ASSUME IInv, ReplyFits, [Next]_vars
    PROVE  ReplyFits'
<1>1. ASSUME NEW r \in Readers, NEW t \in Tracks, NEW h \in BOOLEAN, BeginRead(r, t, h)
      PROVE  ReplyFits'
  <2>1. /\ got' = got /\ pc[r] = "idle" /\ pc'[r] = "get"
        /\ \A q \in Readers : q # r => pc'[q] = pc[q] /\ header'[q] = header[q]
    BY <1>1 DEF BeginRead, Goto, IInv, LocalTypeOK
  <2> QED
    BY <2>1 DEF ReplyFits, InCall
<1>2. ASSUME NEW r \in Readers, Do(r) \/ Store(r) \/ Evict(r) \/ Stored(r)
      PROVE  ReplyFits'
  <2>1. /\ got' = got /\ header' = header
        /\ pc[r] \in {"do"} \cup InCall
        /\ pc'[r] \in {"waiting"} \cup InCall
        /\ \A q \in Readers : q # r => pc'[q] = pc[q]
    BY <1>2 DEF Do, Store, Evict, Stored, readVars, Goto, IInv, LocalTypeOK, InCall
  <2> QED
    BY <2>1 DEF ReplyFits, InCall
<1>3. ASSUME NEW r \in Readers, Return(r)
      PROVE  ReplyFits'
  <2>1. /\ pc'[r] = "idle" /\ got'[r] = Nil
        /\ \A q \in Readers : q # r => /\ pc'[q] = pc[q]
                                       /\ got'[q] = got[q]
                                       /\ header'[q] = header[q]
    BY <1>3 DEF Return, Goto, Obtain, IInv, LocalTypeOK
  <2>2. Nil # HeaderOnly
    BY ReplyAssumption DEF Reply
  <2> QED
    BY <2>1, <2>2 DEF ReplyFits, InCall
<1>4. ASSUME NEW s \in Sources, SourceChanges(s)
      PROVE  ReplyFits'
  BY <1>4 DEF SourceChanges, readVars, ReplyFits
<1>5. CASE UNCHANGED vars
  BY <1>5 DEF vars, readVars, ReplyFits
<1> QED
  BY <1>1, <1>2, <1>3, <1>4, <1>5, LookupReplyFits, RenderReplyFits, FinishReplyFits
     DEF Next, Proceed

-----------------------------------------------------------------------------
(* The steps of the clients.                                               *)

(* A client's reading goes on, or ends as its reply says.                  *)
LEMMA ReplyIsOfTheFile ==
    ASSUME IInv, FileInv, NEW r \in Readers, pc[r] = "reply", got[r] # EIO
    PROVE  /\ ReplyLen(r) \in Nat
           /\ ReplyLen(r) = 0 => pos[r] >= Bytes[file[r]]
           /\ ReplyLen(r) > 0 => ReplyLen(r) \in 1..(Bytes[file[r]] - pos[r])
<1>1. /\ track[r] = file[r] /\ file[r] \in Tracks /\ pos[r] \in Nat
      /\ want[r] \in Nat \ {0}
  BY ReadSizesAssumption DEF FileInv, ReadFits, TypeOKFile
<1>2. /\ HeaderLen[file[r]] \in Nat /\ Bytes[file[r]] \in Nat
      /\ HeaderLen[file[r]] <= Bytes[file[r]]
  BY <1>1, HeaderLenAssumption, BytesAssumption
<1>3. CASE got[r] = HeaderOnly
  <2>1. pos[r] < HeaderLen[file[r]]
    BY <1>3 DEF FileInv, ReplyFits, ReadFits, InHeader
  <2>2. ReplyLen(r) = SliceLen(HeaderLen[file[r]], pos[r], want[r])
    BY <1>1, <1>3 DEF ReplyLen
  <2>3. ReplyLen(r) \in 1..(HeaderLen[file[r]] - pos[r])
    BY <1>1, <1>2, <2>1, <2>2, SliceLenBounds
  <2> QED
    BY <1>1, <1>2, <2>3
<1>4. CASE got[r] # HeaderOnly
  <2>1. got[r] \in Rendering
    BY <1>4 DEF FileInv, ReplyFits, Reply
  <2>2. got[r].track = file[r]
    BY <1>1, <2>1 DEF IInv, GotFits
  <2>3. ReplyLen(r) = SliceLen(Bytes[file[r]], pos[r], want[r])
    BY <1>4, <2>2 DEF ReplyLen
  <2>4. CASE pos[r] < Bytes[file[r]]
    <3>1. ReplyLen(r) \in 1..(Bytes[file[r]] - pos[r])
      BY <1>1, <1>2, <2>3, <2>4, SliceLenBounds
    <3> QED
      BY <1>1, <1>2, <2>4, <3>1
  <2>5. CASE pos[r] >= Bytes[file[r]]
    <3>1. ReplyLen(r) = 0
      BY <1>1, <1>2, <2>3, <2>5, SliceLenBounds
    <3> QED
      BY <2>5, <3>1
  <2> QED
    BY <1>1, <1>2, <2>4, <2>5
<1> QED
  BY <1>3, <1>4

LEMMA OpenTrackInv ==
    ASSUME IInv, FileInv, NEW r \in Readers, NEW t \in Tracks,
           NEW o \in 0..(Bytes[t] + 1), OpenTrack(r, t, o)
    PROVE  TypeOKFile' /\ ReadFits' /\ View!Open(r, t)
<1>1. o \in Nat
  BY BytesAssumption
<1>2. pc[r] = "idle"
  BY NilAssumption DEF FileInv, ReadFits, OpenTrack
<1>3. UNCHANGED <<pc, track, header, want>>
  BY DEF OpenTrack, vars, readVars
<1>4. TypeOKFile'
  BY <1>1, <1>3 DEF OpenTrack, FileInv, TypeOKFile
<1>5. ReadFits'
  BY <1>2, <1>3 DEF OpenTrack, FileInv, TypeOKFile, ReadFits, InHeader
<1>6. View!Open(r, t)
  <2>1. pos'[r] = o
    BY DEF OpenTrack, FileInv, TypeOKFile
  <2> QED
    BY <1>1, <2>1 DEF OpenTrack, View!Open
<1> QED
  BY <1>4, <1>5, <1>6

LEMMA ReadOnInv ==
    ASSUME IInv, FileInv, NEW r \in Readers, NEW n \in ReadSizes, ReadOn(r, n)
    PROVE  TypeOKFile' /\ ReadFits' /\ UNCHANGED <<file, pos, status>>
<1>1. UNCHANGED <<file, pos, status>>
  BY DEF ReadOn
<1>2. TypeOKFile'
  BY <1>1 DEF ReadOn, FileInv, TypeOKFile
<1>3. /\ pc'[r] = "get" /\ track'[r] = file[r] /\ want'[r] = n
      /\ header'[r] = InHeader(file[r], pos[r])
      /\ status[r] = "reading"
  BY DEF ReadOn, BeginRead, Goto, IInv, LocalTypeOK, FileInv, TypeOKFile
<1>4. \A q \in Readers : q # r => /\ pc'[q] = pc[q] /\ track'[q] = track[q]
                                  /\ want'[q] = want[q] /\ header'[q] = header[q]
  BY DEF ReadOn, BeginRead, Goto, IInv, LocalTypeOK, FileInv, TypeOKFile
<1>5. ReadFits'
  BY <1>1, <1>3, <1>4 DEF FileInv, ReadFits, InHeader
<1> QED
  BY <1>1, <1>2, <1>5

LEMMA ReceiveInv ==
    ASSUME IInv, FileInv, NEW r \in Readers, Receive(r)
    PROVE  /\ TypeOKFile' /\ ReadFits'
           /\ View!Receive(r) \/ View!EndOfFile(r) \/ View!Fail(r)
<1>1. /\ pc[r] = "reply" /\ status[r] = "reading" /\ file' = file
      /\ pos[r] \in Nat
  BY DEF Receive, Return, FileInv, ReadFits, TypeOKFile
<1>2. /\ pc'[r] = "idle"
      /\ \A q \in Readers : q # r => /\ pc'[q] = pc[q] /\ track'[q] = track[q]
                                     /\ want'[q] = want[q] /\ header'[q] = header[q]
                                     /\ pos'[q] = pos[q] /\ status'[q] = status[q]
  BY DEF Receive, Return, Goto, IInv, LocalTypeOK, FileInv, TypeOKFile
<1>3. want' \in [Readers -> ReadSizes \cup {0}]
  BY DEF Receive, FileInv, TypeOKFile
<1>4. ReadFits'
  <2>1. status'[r] = "reading" => file[r] \in Tracks
    BY <1>1 DEF FileInv, ReadFits
  <2> QED
    BY <1>1, <1>2, <2>1 DEF FileInv, ReadFits, InHeader
<1>5. CASE got[r] = EIO
  <2>1. pos' = pos /\ status' = [status EXCEPT ![r] = "error"]
    BY <1>1, <1>5 DEF Receive
  <2> QED
    BY <1>1, <1>3, <1>4, <2>1 DEF FileInv, TypeOKFile, View!Fail
<1>6. CASE got[r] # EIO /\ ReplyLen(r) = 0
  <2>1. pos[r] >= Bytes[file[r]]
    BY <1>1, <1>6, ReplyIsOfTheFile
  <2>2. pos' = pos /\ status' = [status EXCEPT ![r] = "eof"]
    BY <1>6 DEF Receive
  <2> QED
    BY <1>1, <1>3, <1>4, <2>1, <2>2 DEF FileInv, TypeOKFile, View!EndOfFile
<1>7. CASE got[r] # EIO /\ ReplyLen(r) > 0
  <2>1. ReplyLen(r) \in 1..(Bytes[file[r]] - pos[r])
    BY <1>1, <1>7, ReplyIsOfTheFile
  <2>2. pos' = [pos EXCEPT ![r] = @ + ReplyLen(r)] /\ status' = status
    BY <1>7 DEF Receive
  <2>3. /\ pos[r] + ReplyLen(r) \in Nat
        /\ pos[r] + ReplyLen(r) <= Bytes[file[r]] + 1
    BY <1>1, <1>7, <2>1, ReplyIsOfTheFile, BytesAssumption DEF FileInv, ReadFits
  <2>4. TypeOKFile'
    BY <1>1, <1>3, <2>2, <2>3 DEF FileInv, TypeOKFile
  <2>5. View!Receive(r)
    BY <1>1, <2>1, <2>2 DEF View!Receive
  <2> QED
    BY <1>4, <2>4, <2>5
<1> QED
  BY <1>5, <1>6, <1>7 DEF Receive

LEMMA CloseTrackInv ==
    ASSUME IInv, FileInv, NEW r \in Readers, CloseTrack(r)
    PROVE  TypeOKFile' /\ ReadFits' /\ View!Close(r)
<1>1. status[r] # "reading" /\ UNCHANGED <<pc, track, header, want, status>>
  BY DEF CloseTrack, vars, readVars
<1>2. TypeOKFile'
  BY <1>1 DEF CloseTrack, FileInv, TypeOKFile
<1>3. ReadFits'
  BY <1>1 DEF CloseTrack, FileInv, ReadFits, TypeOKFile, InHeader
<1>4. View!Close(r)
  BY DEF CloseTrack, View!Close
<1> QED
  BY <1>2, <1>3, <1>4

(* A reader inside a read stays inside it, for the same track.             *)
LEMMA FileProceedFrame ==
    ASSUME IInv, NEW r \in Readers, Proceed(r)
    PROVE  /\ track' = track /\ header' = header
           /\ \A q \in Readers : pc'[q] # "idle" => pc[q] # "idle"
<1>1. track' = track /\ header' = header
  BY DEF Proceed, Lookup, Do, Recheck, Render, Load, Rendered, RenderFails,
         Store, Evict, Stored, Finish, readVars
<1>2. LocalTypeOK /\ LocalTypeOK'
  <2>1. LocalInv'
    BY NextLocalInv DEF Next
  <2> QED
    BY <2>1 DEF IInv, LocalInv
<1> QED
  BY <1>1, <1>2 DEF LocalTypeOK

LEMMA InitFileInv == InitFile => IInv /\ FileInv
<1> SUFFICES ASSUME InitFile PROVE IInv /\ FileInv
  OBVIOUS
<1>1. IInv
  BY InitIInv DEF InitFile
<1>2. Nil # HeaderOnly
  BY ReplyAssumption DEF Reply
<1> QED
  BY <1>1, <1>2 DEF InitFile, Init, FileInv, TypeOKFile, ReplyFits, ReadFits, InCall

(* Every step keeps the invariant and is one of the plain file's, or       *)
(* invisible to its clients.                                               *)
LEMMA NextFileInv ==
    ASSUME IInv, FileInv, [NextFile]_fileVars
    PROVE  IInv' /\ FileInv' /\ [View!Next]_View!vars
<1>1. [Next]_vars
  <2>1. ASSUME NEW r \in Readers, NEW n \in ReadSizes, ReadOn(r, n)
        PROVE  Next
    <3>1. file[r] \in Tracks
      BY <2>1 DEF ReadOn, FileInv, ReadFits
    <3>2. InHeader(file[r], pos[r]) \in BOOLEAN
      BY DEF InHeader
    <3>3. BeginRead(r, file[r], InHeader(file[r], pos[r]))
      BY <2>1 DEF ReadOn
    <3> QED
      BY <3>1, <3>2, <3>3 DEF Next
  <2> QED
    BY <2>1 DEF NextFile, fileVars, OpenTrack, Receive, CloseTrack, Next
<1>2. IInv' /\ ReplyFits'
  BY <1>1, NextIInv, NextReplyFits DEF FileInv
<1>3. TypeOKFile' /\ ReadFits' /\ [View!Next]_View!vars
  <2>1. ASSUME NEW r \in Readers, NEW t \in Tracks, NEW o \in 0..(Bytes[t] + 1),
               OpenTrack(r, t, o)
        PROVE  TypeOKFile' /\ ReadFits' /\ View!Next
    BY <2>1, OpenTrackInv DEF View!Next
  <2>2. ASSUME NEW r \in Readers, NEW n \in ReadSizes, ReadOn(r, n)
        PROVE  TypeOKFile' /\ ReadFits' /\ UNCHANGED View!vars
    BY <2>2, ReadOnInv DEF View!vars
  <2>3. ASSUME NEW r \in Readers, Receive(r)
        PROVE  TypeOKFile' /\ ReadFits' /\ View!Next
    BY <2>3, ReceiveInv DEF View!Next
  <2>4. ASSUME NEW r \in Readers, CloseTrack(r)
        PROVE  TypeOKFile' /\ ReadFits' /\ View!Next
    BY <2>4, CloseTrackInv DEF View!Next
  <2>5. ASSUME NEW r \in Readers, Proceed(r), UNCHANGED clientVars
        PROVE  TypeOKFile' /\ ReadFits' /\ UNCHANGED View!vars
    BY <2>5, FileProceedFrame
       DEF clientVars, FileInv, TypeOKFile, ReadFits, InHeader, View!vars
  <2>6. ASSUME NEW s \in Sources, SourceChanges(s), UNCHANGED clientVars
        PROVE  TypeOKFile' /\ ReadFits' /\ UNCHANGED View!vars
    BY <2>6 DEF SourceChanges, readVars,
       clientVars, FileInv, TypeOKFile, ReadFits, InHeader, View!vars
  <2>7. CASE UNCHANGED fileVars
    BY <2>7 DEF fileVars, vars, readVars,
       clientVars, FileInv, TypeOKFile, ReadFits, InHeader, View!vars
  <2> QED
    BY <2>1, <2>2, <2>3, <2>4, <2>5, <2>6, <2>7 DEF NextFile
<1> QED
  BY <1>2, <1>3 DEF FileInv

(* The clients' state stays within its types: no offset is negative or     *)
(* beyond the end, and no read is for a length nobody asked for.           *)
THEOREM FileTypeCorrect == SpecFile => []TypeOKFile
<1>1. IInv /\ FileInv /\ [NextFile]_fileVars => IInv' /\ FileInv'
  BY NextFileInv
<1>2. FileInv => TypeOKFile
  BY DEF FileInv
<1> QED
  BY <1>1, <1>2, InitFileInv, PTL DEF SpecFile

(* TrackFile.Read's header check: probing metadata never starts a render.  *)
THEOREM ProbesNeverRender == SpecFile => []HeaderNeverRenders
<1>1. IInv /\ FileInv /\ [NextFile]_fileVars => IInv' /\ FileInv'
  BY NextFileInv
<1>2. FileInv => HeaderNeverRenders
  <2> SUFFICES ASSUME FileInv, NEW r \in Readers, pc[r] \in {"do", "waiting"} \cup InCall
               PROVE  pos[r] >= HeaderLen[track[r]]
    BY DEF HeaderNeverRenders
  <2>1. ~InHeader(file[r], pos[r]) /\ track[r] = file[r] /\ file[r] \in Tracks
    BY DEF FileInv, ReplyFits, ReadFits, InCall
  <2>2. HeaderLen[file[r]] \in Nat /\ pos[r] \in Nat
    BY <2>1, HeaderLenAssumption DEF FileInv, TypeOKFile
  <2> QED
    BY <2>1, <2>2 DEF InHeader
<1> QED
  BY <1>1, <1>2, InitFileInv, PTL DEF SpecFile

(* A virtual track reads like a plain file of the size reported, whatever  *)
(* is rendered, stored and evicted between two reads of it.                *)
THEOREM TrackFileImplementsVirtualFile == SpecFile => ImplementsVirtualFile
<1>1. IInv /\ FileInv /\ [NextFile]_fileVars
        => IInv' /\ FileInv' /\ [View!Next]_View!vars
  BY NextFileInv
<1>2. InitFile => View!Init
  BY DEF InitFile, View!Init
<1> QED
  BY <1>1, <1>2, InitFileInv, PTL DEF SpecFile, ImplementsVirtualFile, View!Spec
=============================================================================
