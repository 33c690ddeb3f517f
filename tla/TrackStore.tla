----------------------------- MODULE TrackStore -----------------------------
(***************************************************************************)
(* Concurrent reads of the virtual WAV files: TrackFile.Read and           *)
(* trackStore.render in src/internal/vfs/vfs.go, over the cache of module  *)
(* Cache and the call group of golang.org/x/sync/singleflight.             *)
(*                                                                         *)
(* A reader is a goroutine that serves one FUSE read at a time.  A step is *)
(* what the code does between two points where another goroutine can get   *)
(* in: an acquisition of the cache's mutex, of the call group's mutex, a   *)
(* turn of Set's loop, the reading of the source file, the emulation.      *)
(* A rendering is told apart by its track and by the version of the source *)
(* file it was rendered from; the source file may be replaced at any time. *)
(***************************************************************************)
EXTENDS Integers, FiniteSets, SequencesExt

CONSTANTS
    Readers,
    Tracks,         \* (source path, track index) pairs
    Sources,
    SourceOf,       \* SourceOf[t]: the source file of track t
    Bytes,          \* Bytes[t]: the length of t's rendered WAV, fixed by fitSamples
    MaxBytes,       \* the capacity of the cache
    MaxVersion,     \* bound: how often a source file is replaced
    Free, Nil,      \* of the cache; Nil also stands for "no call", "nothing yet"
    EIO,            \* the reply of a read that failed
    HeaderOnly      \* the reply of a read served from the pre-built header

Versions == 0..MaxVersion
Rendering == [track : Tracks, ver : Versions]
Reply == Rendering \cup {EIO, HeaderOnly}

ASSUME SourceOfAssumption == SourceOf \in [Tracks -> Sources]
ASSUME BytesAssumption == Bytes \in [Tracks -> Nat]
ASSUME BoundsAssumption == MaxBytes \in Int /\ MaxVersion \in Nat
ASSUME ReplyAssumption ==
    /\ EIO \notin Rendering /\ HeaderOnly \notin Rendering /\ EIO # HeaderOnly
    /\ Nil \notin Reply
ASSUME NilAssumption == Nil \notin Readers \cup Tracks
ASSUME FreeAssumption == Free \notin Readers
ASSUME EntryAssumption == Nil \notin [k : Tracks, data : Rendering]

VARIABLES
    mu, used, items, lru,   \* the cache
    disk,                   \* the version of each source file
    flight,                 \* track -> the reader that leads the call in flight, or Nil
    pc,                     \* what each reader does next
    track,                  \* the track it reads, or Nil
    header,                 \* whether its read starts within the WAV header
    got                     \* what it has obtained so far

cacheVars == <<mu, used, items, lru>>
readVars == <<pc, track, header, got>>
vars == <<cacheVars, disk, flight, readVars>>

C == INSTANCE Cache WITH Callers <- Readers, Keys <- Tracks, Data <- Rendering,
                         Size <- [d \in Rendering |-> Bytes[d.track]]

Init ==
    /\ C!Init
    /\ disk = [s \in Sources |-> 0]
    /\ flight = [t \in Tracks |-> Nil]
    /\ pc = [r \in Readers |-> "idle"]
    /\ track = [r \in Readers |-> Nil]
    /\ header = [r \in Readers |-> FALSE]
    /\ got = [r \in Readers |-> Nil]

-----------------------------------------------------------------------------
(* Reads.                                                                  *)

Goto(r, there) == pc' = [pc EXCEPT ![r] = there]
Obtain(r, what) == got' = [got EXCEPT ![r] = what]

(* The kernel hands over a read of t, in the header or in the PCM data.    *)
BeginRead(r, t, h) ==
    /\ pc[r] = "idle"
    /\ Goto(r, "get")
    /\ track' = [track EXCEPT ![r] = t]
    /\ header' = [header EXCEPT ![r] = h]
    /\ UNCHANGED <<cacheVars, disk, flight, got>>

(* Read looks the track up; a miss in the header needs no rendering.       *)
Lookup(r) ==
    /\ pc[r] = "get"
    /\ C!Get(track[r])
    /\ \/ /\ items[track[r]] # Nil
          /\ Obtain(r, items[track[r]].data)
          /\ Goto(r, "reply")
       \/ /\ items[track[r]] = Nil
          /\ header[r]
          /\ Obtain(r, HeaderOnly)
          /\ Goto(r, "reply")
       \/ /\ items[track[r]] = Nil
          /\ ~header[r]
          /\ Goto(r, "do")
          /\ UNCHANGED got
    /\ UNCHANGED <<disk, flight, track, header>>

\* A render that starts its own call whatever is in flight (a mutation of Do).
DoAlone(r) ==
    /\ pc[r] = "do"
    /\ flight' = [flight EXCEPT ![track[r]] = r]
    /\ Goto(r, "recheck")
    /\ UNCHANGED <<cacheVars, disk, track, header, got>>

(* singleflight.Do: the first caller for a track leads, the others wait.   *)
Do(r) ==
    /\ pc[r] = "do"
    /\ \/ /\ flight[track[r]] = Nil
          /\ flight' = [flight EXCEPT ![track[r]] = r]
          /\ Goto(r, "recheck")
       \/ /\ flight[track[r]] # Nil
          /\ Goto(r, "waiting")
          /\ UNCHANGED flight
    /\ UNCHANGED <<cacheVars, disk, track, header, got>>

\* A leader that does not look again (a mutation of Recheck).
RecheckNever(r) ==
    /\ pc[r] = "recheck"
    /\ mu = Free
    /\ Goto(r, "load")
    /\ UNCHANGED <<cacheVars, disk, flight, track, header, got>>

(* The leader looks again: a call that has just ended may have filled it.  *)
Recheck(r) ==
    /\ pc[r] = "recheck"
    /\ C!Get(track[r])
    /\ \/ /\ items[track[r]] # Nil
          /\ Obtain(r, items[track[r]].data)
          /\ Goto(r, "finish")
       \/ /\ items[track[r]] = Nil
          /\ Goto(r, "load")
          /\ UNCHANGED got
    /\ UNCHANGED <<disk, flight, track, header>>

(* renderTrack reads the source file.                                      *)
Load(r) ==
    /\ pc[r] = "load"
    /\ Obtain(r, [track |-> track[r], ver |-> disk[SourceOf[track[r]]]])
    /\ Goto(r, "emulate")
    /\ UNCHANGED <<cacheVars, disk, flight, track, header>>

(* renderTrack returns the encoded WAV.                                    *)
Rendered(r) ==
    /\ pc[r] = "emulate"
    /\ Goto(r, "store")
    /\ UNCHANGED <<cacheVars, disk, flight, track, header, got>>

(* renderTrack returns an error or panics, before or after it has read the *)
(* source: the call group hands either to every caller, and Read turns     *)
(* both into EIO.                                                          *)
RenderFails(r) ==
    /\ pc[r] \in {"load", "emulate"}
    /\ Obtain(r, EIO)
    /\ Goto(r, "finish")
    /\ UNCHANGED <<cacheVars, disk, flight, track, header>>

(* The leader fills the cache inside the call ...                          *)
Store(r) ==
    /\ pc[r] = "store"
    /\ C!Set(r, track[r], got[r])
    /\ Goto(r, "evict")
    /\ UNCHANGED <<disk, flight, track, header, got>>

Evict(r) ==
    /\ pc[r] = "evict"
    /\ C!EvictBack(r)
    /\ UNCHANGED <<disk, flight, readVars>>

Stored(r) ==
    /\ pc[r] = "evict"
    /\ C!SetReturn(r)
    /\ Goto(r, "finish")
    /\ UNCHANGED <<disk, flight, track, header, got>>

\* A call that ends without waking its waiters (a mutation of Finish).
FinishSilently(r) ==
    /\ pc[r] = "finish"
    /\ flight' = [flight EXCEPT ![track[r]] = Nil]
    /\ Goto(r, "reply")
    /\ UNCHANGED <<cacheVars, disk, track, header, got>>

\* A call that stays registered when it failed (a mutation of Finish).
FinishKeepsFailed(r) ==
    LET woken == {w \in Readers : pc[w] = "waiting" /\ track[w] = track[r]}
    IN  /\ pc[r] = "finish"
        /\ flight' = IF got[r] = EIO THEN flight ELSE [flight EXCEPT ![track[r]] = Nil]
        /\ pc' = [w \in Readers |-> IF w = r \/ w \in woken THEN "reply" ELSE pc[w]]
        /\ got' = [w \in Readers |-> IF w \in woken THEN got[r] ELSE got[w]]
        /\ UNCHANGED <<cacheVars, disk, track, header>>

\* A call keyed by the source alone: every waiter on the source gets its result
\* (a mutation of Finish).
FinishBySource(r) ==
    LET woken == {w \in Readers : pc[w] = "waiting" /\ SourceOf[track[w]] = SourceOf[track[r]]}
    IN  /\ pc[r] = "finish"
        /\ flight' = [flight EXCEPT ![track[r]] = Nil]
        /\ pc' = [w \in Readers |-> IF w = r \/ w \in woken THEN "reply" ELSE pc[w]]
        /\ got' = [w \in Readers |-> IF w \in woken THEN got[r] ELSE got[w]]
        /\ UNCHANGED <<cacheVars, disk, track, header>>

(* ... and the call ends: its key is gone and its waiters have the result. *)
(* A reader that waits on t waits on this very call, since it joined while *)
(* the key was there and the key and the waiting end together.             *)
Finish(r) ==
    LET woken == {w \in Readers : pc[w] = "waiting" /\ track[w] = track[r]}
    IN  /\ pc[r] = "finish"
        /\ flight' = [flight EXCEPT ![track[r]] = Nil]
        /\ pc' = [w \in Readers |-> IF w = r \/ w \in woken THEN "reply" ELSE pc[w]]
        /\ got' = [w \in Readers |-> IF w \in woken THEN got[r] ELSE got[w]]
        /\ UNCHANGED <<cacheVars, disk, track, header>>

(* Read returns what it has got to the kernel.                             *)
Return(r) ==
    /\ pc[r] = "reply"
    /\ Goto(r, "idle")
    /\ Obtain(r, Nil)
    /\ track' = [track EXCEPT ![r] = Nil]
    /\ header' = [header EXCEPT ![r] = FALSE]
    /\ UNCHANGED <<cacheVars, disk, flight>>

(* Somebody replaces a source file under the mount.                        *)
SourceChanges(s) ==
    /\ disk[s] < MaxVersion
    /\ disk' = [disk EXCEPT ![s] = @ + 1]
    /\ UNCHANGED <<cacheVars, flight, readVars>>

Render(r) == Load(r) \/ Rendered(r) \/ RenderFails(r)

(* What a reader does between taking a read and returning from it.         *)
Proceed(r) ==
    \/ Lookup(r) \/ Do(r) \/ Recheck(r) \/ Render(r)
    \/ Store(r) \/ Evict(r) \/ Stored(r) \/ Finish(r)

Next ==
    \/ \E r \in Readers : \/ \E t \in Tracks, h \in BOOLEAN : BeginRead(r, t, h)
                          \/ Proceed(r)
                          \/ Return(r)
    \/ \E s \in Sources : SourceChanges(s)

Spec == Init /\ [][Next]_vars

(* A goroutine that can run keeps running; an emulation ends (it is        *)
(* bounded by the loop ceiling) in a rendering or in a failure.  The       *)
(* mutex is handed over fairly, as sync.Mutex does in its starvation mode, *)
(* hence strong fairness where a reader locks it.  Nobody is obliged to    *)
(* read, and no source file to change.                                     *)
Fairness ==
    \A r \in Readers :
        /\ SF_vars(Lookup(r)) /\ SF_vars(Recheck(r)) /\ SF_vars(Store(r))
        /\ WF_vars(Do(r)) /\ WF_vars(Render(r))
        /\ WF_vars(Evict(r) \/ Stored(r))
        /\ WF_vars(Finish(r)) /\ WF_vars(Return(r))

FairSpec == Spec /\ Fairness

-----------------------------------------------------------------------------
(* Properties.                                                             *)

(* The points of a call, from singleflight.Do to its end.                  *)
InCall == {"recheck", "load", "emulate", "store", "evict", "finish"}

TypeOK ==
    /\ C!TypeOK
    /\ disk \in [Sources -> Versions]
    /\ flight \in [Tracks -> Readers \cup {Nil}]
    /\ pc \in [Readers -> {"idle", "get", "do", "waiting", "reply"} \cup InCall]
    /\ track \in [Readers -> Tracks \cup {Nil}]
    /\ \A r \in Readers : track[r] = Nil <=> pc[r] = "idle"
    /\ header \in [Readers -> BOOLEAN]
    /\ got \in [Readers -> Reply \cup {Nil}]

(* At most one call per track: whoever is inside one is the leader that    *)
(* the group knows, so two readers never render a track at once; and a     *)
(* waiting reader always has a leader that will wake it.                   *)
OneRenderPerTrack ==
    \A r \in Readers :
        /\ pc[r] \in InCall => flight[track[r]] = r
        /\ pc[r] = "waiting" => flight[track[r]] # Nil

(* A track in flight is led by a reader that is inside a call for it.      *)
FlightHasLeader ==
    \A t \in Tracks : flight[t] # Nil => /\ pc[flight[t]] \in InCall
                                         /\ track[flight[t]] = t

(* No render is redundant: while a track is being rendered, from the       *)
(* reading of its source to the filling of the cache, the cache does not   *)
(* hold it, whatever the other readers store and evict meanwhile.          *)
NoRedundantRender ==
    \A r \in Readers : pc[r] \in {"load", "emulate", "store"} => items[track[r]] = Nil

(* A reader is only ever given a rendering of the track it asked for, and  *)
(* the cache holds each track under its own key.                           *)
RightTrack ==
    /\ \A r \in Readers : got[r] \in Rendering => got[r].track = track[r]
    /\ \A t \in Tracks : items[t] # Nil => items[t].data.track = t

=============================================================================
