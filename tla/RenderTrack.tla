----------------------------- MODULE RenderTrack -----------------------------
(***************************************************************************)
(* One rendering of one track: TrackFile.renderTrack in                    *)
(* src/internal/vfs/vfs.go, from the durations the track was given at scan *)
(* time to the WAV it returns, over the handle of the emulator that        *)
(* src/internal/gme/gme.go wraps.                                          *)
(*                                                                         *)
(* The emulator is external: any of its calls may fail, and it may report  *)
(* the end of the track after any Play, whether or not the fade asked for  *)
(* is over (libgme ends a track early on silence), or never.  A sample is  *)
(* music (the emulator made it) or silence (fitSamples added it).          *)
(***************************************************************************)
EXTENDS Integers, Durations

CONSTANTS
    Ms,                             \* bound: the durations options, files and overrides give
    MaxPlayMs, MaxFadeMs,
    BuiltInPlayMs, BuiltInFadeMs,   \* the defaults of Options.applyDefaults
    SampleRate, Channels,
    ChunkLen,                       \* samples per Play
    NoAudio                         \* nothing rendered

ASSUME MsAssumption == Ms \subseteq Int
ASSUME LimitAssumption ==
    /\ MaxPlayMs \in Nat \ {0} /\ MaxFadeMs \in Nat \ {0}
    /\ BuiltInPlayMs \in Nat \ {0} /\ BuiltInFadeMs \in Nat \ {0}
ASSUME FormatAssumption == SampleRate \in Nat /\ Channels \in Nat /\ ChunkLen \in Nat \ {0}
ASSUME NoAudioAssumption == NoAudio \notin [music : Nat, silence : Nat]

VARIABLES
    playMs, fadeMs,     \* the track's durations
    promise,            \* the samples that EstimatedSize counted
    pc,
    handles,            \* emulator handles that are open
    ended,              \* what TrackEnded reports
    samples,            \* len(allSamples)
    audio               \* what the returned WAV holds, or NoAudio

trackVars == <<playMs, fadeMs, promise>>
vars == <<trackVars, pc, handles, ended, samples, audio>>

-----------------------------------------------------------------------------
(* Durations and lengths.                                                  *)

SampleCount(ms) == ((ms * SampleRate) \div 1000) * Channels

\* A ceiling that leaves out the fade (a mutation of MaxSamples).
MaxPlaySamples == SampleCount(MaxPlayMs)

(* The ceiling of the render loop.                                         *)
MaxSamples == SampleCount(MaxPlayMs + MaxFadeMs)

ExpectedSamples == SampleCount(playMs + fadeMs)

\* A fit that trims and does not pad (a mutation of FitSamples).
TrimSamples(len, n) ==
    IF len >= n THEN [music |-> n, silence |-> 0] ELSE [music |-> len, silence |-> 0]

(* len samples of music made to be exactly n samples.                      *)
FitSamples(len, n) ==
    IF len >= n THEN [music |-> n, silence |-> 0]
                ELSE [music |-> len, silence |-> n - len]

-----------------------------------------------------------------------------

(* A duration comes from the mount's options, then the file, then (in      *)
(* cmd/render) an override; each stage clamps.                             *)
GivenMs(builtIn, max) ==
    {ClampMs(override, ClampMs(file, ApplyDefault(option, builtIn), max), max) :
        option \in Ms, file \in Ms, override \in Ms}

(* newTrackFile computes the size that Getattr reports from the durations. *)
Init ==
    /\ playMs \in GivenMs(BuiltInPlayMs, MaxPlayMs)
    /\ fadeMs \in GivenMs(BuiltInFadeMs, MaxFadeMs)
    /\ promise = ExpectedSamples
    /\ pc = "source"
    /\ handles = 0
    /\ ended = FALSE
    /\ samples = 0
    /\ audio = NoAudio

Goto(there) == pc' = there

(* os.ReadFile; without a source there is no handle yet.                   *)
ReadSource ==
    /\ pc = "source"
    /\ Goto("open") \/ Goto("returned")
    /\ UNCHANGED <<trackVars, handles, ended, samples, audio>>

(* gme.Open gives a handle or an error; only a handle is to be closed.     *)
Open ==
    /\ pc = "open"
    /\ \/ Goto("start") /\ handles' = handles + 1
       \/ Goto("returned") /\ UNCHANGED handles
    /\ UNCHANGED <<trackVars, ended, samples, audio>>

\* An error path that returns without the deferred Close (a mutation of StartTrack).
StartTrackLeaks ==
    /\ pc = "start"
    /\ \/ Goto("fade") /\ ended' \in BOOLEAN
       \/ Goto("returned") /\ UNCHANGED ended
    /\ UNCHANGED <<trackVars, handles, samples, audio>>

\* An error path that closes, and then the deferred Close does (a mutation).
StartTrackCloses ==
    /\ pc = "start"
    /\ \/ Goto("fade") /\ ended' \in BOOLEAN /\ UNCHANGED handles
       \/ Goto("close") /\ handles' = handles - 1 /\ UNCHANGED ended
    /\ UNCHANGED <<trackVars, samples, audio>>

StartTrack ==
    /\ pc = "start"
    /\ \/ Goto("fade") /\ ended' \in BOOLEAN
       \/ Goto("close") /\ UNCHANGED ended
    /\ UNCHANGED <<trackVars, handles, samples, audio>>

SetFade ==
    /\ pc = "fade"
    /\ Goto("loop")
    /\ UNCHANGED <<trackVars, handles, ended, samples, audio>>

(* The condition of the render loop.                                       *)
LoopGoesOn == ~ended /\ samples < MaxSamples

\* A loop without its ceiling (a mutation of Play).
PlayUntilEnded ==
    /\ pc = "loop"
    /\ ~ended
    /\ \/ samples' = samples + ChunkLen /\ ended' \in BOOLEAN /\ UNCHANGED pc
       \/ Goto("close") /\ UNCHANGED <<ended, samples>>
    /\ UNCHANGED <<trackVars, handles, audio>>

\* A Play that starts the track over when it fails (a mutation of Play).
PlayStartsOver ==
    /\ pc = "loop"
    /\ LoopGoesOn
    /\ \/ samples' = samples + ChunkLen /\ ended' \in BOOLEAN /\ UNCHANGED pc
       \/ Goto("start") /\ samples' = 0 /\ UNCHANGED ended
    /\ UNCHANGED <<trackVars, handles, audio>>

(* One turn of the loop: another chunk, or an emulator fault.              *)
Play ==
    /\ pc = "loop"
    /\ LoopGoesOn
    /\ \/ samples' = samples + ChunkLen /\ ended' \in BOOLEAN /\ UNCHANGED pc
       \/ Goto("close") /\ UNCHANGED <<ended, samples>>
    /\ UNCHANGED <<trackVars, handles, audio>>

Encode ==
    /\ pc = "loop"
    /\ ~LoopGoesOn
    /\ audio' = FitSamples(samples, ExpectedSamples)
    /\ Goto("close")
    /\ UNCHANGED <<trackVars, handles, ended, samples>>

(* The deferred Close, on every return past Open.                          *)
Close ==
    /\ pc = "close"
    /\ handles' = handles - 1
    /\ Goto("returned")
    /\ UNCHANGED <<trackVars, ended, samples, audio>>

Next == ReadSource \/ Open \/ StartTrack \/ SetFade \/ Play \/ Encode \/ Close

Spec == Init /\ [][Next]_vars

(* Every call into libgme returns and the goroutine keeps running.         *)
FairSpec == Spec /\ WF_vars(Next)

-----------------------------------------------------------------------------
(* Properties.                                                             *)

(* The state stays within its types; no handle is opened or closed twice.  *)
TypeOK ==
    /\ playMs \in 1..MaxPlayMs
    /\ fadeMs \in 1..MaxFadeMs
    /\ promise \in Nat
    /\ pc \in {"source", "open", "start", "fade", "loop", "close", "returned"}
    /\ handles \in {0, 1}
    /\ ended \in BOOLEAN
    /\ samples \in Nat
    /\ audio \in [music : Nat, silence : Nat] \cup {NoAudio}

(* No emulator survives the rendering that opened it, whichever of its     *)
(* calls failed.                                                           *)
HandleReleased == pc = "returned" => handles = 0

(* The buffer never holds a whole chunk more than the longest track, even  *)
(* when the emulator never reports the end.                                *)
BufferBounded == samples < MaxSamples + ChunkLen

(* Silence takes the place of music only after the emulator has ended the  *)
(* track: a clamped duration never exceeds the ceiling of the loop, as the *)
(* comment on maxPlayMs demands of the two.                                *)
NotCutShort == audio # NoAudio /\ audio.silence > 0 => ended

Phase ==
    IF pc = "source" THEN "load"
    ELSE IF pc # "returned" THEN "emulate"
    ELSE IF audio = NoAudio THEN "failed" ELSE "rendered"

Contract == INSTANCE Renderer WITH phase <- Phase,
                                   result <- IF pc = "returned" THEN audio ELSE NoAudio

(* A rendering returns an error or exactly the samples that Getattr has    *)
(* already reported, however long the emulator played.                     *)
ImplementsRenderer == Contract!Spec

(* A rendering ends, whatever the emulator does.                           *)
RenderEnds == <>(pc = "returned")
=============================================================================
