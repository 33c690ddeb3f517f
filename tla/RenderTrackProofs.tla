-------------------------- MODULE RenderTrackProofs --------------------------
(***************************************************************************)
(* The safety properties of a rendering, and that it implements Renderer,  *)
(* for every limit, default, sample rate, channel count and chunk length   *)
(* and every duration an option, a file or an override may give.           *)
(***************************************************************************)
EXTENDS RenderTrack, TLAPS

(* A clamped duration is positive and within its limit.                    *)
LEMMA ClampMsBounds ==
    ASSUME NEW ms \in Int, NEW default \in Nat \ {0}, NEW max \in Nat \ {0}
    PROVE  ClampMs(ms, default, max) \in 1..max /\ ClampMs(ms, default, max) \in Nat \ {0}
BY DEF ClampMs

(* A default that applyDefaults returns is positive.                       *)
LEMMA ApplyDefaultPositive ==
    ASSUME NEW ms \in Int, NEW builtIn \in Nat \ {0}
    PROVE  ApplyDefault(ms, builtIn) \in Nat \ {0}
BY DEF ApplyDefault

(* Whatever options, files and overrides say, the last clamp decides.      *)
LEMMA GivenMsBounds ==
    ASSUME NEW builtIn \in Nat \ {0}, NEW max \in Nat \ {0}, NEW ms \in GivenMs(builtIn, max)
    PROVE  ms \in 1..max
<1>1. PICK option, file, override \in Ms :
        ms = ClampMs(override, ClampMs(file, ApplyDefault(option, builtIn), max), max)
  BY DEF GivenMs
<1>2. ApplyDefault(option, builtIn) \in Nat \ {0}
  BY ApplyDefaultPositive, MsAssumption
<1>3. ClampMs(file, ApplyDefault(option, builtIn), max) \in Nat \ {0}
  BY <1>2, ClampMsBounds, MsAssumption
<1> QED  BY <1>1, <1>3, ClampMsBounds, MsAssumption

(* A count of samples is a number, and a longer track has no fewer.        *)
LEMMA SampleCountType ==
    ASSUME NEW ms \in Nat
    PROVE  SampleCount(ms) \in Nat
<1> DEFINE frames == (ms * SampleRate) \div 1000
<1>1. ms * SampleRate \in Nat
  BY FormatAssumption
<1>2. frames \in Nat
  BY <1>1
<1>3. frames * Channels \in Nat
  <2> HIDE DEF frames
  <2> QED  BY <1>2, FormatAssumption
<1> QED  BY <1>3 DEF SampleCount

LEMMA SampleCountMonotonic ==
    ASSUME NEW a \in Nat, NEW b \in Nat, a <= b
    PROVE  SampleCount(a) <= SampleCount(b)
<1>1. PICK d \in Nat : b = a + d
  <2>1. b - a \in Nat /\ b = a + (b - a)
    OBVIOUS
  <2> QED  BY <2>1
<1>2. b * SampleRate = a * SampleRate + d * SampleRate
  BY <1>1, FormatAssumption
<1>3. a * SampleRate \in Nat /\ d * SampleRate \in Nat
  BY FormatAssumption
<1>4. (a * SampleRate) \div 1000 <= (b * SampleRate) \div 1000
  <2>1. \A x, y \in Nat : x \div 1000 <= (x + y) \div 1000
    OBVIOUS
  <2> QED  BY <1>2, <1>3, <2>1
<1>5. (a * SampleRate) \div 1000 \in Nat /\ (b * SampleRate) \div 1000 \in Nat
  <2>1. \A x \in Nat : x \div 1000 \in Nat
    OBVIOUS
  <2> QED  BY <1>3, <2>1, FormatAssumption
<1>6. \A x, y \in Nat : x <= y => x * Channels <= y * Channels
  BY FormatAssumption
<1> QED  BY <1>4, <1>5, <1>6 DEF SampleCount

(* Trimmed or padded, the samples are exactly as many as were asked for.   *)
LEMMA FitSamplesExact ==
    ASSUME NEW len \in Nat, NEW n \in Nat
    PROVE  /\ FitSamples(len, n) \in [music : Nat, silence : Nat]
           /\ FitSamples(len, n).music + FitSamples(len, n).silence = n
           /\ FitSamples(len, n).silence > 0 => len < n
BY DEF FitSamples

-----------------------------------------------------------------------------

(* Which parts of the run hold a handle, and what has been rendered when.  *)
HandleHeld == handles = IF pc \in {"start", "fade", "loop", "close"} THEN 1 ELSE 0

AudioWhen == audio # NoAudio => pc \in {"close", "returned"}

(* The promise is that of the durations, and the audio keeps it.           *)
PromiseKept ==
    /\ promise = ExpectedSamples
    /\ audio # NoAudio => audio.music + audio.silence = promise

IInv == TypeOK /\ HandleHeld /\ BufferBounded /\ NotCutShort /\ AudioWhen /\ PromiseKept

(* The two lengths that the loop and the fit compare.                      *)
LEMMA Lengths ==
    ASSUME TypeOK
    PROVE  /\ MaxSamples \in Nat
           /\ ExpectedSamples \in Nat
           /\ ExpectedSamples <= MaxSamples
<1>1. playMs + fadeMs \in Nat /\ MaxPlayMs + MaxFadeMs \in Nat
      /\ playMs + fadeMs <= MaxPlayMs + MaxFadeMs
  BY LimitAssumption DEF TypeOK
<1> QED  BY <1>1, SampleCountType, SampleCountMonotonic DEF MaxSamples, ExpectedSamples

(* The durations that the three stages produce are within their limits.    *)
LEMMA InitIInv == Init => IInv
<1> SUFFICES ASSUME Init PROVE IInv
  OBVIOUS
<1>1. playMs \in 1..MaxPlayMs
  BY GivenMsBounds, LimitAssumption DEF Init
<1>2. fadeMs \in 1..MaxFadeMs
  BY GivenMsBounds, LimitAssumption DEF Init
<1>3. ExpectedSamples \in Nat /\ MaxSamples \in Nat
  BY <1>1, <1>2, LimitAssumption, SampleCountType DEF ExpectedSamples, MaxSamples
<1>4. TypeOK
  BY <1>1, <1>2, <1>3 DEF Init, TypeOK
<1>5. BufferBounded
  BY <1>3, FormatAssumption DEF Init, BufferBounded
<1> QED  BY <1>4, <1>5 DEF Init, IInv, HandleHeld, NotCutShort, AudioWhen, PromiseKept

(* Every step keeps the invariant; only Play and Encode need the lengths.  *)
LEMMA NextIInv == IInv /\ [Next]_vars => IInv'
<1> SUFFICES ASSUME IInv, [Next]_vars PROVE IInv'
  OBVIOUS
<1> USE DEF IInv, TypeOK, HandleHeld, BufferBounded, NotCutShort, AudioWhen, PromiseKept,
            ExpectedSamples, trackVars, Goto
<1>1. CASE ReadSource
  BY <1>1 DEF ReadSource
<1>2. CASE Open
  BY <1>2 DEF Open
<1>3. CASE StartTrack
  BY <1>3 DEF StartTrack
<1>4. CASE SetFade
  BY <1>4 DEF SetFade
<1>5. CASE Play
  <2>1. MaxSamples \in Nat
    BY Lengths
  <2>2. samples' \in Nat /\ samples' < MaxSamples + ChunkLen
    BY <1>5, <2>1, FormatAssumption DEF Play, LoopGoesOn
  <2>3. audio = NoAudio /\ UNCHANGED audio
    BY <1>5 DEF Play
  <2> QED  BY <1>5, <2>2, <2>3 DEF Play
<1>6. CASE Encode
  <2>1. /\ MaxSamples \in Nat /\ ExpectedSamples \in Nat
        /\ ExpectedSamples <= MaxSamples
    BY Lengths
  <2>2. audio' = FitSamples(samples, ExpectedSamples)
    BY <1>6 DEF Encode
  <2>3. /\ audio' \in [music : Nat, silence : Nat]
        /\ audio'.music + audio'.silence = promise
        /\ audio'.silence > 0 => samples < ExpectedSamples
    <3> HIDE DEF ExpectedSamples
    <3> QED  BY <2>1, <2>2, FitSamplesExact
  <2>4. audio'.silence > 0 => ended
    <3> HIDE DEF ExpectedSamples
    <3> QED  BY <1>6, <2>1, <2>3 DEF Encode, LoopGoesOn
  <2> QED  BY <1>6, <2>3, <2>4 DEF Encode
<1>7. CASE Close
  BY <1>7 DEF Close
<1>8. CASE UNCHANGED vars
  BY <1>8 DEF vars
<1> QED  BY <1>1, <1>2, <1>3, <1>4, <1>5, <1>6, <1>7, <1>8 DEF Next

(* The inductive invariant of a rendering.                                 *)
THEOREM IInvInvariant == Spec => []IInv
BY InitIInv, NextIInv, PTL DEF Spec

(* The state stays within its types, the handle count within 0 and 1.      *)
THEOREM TypeCorrect == Spec => []TypeOK
<1>1. IInv => TypeOK
  BY DEF IInv
<1> QED  BY IInvInvariant, <1>1, PTL

(* renderTrack's deferred Close: no return leaves an emulator open.        *)
THEOREM HandlesReleased == Spec => []HandleReleased
<1>1. IInv => HandleReleased
  BY DEF IInv, HandleHeld, HandleReleased
<1> QED  BY IInvInvariant, <1>1, PTL

(* The ceiling of the render loop bounds the buffer.                       *)
THEOREM BufferStaysBounded == Spec => []BufferBounded
<1>1. IInv => BufferBounded
  BY DEF IInv
<1> QED  BY IInvInvariant, <1>1, PTL

(* The limits of clampMs and the ceiling of the loop agree: a track is     *)
(* never filled up with silence while its emulator still plays.            *)
THEOREM TracksNotCutShort == Spec => []NotCutShort
<1>1. IInv => NotCutShort
  BY DEF IInv
<1> QED  BY IInvInvariant, <1>1, PTL

(* renderTrack keeps the contract that the track store and Getattr rely    *)
(* on: an error, or exactly the samples that were promised.                *)
THEOREM RenderTrackImplementsRenderer == Spec => ImplementsRenderer
<1> DEFINE Result == IF pc = "returned" THEN audio ELSE NoAudio
<1>1. Init => Contract!Init
  <2> SUFFICES ASSUME Init PROVE Contract!Init
    OBVIOUS
  <2>1. promise \in Nat
    BY InitIInv DEF IInv, TypeOK
  <2> QED  BY <2>1 DEF Init, Contract!Init, Phase
<1>2. IInv /\ [Next]_vars => [Contract!Next]_<<Phase, promise, Result>>
  <2> SUFFICES ASSUME IInv, [Next]_vars
               PROVE  [Contract!Next]_<<Phase, promise, Result>>
    OBVIOUS
  <2> USE DEF IInv, TypeOK, AudioWhen, Phase, Goto, trackVars
  <2>1. CASE ReadSource
    <3>1. CASE pc' = "open"
      BY <2>1, <3>1 DEF ReadSource, Contract!Next, Contract!Load
    <3>2. CASE pc' = "returned"
      BY <2>1, <3>2 DEF ReadSource, Contract!Next, Contract!RenderFails
    <3> QED  BY <2>1, <3>1, <3>2 DEF ReadSource
  <2>2. CASE Open
    <3>1. CASE pc' = "start"
      BY <2>2, <3>1 DEF Open
    <3>2. CASE pc' = "returned"
      BY <2>2, <3>2 DEF Open, Contract!Next, Contract!RenderFails
    <3> QED  BY <2>2, <3>1, <3>2 DEF Open
  <2>3. CASE StartTrack
    BY <2>3 DEF StartTrack
  <2>4. CASE SetFade
    BY <2>4 DEF SetFade
  <2>5. CASE Play
    BY <2>5 DEF Play
  <2>6. CASE Encode
    BY <2>6 DEF Encode
  <2>7. CASE Close
    <3>1. pc = "close" /\ pc' = "returned" /\ audio' = audio /\ promise' = promise
      BY <2>7 DEF Close
    <3>2. CASE audio = NoAudio
      BY <3>1, <3>2 DEF Contract!Next, Contract!RenderFails
    <3>3. CASE audio # NoAudio
      <4>1. /\ audio.music \in 0..promise
            /\ audio = [music |-> audio.music, silence |-> promise - audio.music]
        BY <3>3 DEF PromiseKept
      <4> QED  BY <3>1, <3>3, <4>1 DEF Contract!Next, Contract!Rendered
    <3> QED  BY <3>2, <3>3
  <2>8. CASE UNCHANGED vars
    BY <2>8 DEF vars
  <2> QED  BY <2>1, <2>2, <2>3, <2>4, <2>5, <2>6, <2>7, <2>8 DEF Next
<1> QED  BY <1>1, <1>2, IInvInvariant, PTL DEF Spec, ImplementsRenderer, Contract!Spec

=============================================================================
