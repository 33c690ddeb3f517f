------------------------------ MODULE Renderer ------------------------------
(***************************************************************************)
(* What one rendering promises to the track store: it reads the source,    *)
(* emulates, and returns either an error or a WAV that holds exactly the   *)
(* samples whose number was reported as the file's size beforehand.  There *)
(* is no emulator here, no loop and no handle.  The three actions are the  *)
(* ones a leader takes in module TrackStore between Recheck and Store.     *)
(***************************************************************************)
EXTENDS Integers

CONSTANT NoAudio

VARIABLES
    phase,      \* load, emulate, then rendered or failed
    promise,    \* the number of samples reported beforehand
    result      \* the samples returned, by what they hold, or NoAudio

Init ==
    /\ phase = "load"
    /\ promise \in Nat
    /\ result = NoAudio

Load ==
    /\ phase = "load"
    /\ phase' = "emulate"
    /\ UNCHANGED <<promise, result>>

(* m samples of music, and silence up to the promised length.              *)
Rendered ==
    /\ phase = "emulate"
    /\ phase' = "rendered"
    /\ \E m \in 0..promise : result' = [music |-> m, silence |-> promise - m]
    /\ UNCHANGED promise

RenderFails ==
    /\ phase \in {"load", "emulate"}
    /\ phase' = "failed"
    /\ UNCHANGED <<promise, result>>

Next == Load \/ Rendered \/ RenderFails

Spec == Init /\ [][Next]_<<phase, promise, result>>
=============================================================================
