--------------------------- MODULE MonotonicReads ---------------------------
(***************************************************************************)
(* What a client of the mount can rely on when a source file is replaced   *)
(* while it is being played: a read that returns audio returns audio of    *)
(* the track asked for, and a read that begins after another has returned  *)
(* never goes back to an older version of the source than that one showed. *)
(* There is no cache here, no call group and no mutex.                     *)
(***************************************************************************)
EXTENDS Integers

CONSTANTS Readers, Tracks, Sources, SourceOf, MaxVersion, Nil

VARIABLES
    disk,       \* the version of each source file
    shown,      \* the newest version of each track that a read has returned
    reading,    \* reader -> the track it reads and what had been shown, or Nil
    answer      \* the audio that the latest read to return has returned, or Nil

Init ==
    /\ disk = [s \in Sources |-> 0]
    /\ shown = [t \in Tracks |-> 0]
    /\ reading = [r \in Readers |-> Nil]
    /\ answer = Nil

Begin(r, t) ==
    /\ reading[r] = Nil
    /\ reading' = [reading EXCEPT ![r] = [track |-> t, since |-> shown[t]]]
    /\ UNCHANGED <<disk, shown, answer>>

(* The read returns audio of its track, of a version v that is no older    *)
(* than what had been shown when it began.                                 *)
ReturnAudio(r) ==
    /\ reading[r] # Nil
    /\ LET t == reading[r].track
       IN  \E v \in reading[r].since .. disk[SourceOf[t]] :
              /\ answer' = [track |-> t, ver |-> v]
              /\ shown' = [shown EXCEPT ![t] = IF v > @ THEN v ELSE @]
    /\ reading' = [reading EXCEPT ![r] = Nil]
    /\ UNCHANGED disk

(* The read fails, or returns header bytes.                                *)
ReturnOther(r) ==
    /\ reading[r] # Nil
    /\ reading' = [reading EXCEPT ![r] = Nil]
    /\ answer' = Nil
    /\ UNCHANGED <<disk, shown>>

SourceChanges(s) ==
    /\ disk[s] < MaxVersion
    /\ disk' = [disk EXCEPT ![s] = @ + 1]
    /\ UNCHANGED <<shown, reading, answer>>

Next ==
    \/ \E r \in Readers : \/ \E t \in Tracks : Begin(r, t)
                          \/ ReturnAudio(r)
                          \/ ReturnOther(r)
    \/ \E s \in Sources : SourceChanges(s)

Spec == Init /\ [][Next]_<<disk, shown, reading, answer>>
=============================================================================
