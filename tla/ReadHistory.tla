----------------------------- MODULE ReadHistory -----------------------------
(***************************************************************************)
(* The track store with three history variables: the newest version of     *)
(* each track a read has returned, what that was when each read began, and *)
(* the audio that the latest read to return has returned.  They record and *)
(* decide nothing; with them the store is shown to implement               *)
(* MonotonicReads.                                                         *)
(***************************************************************************)
EXTENDS TrackStore

ASSUME OpenAssumption == Nil \notin [track : Tracks, since : Nat]

VARIABLES
    shown,      \* track -> the newest version a read has returned
    since,      \* reader -> shown[t] when its read of t began
    answer      \* the audio that the latest read to return has returned, or Nil

historyVars == <<vars, shown, since, answer>>

InitHistory ==
    /\ Init
    /\ shown = [t \in Tracks |-> 0]
    /\ since = [r \in Readers |-> 0]
    /\ answer = Nil

(* A read of t begins: what has been shown so far is what it must respect. *)
BeginReadHistory(r, t, h) ==
    /\ BeginRead(r, t, h)
    /\ since' = [since EXCEPT ![r] = shown[t]]
    /\ UNCHANGED <<shown, answer>>

(* A read returns: what it returns has been shown.                         *)
ReturnHistory(r) ==
    /\ Return(r)
    /\ shown' = IF got[r] \in Rendering /\ got[r].ver > shown[track[r]]
                THEN [shown EXCEPT ![track[r]] = got[r].ver]
                ELSE shown
    /\ answer' = IF got[r] \in Rendering THEN got[r] ELSE Nil
    /\ since' = [since EXCEPT ![r] = 0]

NextHistory ==
    \/ \E r \in Readers, t \in Tracks, h \in BOOLEAN : BeginReadHistory(r, t, h)
    \/ \E r \in Readers : ReturnHistory(r)
    \/ /\ \/ \E r \in Readers : Proceed(r)
          \/ \E s \in Sources : SourceChanges(s)
       /\ UNCHANGED <<shown, since, answer>>

SpecHistory == InitHistory /\ [][NextHistory]_historyVars

(* What the clients see of the reads in progress.                          *)
Reading ==
    [r \in Readers |-> IF pc[r] = "idle" THEN Nil
                       ELSE [track |-> track[r], since |-> since[r]]]

Clients == INSTANCE MonotonicReads WITH reading <- Reading

(* No time travel: with any interleaving of lookups, coalesced renders,    *)
(* fills, evictions and replaced sources, a read that begins after another *)
(* has returned never shows an older version than that one.                *)
ImplementsMonotonicReads == Clients!Spec
=============================================================================
