---------------------------- MODULE MCTrackStore ----------------------------
(***************************************************************************)
(* Three readers (one can lead a call, one wait on it and one fill or      *)
(* evict another track meanwhile) and two tracks of one source file that   *)
(* do not fit into the cache together, so that every fill of one evicts    *)
(* the other.  The source is replaced once.                                *)
(***************************************************************************)
EXTENDS ReadHistory

CONSTANTS r1, r2, r3, t1, t2, s1

MCReaders == {r1, r2, r3}
MCTracks == {t1, t2}
MCSources == {s1}
MCSourceOf == [t \in MCTracks |-> s1]
MCBytes == [t \in MCTracks |-> IF t = t1 THEN 2 ELSE 3]

MCSymmetry == Permutations(MCReaders)
=============================================================================
