----------------------------- MODULE MCTrackFile -----------------------------
(***************************************************************************)
(* Two clients and two tracks of one source that do not fit into the cache *)
(* together: what one client renders evicts the other's file between two   *)
(* of its reads.  Reads end before, at and after the end of the header and *)
(* of the file.                                                            *)
(***************************************************************************)
EXTENDS TrackFile

CONSTANTS r1, r2, t1, t2, s1

MCReaders == {r1, r2}
MCTracks == {t1, t2}
MCSources == {s1}
MCSourceOf == [t \in MCTracks |-> s1]
MCBytes == [t \in MCTracks |-> 3]
MCHeaderLen == [t \in MCTracks |-> IF t = t1 THEN 1 ELSE 2]
=============================================================================
