------------------------------ MODULE TrackFile ------------------------------
(***************************************************************************)
(* Clients that read whole virtual WAV files: the offsets and lengths of   *)
(* TrackFile.Read in src/internal/vfs/vfs.go, over the track store.  Each  *)
(* reader of the store serves one client, which opens a track, seeks, and  *)
(* reads on from where the last reply ended, as a player does.  The mount  *)
(* sets FOPEN_DIRECT_IO, so a reply reaches the client as it is: shorter   *)
(* than asked for, and as the end of the file when it is empty.            *)
(***************************************************************************)
EXTENDS TrackStore

CONSTANTS
    HeaderLen,      \* HeaderLen[t]: the WAV bytes before the PCM data
    ReadSizes       \* bound: the lengths a client asks for

ASSUME HeaderLenAssumption ==
    /\ HeaderLen \in [Tracks -> Nat]
    /\ \A t \in Tracks : HeaderLen[t] <= Bytes[t]
ASSUME ReadSizesAssumption == ReadSizes \subseteq Nat \ {0}

VARIABLES
    file,       \* client -> the track it has open, or Nil
    pos,        \* client -> the offset of its next read
    want,       \* client -> the length its read asks for
    status      \* client -> "reading", or how its reading ended: "eof", "error"

clientVars == <<file, pos, want, status>>
fileVars == <<vars, clientVars>>

InitFile ==
    /\ Init
    /\ file = [r \in Readers |-> Nil]
    /\ pos = [r \in Readers |-> 0]
    /\ want = [r \in Readers |-> 0]
    /\ status = [r \in Readers |-> "eof"]

-----------------------------------------------------------------------------

\* A slice that may end past its source (a mutation of SliceLen).
SliceUnclamped(len, off, n) == IF off >= len THEN 0 ELSE n

(* sliceAt: how much of a source of len bytes a read of n bytes at off gets. *)
SliceLen(len, off, n) ==
    IF off >= len THEN 0 ELSE IF off + n <= len THEN n ELSE len - off

\* A comparison that takes the first PCM byte for the header's (a mutation of InHeader).
UpToHeader(t, off) == off <= HeaderLen[t]

\* A comparison that leaves out the last header byte (a mutation of InHeader).
BelowLastHeaderByte(t, off) == off < HeaderLen[t] - 1

InHeader(t, off) == off < HeaderLen[t]

(* A client opens track t and seeks to o, at most one byte past the end.   *)
OpenTrack(r, t, o) ==
    /\ file[r] = Nil
    /\ file' = [file EXCEPT ![r] = t]
    /\ pos' = [pos EXCEPT ![r] = o]
    /\ status' = [status EXCEPT ![r] = "reading"]
    /\ UNCHANGED <<vars, want>>

(* It reads n bytes where it is.                                           *)
ReadOn(r, n) ==
    /\ status[r] = "reading"
    /\ BeginRead(r, file[r], InHeader(file[r], pos[r]))
    /\ want' = [want EXCEPT ![r] = n]
    /\ UNCHANGED <<file, pos, status>>

(* The bytes of the reply: a slice of the header or of the rendered WAV.   *)
ReplyLen(r) ==
    SliceLen(IF got[r] = HeaderOnly THEN HeaderLen[track[r]] ELSE Bytes[got[r].track],
             pos[r], want[r])

(* The reply arrives: an error, the end of the file, or bytes.             *)
Receive(r) ==
    /\ Return(r)
    /\ \/ /\ got[r] = EIO
          /\ status' = [status EXCEPT ![r] = "error"]
          /\ UNCHANGED pos
       \/ /\ got[r] # EIO
          /\ ReplyLen(r) = 0
          /\ status' = [status EXCEPT ![r] = "eof"]
          /\ UNCHANGED pos
       \/ /\ got[r] # EIO
          /\ ReplyLen(r) > 0
          /\ pos' = [pos EXCEPT ![r] = @ + ReplyLen(r)]
          /\ UNCHANGED status
    /\ want' = [want EXCEPT ![r] = 0]
    /\ UNCHANGED file

CloseTrack(r) ==
    /\ file[r] # Nil
    /\ status[r] # "reading"
    /\ file' = [file EXCEPT ![r] = Nil]
    /\ pos' = [pos EXCEPT ![r] = 0]
    /\ UNCHANGED <<vars, want, status>>

NextFile ==
    \/ \E r \in Readers : \/ \E t \in Tracks : \E o \in 0..(Bytes[t] + 1) : OpenTrack(r, t, o)
                          \/ \E n \in ReadSizes : ReadOn(r, n)
                          \/ Receive(r)
                          \/ CloseTrack(r)
    \/ /\ \/ \E r \in Readers : Proceed(r)
          \/ \E s \in Sources : SourceChanges(s)
       /\ UNCHANGED clientVars

SpecFile == InitFile /\ [][NextFile]_fileVars

(* A client that has opened a track reads on; the store is as fair as ever. *)
FairSpecFile ==
    SpecFile /\ Fairness /\ \A r \in Readers : WF_fileVars(\E n \in ReadSizes : ReadOn(r, n))

-----------------------------------------------------------------------------
(* Properties.                                                             *)

(* What the clients hold stays within its types, and no reply moves a      *)
(* client past the end of its file.                                        *)
TypeOKFile ==
    /\ file \in [Readers -> Tracks \cup {Nil}]
    /\ pos \in [Readers -> Nat]
    /\ \A r \in Readers : file[r] # Nil => pos[r] <= Bytes[file[r]] + 1
    /\ want \in [Readers -> ReadSizes \cup {0}]
    /\ status \in [Readers -> {"reading", "eof", "error"}]

View == INSTANCE VirtualFile

(* A track reads like a plain file of the size reported: the short reply   *)
(* from the header is never empty, so it never passes for the end of the   *)
(* file, and no reply goes past the end, whether the track is in the       *)
(* cache, has been evicted since the last read, or is rendered meanwhile.  *)
ImplementsVirtualFile == View!Spec

(* Lazy emulation: a read that starts within the header never renders.     *)
HeaderNeverRenders ==
    \A r \in Readers : pc[r] \in {"do", "waiting"} \cup InCall => pos[r] >= HeaderLen[track[r]]

(* A client that reads on comes to the end of the file or to an error: no  *)
(* run of short replies keeps it from it.                                  *)
ReadingEnds == \A r \in Readers : status[r] = "reading" ~> status[r] # "reading"
=============================================================================
