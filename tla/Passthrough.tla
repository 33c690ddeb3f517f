---------------------------- MODULE Passthrough ----------------------------
(***************************************************************************)
(* One source file that is replaced and removed under a mount, and the     *)
(* clients that read it there: as itself (RealFile, realFileHandle) and as *)
(* a track rendered from it (TrackFile), with the times that Getattr       *)
(* reports of both; src/internal/vfs/vfs.go.                               *)
(*                                                                         *)
(* The kernel is external.  It asks for a file's attributes at every open  *)
(* and read, since the mount sets no attribute timeout; it caches the      *)
(* contents of a file opened with FOPEN_KEEP_CACHE until its mtime changes *)
(* or memory is short; and it passes reads of one opened with              *)
(* FOPEN_DIRECT_IO through.  A replacement is a new file with a new mtime  *)
(* under the old name, so contents and times are told apart by version.    *)
(***************************************************************************)
EXTENDS Integers

CONSTANTS
    Clients,
    MaxVersion,     \* bound: replacements of the source file
    None            \* no open file, no cached contents, no time

ASSUME NoneAssumption == None \notin Int
ASSUME BoundAssumption == MaxVersion \in Nat

VARIABLES
    version, present,   \* what os.Stat and os.Open find under the source's name
    mtime,              \* the ChipDir's and TrackFile's mtime field
    opened,             \* client -> the node it has open and its descriptor's version
    attr, pages,        \* the mtime and the contents of the real file that the kernel holds
    last,               \* node -> the latest read of it that returned bytes
    straddled           \* a descriptor older than the source has been read from since

kernel == <<attr, pages>>
fileVars == <<version, present, mtime, opened, kernel, last, straddled>>

Nodes == {"real", "track"}

InitFiles ==
    /\ version = 0 /\ present = TRUE
    /\ mtime = None
    /\ opened = [c \in Clients |-> None]
    /\ attr = None /\ pages = None
    /\ last = [n \in Nodes |-> None]
    /\ straddled = FALSE

HasOpen(c, node) == opened[c] # None /\ opened[c].node = node
NothingOpen == \A c \in Clients : opened[c] = None

-----------------------------------------------------------------------------

(* What the scan takes for the time of the file: none when Info fails.     *)
EntryMtimes == {version, None}

\* One time for all nodes, taken at the scan (a mutation of Mtime).
MtimeFrozen(node) == mtime

(* The time that Getattr reports: of the file as it is for a RealFile, of  *)
(* the scan for a TrackFile.                                               *)
Mtime(node) == IF node = "real" THEN version ELSE mtime

(* What the kernel still holds of the real file once it has its attributes. *)
Held == IF attr = Mtime("real") THEN pages ELSE None

Revalidate(contents) == attr' = Mtime("real") /\ pages' = contents

OpenReal(c) ==
    /\ opened[c] = None /\ present
    /\ opened' = [opened EXCEPT ![c] = [node |-> "real", ver |-> version]]
    /\ Revalidate(Held)
    /\ UNCHANGED <<version, present, mtime, last, straddled>>

(* No descriptor: a track is rendered from the source by name.             *)
OpenTrack(c) ==
    /\ opened[c] = None
    /\ opened' = [opened EXCEPT ![c] = [node |-> "track", ver |-> None]]
    /\ UNCHANGED <<version, present, mtime, kernel, last, straddled>>

(* The client c reads contents ver of a node.                              *)
Returns(c, node, ver) ==
    last' = [last EXCEPT ![node] =
                [mtime |-> Mtime(node), ver |-> ver, disk |-> version,
                 fresh |-> opened[c].ver = version /\ ~straddled]]

(* Bytes that the kernel holds, or those of the descriptor, or EIO.        *)
ReadReal(c) ==
    /\ HasOpen(c, "real") /\ present
    /\ \/ /\ Held # None
          /\ Revalidate(Held)
          /\ Returns(c, "real", Held)
       \/ /\ Held = None
          /\ Revalidate(opened[c].ver)
          /\ Returns(c, "real", opened[c].ver)
       \/ /\ Held = None
          /\ Revalidate(None)
          /\ UNCHANGED last
    /\ straddled' = (straddled \/ opened[c].ver # version)
    /\ UNCHANGED <<version, present, mtime, opened>>

(* A rendering that is no older than the last one shown: what module       *)
(* MonotonicReads promises of the track store.                             *)
ReadTrack(c) ==
    /\ HasOpen(c, "track")
    /\ \E v \in 0..version :
          /\ last["track"] # None => v >= last["track"].ver
          /\ Returns(c, "track", v)
    /\ UNCHANGED <<version, present, mtime, opened, kernel, straddled>>

Release(c) ==
    /\ opened[c] # None
    /\ opened' = [opened EXCEPT ![c] = None]
    /\ UNCHANGED <<version, present, mtime, kernel, last, straddled>>

MemoryShort ==
    /\ pages # None /\ pages' = None
    /\ UNCHANGED <<version, present, mtime, opened, attr, last, straddled>>

Replace ==
    /\ version < MaxVersion
    /\ version' = version + 1
    /\ present' = TRUE
    /\ straddled' = FALSE
    /\ UNCHANGED <<mtime, opened, kernel, last>>

Remove ==
    /\ present /\ present' = FALSE
    /\ UNCHANGED <<version, mtime, opened, kernel, last, straddled>>

Serve(c) == OpenReal(c) \/ OpenTrack(c) \/ ReadReal(c) \/ ReadTrack(c)

Outside == MemoryShort \/ Replace \/ Remove

-----------------------------------------------------------------------------
(* Properties.                                                             *)

Times == 0..MaxVersion \cup {None}

FilesTypeOK ==
    /\ version \in 0..MaxVersion /\ present \in BOOLEAN
    /\ mtime \in Times
    /\ opened \in [Clients -> [node : {"real"}, ver : 0..MaxVersion]
                              \cup [node : {"track"}, ver : {None}] \cup {None}]
    /\ attr \in Times /\ pages \in Times
    /\ last \in [Nodes -> [mtime : Times, ver : 0..MaxVersion, disk : 0..MaxVersion,
                           fresh : BOOLEAN] \cup {None}]
    /\ straddled \in BOOLEAN

(* FOPEN_KEEP_CACHE (vfs.go, RealFile.Open) does not let contents outlive  *)
(* their file: a descriptor opened since the latest replacement reads what *)
(* is on disk, because the kernel sees the new mtime first.  The exception *)
(* is a file that another client opened before the replacement and read    *)
(* after it: its old contents are then cached under the new time.          *)
FreshUnlessStraddled ==
    last["real"] # None /\ last["real"].fresh => last["real"].ver = last["real"].disk

(* vfs.go, the comment on setTimes: "using the source's time also lets     *)
(* clients notice when the source changes".  Two reads of a track that     *)
(* return different contents come with different times.                    *)
TracksChangeWithTime ==
    [][last["track"] # None /\ last'["track"].ver # last["track"].ver
          => last'["track"].mtime # last["track"].mtime]_fileVars

=============================================================================
