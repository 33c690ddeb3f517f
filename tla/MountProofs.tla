---------------------------- MODULE MountProofs ----------------------------
(***************************************************************************)
(* That the mount keeps its types, that no signal is lost to the bounded   *)
(* channel, and that contents which the kernel keeps of a passthrough file *)
(* do not outlive it; for all numbers of clients, replacements and places  *)
(* in the channel.                                                         *)
(***************************************************************************)
EXTENDS Mount, TLAPS

-----------------------------------------------------------------------------
(* What the kernel holds under the current time is what is on disk, until  *)
(* a descriptor older than that has been read from.                        *)
HeldIsCurrent == ~straddled /\ attr = version => pages \in {None, version}

(* The kernel has seen no time that is yet to come.                        *)
AttrNotAhead == attr # None => attr <= version

(* Before Notify no signal has come, or the process would be gone.         *)
UnaskedAtFirst == pc \in {"new", "mount", "mounted"} => ~asked

IInv ==
    /\ TypeOK
    /\ FreshUnlessStraddled /\ HeldIsCurrent /\ AttrNotAhead
    /\ SignalRemembered /\ UnaskedAtFirst

FilesInv == FilesTypeOK /\ FreshUnlessStraddled /\ HeldIsCurrent /\ AttrNotAhead

-----------------------------------------------------------------------------
(* The files.                                                              *)

LEMMA HeldType ==
    ASSUME FilesInv
    PROVE  /\ Held \in Times
           /\ Held # None => attr = version /\ pages = Held
           /\ version \in Times
BY DEF FilesInv, FilesTypeOK, Held, Mtime, Times

LEMMA OpenedVersion ==
    ASSUME FilesTypeOK, NEW c \in Clients, HasOpen(c, "real")
    PROVE  opened[c].ver \in 0..MaxVersion
BY DEF FilesTypeOK, HasOpen

LEMMA OpenRealKeeps ==
    ASSUME FilesInv, NEW c \in Clients, OpenReal(c)
    PROVE  FilesInv'
<1>1. attr' = version /\ pages' = Held /\ version' = version /\ last' = last
      /\ straddled' = straddled
  BY DEF OpenReal, Revalidate, Mtime
<1>2. [node |-> "real", ver |-> version] \in [node : {"real"}, ver : 0..MaxVersion]
  BY DEF FilesInv, FilesTypeOK
<1>3. opened' \in [Clients -> [node : {"real"}, ver : 0..MaxVersion]
                              \cup [node : {"track"}, ver : {None}] \cup {None}]
  BY <1>2 DEF FilesInv, FilesTypeOK, OpenReal
<1>4. FilesTypeOK'  BY <1>1, <1>3, HeldType DEF FilesInv, FilesTypeOK, OpenReal, Times
<1>5. HeldIsCurrent' /\ AttrNotAhead'
  BY <1>1, HeldType DEF FilesInv, FilesTypeOK, HeldIsCurrent, AttrNotAhead
<1>6. FreshUnlessStraddled'  BY <1>1 DEF FilesInv, FreshUnlessStraddled
<1> QED  BY <1>4, <1>5, <1>6 DEF FilesInv

LEMMA OpenTrackKeeps ==
    ASSUME FilesInv, NEW c \in Clients, OpenTrack(c)
    PROVE  FilesInv'
<1>1. [node |-> "track", ver |-> None] \in [node : {"track"}, ver : {None}]
  OBVIOUS
<1>2. FilesTypeOK'  BY <1>1 DEF FilesInv, FilesTypeOK, OpenTrack, kernel
<1> QED
  BY <1>2 DEF FilesInv, OpenTrack, kernel, HeldIsCurrent, AttrNotAhead, FreshUnlessStraddled

(* A read that returns bytes.                                              *)
LEMMA ReturnsType ==
    ASSUME FilesTypeOK, NEW c \in Clients, NEW node \in Nodes, NEW ver \in 0..MaxVersion,
           Returns(c, node, ver)
    PROVE  /\ last' \in [Nodes -> [mtime : Times, ver : 0..MaxVersion, disk : 0..MaxVersion,
                                   fresh : BOOLEAN] \cup {None}]
           /\ last'[node] = [mtime |-> Mtime(node), ver |-> ver, disk |-> version,
                             fresh |-> opened[c].ver = version /\ ~straddled]
           /\ \A n \in Nodes \ {node} : last'[n] = last[n]
<1> DEFINE reply == [mtime |-> Mtime(node), ver |-> ver, disk |-> version,
                     fresh |-> opened[c].ver = version /\ ~straddled]
<1>1. Mtime(node) \in Times  BY DEF FilesTypeOK, Mtime, Times
<1>2. (opened[c].ver = version /\ ~straddled) \in BOOLEAN  OBVIOUS
<1>3. reply \in [mtime : Times, ver : 0..MaxVersion, disk : 0..MaxVersion, fresh : BOOLEAN]
  BY <1>1, <1>2 DEF FilesTypeOK
<1>4. last' = [last EXCEPT ![node] = reply]  BY DEF Returns
<1> HIDE DEF reply
<1>5. /\ last' \in [Nodes -> [mtime : Times, ver : 0..MaxVersion, disk : 0..MaxVersion,
                              fresh : BOOLEAN] \cup {None}]
      /\ last'[node] = reply /\ \A n \in Nodes \ {node} : last'[n] = last[n]
  BY <1>3, <1>4 DEF FilesTypeOK
<1> QED  BY <1>5 DEF reply

LEMMA ReadRealKeeps ==
    ASSUME FilesInv, NEW c \in Clients, ReadReal(c)
    PROVE  FilesInv'
<1>0. HasOpen(c, "real") /\ opened[c].ver \in 0..MaxVersion /\ "real" \in Nodes
  BY OpenedVersion DEF FilesInv, ReadReal, Nodes
<1>1. /\ straddled' = (straddled \/ opened[c].ver # version)
      /\ UNCHANGED <<version, present, mtime, opened>>
  BY DEF ReadReal
<1>5. ~straddled' => ~straddled /\ opened[c].ver = version  BY <1>1, Zenon
<1>6. straddled' \in BOOLEAN  BY <1>1, Zenon
<1>7. version <= version'
  BY <1>1, BoundAssumption DEF FilesInv, FilesTypeOK
<1>2. CASE Held # None /\ Revalidate(Held) /\ Returns(c, "real", Held)
  <2>1. attr' = version /\ pages' = Held /\ attr = version /\ pages = Held /\ Held \in 0..MaxVersion
    BY <1>2, HeldType DEF Revalidate, Mtime, Times
  <2>2. /\ last' \in [Nodes -> [mtime : Times, ver : 0..MaxVersion, disk : 0..MaxVersion,
                                fresh : BOOLEAN] \cup {None}]
        /\ last'["real"] = [mtime |-> Mtime("real"), ver |-> Held, disk |-> version,
                            fresh |-> opened[c].ver = version /\ ~straddled]
    BY <1>0, <1>2, <2>1, ReturnsType DEF FilesInv
  <2>3. FilesTypeOK'  BY <1>1, <1>6, <2>1, <2>2, HeldType DEF FilesInv, FilesTypeOK, Times
  <2>4. HeldIsCurrent' /\ AttrNotAhead'
    BY <1>1, <1>5, <1>7, <2>1 DEF FilesInv, HeldIsCurrent, AttrNotAhead
  <2>8. last'["real"].fresh = (opened[c].ver = version /\ ~straddled)  BY <2>2
  <2>5. last'["real"].fresh => ~straddled  BY <2>8, Zenon
  <2>6. last'["real"].ver = Held /\ last'["real"].disk = version  BY <2>2
  <2>7. FreshUnlessStraddled'
    BY <1>2, <2>1, <2>5, <2>6 DEF FilesInv, HeldIsCurrent, FreshUnlessStraddled
  <2> QED  BY <2>3, <2>4, <2>7 DEF FilesInv
<1>3. CASE Held = None /\ Revalidate(opened[c].ver) /\ Returns(c, "real", opened[c].ver)
  <2>1. attr' = version /\ pages' = opened[c].ver
    BY <1>3 DEF Revalidate, Mtime
  <2>2. /\ last' \in [Nodes -> [mtime : Times, ver : 0..MaxVersion, disk : 0..MaxVersion,
                                fresh : BOOLEAN] \cup {None}]
        /\ last'["real"] = [mtime |-> Mtime("real"), ver |-> opened[c].ver, disk |-> version,
                            fresh |-> opened[c].ver = version /\ ~straddled]
    BY <1>0, <1>3, ReturnsType DEF FilesInv
  <2>3. FilesTypeOK'  BY <1>0, <1>1, <1>6, <2>1, <2>2, HeldType DEF FilesInv, FilesTypeOK, Times
  <2>4. HeldIsCurrent' /\ AttrNotAhead'
    BY <1>1, <1>5, <1>7, <2>1 DEF HeldIsCurrent, AttrNotAhead
  <2>8. last'["real"].fresh = (opened[c].ver = version /\ ~straddled)  BY <2>2
  <2>6. last'["real"].fresh => opened[c].ver = version  BY <2>8, Zenon
  <2>7. last'["real"].ver = opened[c].ver /\ last'["real"].disk = version  BY <2>2
  <2>5. FreshUnlessStraddled'  BY <2>6, <2>7 DEF FreshUnlessStraddled
  <2> QED  BY <2>3, <2>4, <2>5 DEF FilesInv
<1>4. CASE Held = None /\ Revalidate(None) /\ UNCHANGED last
  <2>1. attr' = version /\ pages' = None  BY <1>4 DEF Revalidate, Mtime
  <2>2. FilesTypeOK'  BY <1>1, <1>4, <1>6, <2>1, HeldType DEF FilesInv, FilesTypeOK, Times
  <2> QED
    BY <1>1, <1>4, <1>7, <2>1, <2>2
       DEF FilesInv, HeldIsCurrent, AttrNotAhead, FreshUnlessStraddled
<1> QED  BY <1>2, <1>3, <1>4 DEF ReadReal

LEMMA ReadTrackKeeps ==
    ASSUME FilesInv, NEW c \in Clients, ReadTrack(c)
    PROVE  FilesInv'
<1>1. PICK v \in 0..version : Returns(c, "track", v)  BY DEF ReadTrack
<1>2. v \in 0..MaxVersion /\ "track" \in Nodes /\ "real" \in Nodes \ {"track"}
  BY BoundAssumption DEF FilesInv, FilesTypeOK, Nodes
<1>3. /\ last' \in [Nodes -> [mtime : Times, ver : 0..MaxVersion, disk : 0..MaxVersion,
                              fresh : BOOLEAN] \cup {None}]
      /\ last'["real"] = last["real"]
  BY <1>1, <1>2, ReturnsType DEF FilesInv
<1>4. FilesTypeOK'  BY <1>3 DEF FilesInv, FilesTypeOK, ReadTrack, kernel
<1> QED
  BY <1>3, <1>4 DEF FilesInv, ReadTrack, kernel, HeldIsCurrent, AttrNotAhead, FreshUnlessStraddled

LEMMA ReleaseKeeps ==
    ASSUME FilesInv, NEW c \in Clients, Release(c)
    PROVE  FilesInv'
<1>1. FilesTypeOK'  BY DEF FilesInv, FilesTypeOK, Release, kernel
<1> QED
  BY <1>1 DEF FilesInv, Release, kernel, HeldIsCurrent, AttrNotAhead, FreshUnlessStraddled

(* A replacement has a time that the kernel has not seen.                  *)
LEMMA ReplaceKeeps ==
    ASSUME FilesInv, Replace
    PROVE  FilesInv'
<1>1. version' = version + 1 /\ version' \in 0..MaxVersion /\ UNCHANGED <<attr, pages, last>>
  BY BoundAssumption DEF FilesInv, FilesTypeOK, Replace, kernel
<1>2. FilesTypeOK'  BY <1>1 DEF FilesInv, FilesTypeOK, Replace
<1>3. attr # version' /\ AttrNotAhead'
  BY <1>1, NoneAssumption, BoundAssumption DEF FilesInv, FilesTypeOK, AttrNotAhead, Times
<1> QED  BY <1>1, <1>2, <1>3 DEF FilesInv, HeldIsCurrent, FreshUnlessStraddled

LEMMA OutsideKeeps ==
    ASSUME FilesInv, Outside
    PROVE  FilesInv'
<1>1. CASE MemoryShort
  BY <1>1 DEF FilesInv, FilesTypeOK, MemoryShort, HeldIsCurrent, AttrNotAhead,
              FreshUnlessStraddled, Times
<1>2. CASE Replace  BY <1>2, ReplaceKeeps
<1>3. CASE Remove
  BY <1>3 DEF FilesInv, FilesTypeOK, Remove, kernel, HeldIsCurrent, AttrNotAhead,
              FreshUnlessStraddled
<1> QED  BY <1>1, <1>2, <1>3 DEF Outside

LEMMA FilesStep == FilesInv /\ Files => FilesInv'
<1> SUFFICES ASSUME FilesInv, Files PROVE FilesInv'  OBVIOUS
<1> QED
  BY OpenRealKeeps, OpenTrackKeeps, ReadRealKeeps, ReadTrackKeeps, ReleaseKeeps, OutsideKeeps
     DEF Files, Serve

-----------------------------------------------------------------------------
(* The two goroutines and those outside.                                   *)

LEMMA InitIInv == Init => IInv
<1> SUFFICES ASSUME Init PROVE IInv  OBVIOUS
<1>1. 0 \in 0..MaxVersion /\ 0 \in 0..Capacity  BY BoundAssumption, CapacityAssumption
<1>2. FilesTypeOK  BY <1>1 DEF Init, InitFiles, FilesTypeOK, Times
<1>3. TypeOK  BY <1>1, <1>2 DEF Init, TypeOK
<1> QED
  BY <1>3, NoneAssumption DEF Init, InitFiles, IInv, FreshUnlessStraddled, Nodes, HeldIsCurrent,
     AttrNotAhead, SignalRemembered, UnaskedAtFirst

(* Nothing but FsMount and the clients touches the files.                  *)
LEMMA FilesUntouched == FilesInv /\ UNCHANGED fileVars => FilesInv'
BY DEF fileVars, kernel, FilesInv, FilesTypeOK, HeldIsCurrent, AttrNotAhead, FreshUnlessStraddled

LEMMA FsMountKeepsFiles == FilesInv /\ FsMount => FilesInv'
<1> SUFFICES ASSUME FilesInv, FsMount PROVE FilesInv'  OBVIOUS
<1>1. mtime' \in Times  BY DEF FsMount, EntryMtimes, FilesInv, FilesTypeOK, Times
<1> QED
  BY <1>1 DEF FsMount, kernel, FilesInv, FilesTypeOK, HeldIsCurrent, AttrNotAhead,
              FreshUnlessStraddled

LEMMA MainStep == IInv /\ Main => IInv'
<1> SUFFICES ASSUME IInv, Main PROVE IInv'  OBVIOUS
<1>1. FilesInv'
  BY FsMountKeepsFiles, FilesUntouched DEF IInv, TypeOK, FilesInv, Main, NewRoot, Notify, Wait
<1>2. TypeOK'
  BY <1>1 DEF FilesInv, IInv, TypeOK, Main, NewRoot, FsMount, Notify, Wait, Goto
<1>3. SignalRemembered' /\ UnaskedAtFirst'
  BY DEF IInv, SignalRemembered, UnaskedAtFirst, Main, NewRoot, FsMount, Notify, Wait, Goto
<1> QED  BY <1>1, <1>2, <1>3 DEF IInv, FilesInv

(* A full channel already holds a signal.                                  *)
LEMMA SignalStep == IInv /\ (Signal \/ Handler \/ Fusermount) => IInv'
<1> SUFFICES ASSUME IInv, Signal \/ Handler \/ Fusermount PROVE IInv'  OBVIOUS
<1>1. FilesInv'
  BY FilesUntouched DEF IInv, TypeOK, FilesInv, Signal, Handler, TakeSignal, UnmountSucceeds,
     UnmountFails, Fusermount
<1>2. sig \in Nat /\ Capacity \in Nat /\ Capacity > 0 /\ sig <= Capacity
  BY CapacityAssumption DEF IInv, TypeOK
<1>3. sig' \in 0..Capacity
  BY <1>2 DEF Signal, Handler, TakeSignal, UnmountSucceeds, UnmountFails, Fusermount
<1>4. TypeOK'
  BY <1>1, <1>3 DEF FilesInv, IInv, TypeOK, Signal, Handler, TakeSignal, UnmountSucceeds,
     UnmountFails, Fusermount, Goto
<1>5. SignalRemembered' /\ UnaskedAtFirst'
  BY <1>2 DEF IInv, SignalRemembered, UnaskedAtFirst, Signal, Handler, TakeSignal,
     UnmountSucceeds, UnmountFails, Fusermount, Goto
<1> QED  BY <1>1, <1>4, <1>5 DEF IInv, FilesInv

LEMMA ClientStep == IInv /\ Files => IInv'
<1> SUFFICES ASSUME IInv, Files PROVE IInv'  OBVIOUS
<1>1. FilesInv'  BY FilesStep DEF IInv, TypeOK, FilesInv
<1>2. UNCHANGED mainVars  BY DEF Files
<1> QED  BY <1>1, <1>2 DEF mainVars, IInv, FilesInv, TypeOK, SignalRemembered, UnaskedAtFirst

LEMMA StutterStep == IInv /\ UNCHANGED vars => IInv'
<1> SUFFICES ASSUME IInv, UNCHANGED vars PROVE IInv'  OBVIOUS
<1>1. FilesInv'  BY FilesUntouched DEF IInv, TypeOK, FilesInv, vars
<1> QED  BY <1>1 DEF vars, mainVars, IInv, FilesInv, TypeOK, SignalRemembered, UnaskedAtFirst

(* IInv is an inductive invariant of the mount.                            *)
THEOREM IInvInvariant == Spec => []IInv
<1>1. IInv /\ [Next]_vars => IInv'
  BY MainStep, SignalStep, ClientStep, StutterStep DEF Next
<1> QED  BY InitIInv, <1>1, PTL DEF Spec

(* The mount's state keeps its types: no more signals than the channel has *)
(* places, no descriptor of a version that never was.                      *)
THEOREM TypeCorrect == Spec => []TypeOK
<1>1. IInv => TypeOK  BY DEF IInv
<1> QED  BY <1>1, IInvInvariant, PTL

(* No signal is lost to the bounded channel.                               *)
THEOREM SignalsRemembered == Spec => []SignalRemembered
<1>1. IInv => SignalRemembered  BY DEF IInv
<1> QED  BY <1>1, IInvInvariant, PTL

(* A descriptor of the current file reads what is on disk, unless one of   *)
(* an older file has been read from since it was replaced.                 *)
THEOREM ContentsFresh == Spec => []FreshUnlessStraddled
<1>1. IInv => FreshUnlessStraddled  BY DEF IInv
<1> QED  BY <1>1, IInvInvariant, PTL

=============================================================================
