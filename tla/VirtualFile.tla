----------------------------- MODULE VirtualFile -----------------------------
(***************************************************************************)
(* What a client of the mount sees of a track: a plain file of fixed size. *)
(* A read inside the file returns some of the bytes at its offset, at      *)
(* least one; only a read at or past the end returns none; a read may fail *)
(* with EIO.  There is no header here, no rendering and no cache.          *)
(***************************************************************************)
EXTENDS Integers

CONSTANTS Readers, Tracks, Bytes, Nil

VARIABLES
    file,       \* client -> the track it has open, or Nil
    pos,        \* client -> its offset in the file
    status      \* client -> "reading", or how its reading ended: "eof", "error"

vars == <<file, pos, status>>

Init ==
    /\ file = [r \in Readers |-> Nil]
    /\ pos = [r \in Readers |-> 0]
    /\ status = [r \in Readers |-> "eof"]

(* A client opens a track and seeks to any offset.                         *)
Open(r, t) ==
    /\ file[r] = Nil
    /\ file' = [file EXCEPT ![r] = t]
    /\ pos'[r] \in Nat
    /\ pos' = [pos EXCEPT ![r] = pos'[r]]
    /\ status' = [status EXCEPT ![r] = "reading"]

Receive(r) ==
    /\ status[r] = "reading"
    /\ \E n \in 1..(Bytes[file[r]] - pos[r]) : pos' = [pos EXCEPT ![r] = @ + n]
    /\ UNCHANGED <<file, status>>

EndOfFile(r) ==
    /\ status[r] = "reading"
    /\ pos[r] >= Bytes[file[r]]
    /\ status' = [status EXCEPT ![r] = "eof"]
    /\ UNCHANGED <<file, pos>>

Fail(r) ==
    /\ status[r] = "reading"
    /\ status' = [status EXCEPT ![r] = "error"]
    /\ UNCHANGED <<file, pos>>

Close(r) ==
    /\ status[r] # "reading"
    /\ file' = [file EXCEPT ![r] = Nil]
    /\ pos' = [pos EXCEPT ![r] = 0]
    /\ UNCHANGED status

Next ==
    \E r \in Readers :
        \/ \E t \in Tracks : Open(r, t)
        \/ Receive(r) \/ EndOfFile(r) \/ Fail(r) \/ Close(r)

Spec == Init /\ [][Next]_vars
=============================================================================
