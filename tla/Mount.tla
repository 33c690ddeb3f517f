------------------------------- MODULE Mount -------------------------------
(***************************************************************************)
(* The life of a mount: run in src/cmd/chipfs/main.go, from vfs.NewRoot to *)
(* the return of server.Wait, with the goroutine that unmounts on SIGINT   *)
(* and SIGTERM, while clients use the mount as module Passthrough has it.  *)
(*                                                                         *)
(* os/signal and go-fuse's server are external: Notify drops a signal when *)
(* the channel is full and leaves those before it to their default action, *)
(* which ends the process; Unmount fails while a file of the mount is      *)
(* open; Wait returns once the mount is gone, whoever unmounted it.        *)
(***************************************************************************)
EXTENDS Passthrough

CONSTANT Capacity       \* of the signal channel

ASSUME CapacityAssumption == Capacity \in Nat \ {0}

VARIABLES
    pc,         \* main: new, mount, mounted, waiting; then exited, failed or killed
    mounted,    \* in the kernel's mount table
    sig,        \* the number of signals in the channel
    handler,    \* the goroutine: none, range (at the channel) or unmounting
    asked       \* a signal has arrived since the last unmount began

mainVars == <<pc, mounted, sig, handler, asked>>
vars == <<fileVars, mainVars>>

Init ==
    /\ InitFiles
    /\ pc = "new"
    /\ mounted = FALSE
    /\ sig = 0
    /\ handler = "none"
    /\ asked = FALSE

Goto(there) == pc' = there

-----------------------------------------------------------------------------
(* The main goroutine.                                                     *)

NewRoot ==
    /\ pc = "new"
    /\ Goto("mount") \/ Goto("failed")
    /\ UNCHANGED <<fileVars, mounted, sig, handler, asked>>

(* The scan runs and the kernel starts to send requests.                   *)
FsMount ==
    /\ pc = "mount"
    /\ \/ /\ Goto("mounted")
          /\ mounted' = TRUE
          /\ mtime' \in EntryMtimes
       \/ Goto("failed") /\ UNCHANGED <<mounted, mtime>>
    /\ UNCHANGED <<version, present, opened, kernel, last, straddled, sig, handler, asked>>

Notify ==
    /\ pc = "mounted"
    /\ Goto("waiting")
    /\ handler' = "range"
    /\ UNCHANGED <<fileVars, mounted, sig, asked>>

Wait ==
    /\ pc = "waiting" /\ ~mounted
    /\ Goto("exited")
    /\ UNCHANGED <<fileVars, mounted, sig, handler, asked>>

-----------------------------------------------------------------------------
(* Signals and the goroutine that takes them.                              *)

\* A channel without a buffer (a mutation of Signal).
SignalUnbuffered ==
    /\ pc = "waiting"
    /\ sig' = IF handler = "range" THEN 1 ELSE sig
    /\ asked' = TRUE
    /\ UNCHANGED <<fileVars, pc, mounted, handler>>

Signal ==
    \/ /\ pc = "waiting"
       /\ sig' = IF sig < Capacity THEN sig + 1 ELSE sig
       /\ asked' = TRUE
       /\ UNCHANGED <<fileVars, pc, mounted, handler>>
    \/ /\ pc \in {"new", "mount", "mounted"}
       /\ Goto("killed")
       /\ UNCHANGED <<fileVars, mounted, sig, handler, asked>>

TakeSignal ==
    /\ pc = "waiting" /\ handler = "range" /\ sig > 0
    /\ sig' = sig - 1
    /\ handler' = "unmounting"
    /\ asked' = FALSE
    /\ UNCHANGED <<fileVars, pc, mounted>>

UnmountSucceeds ==
    /\ pc = "waiting" /\ handler = "unmounting" /\ NothingOpen
    /\ mounted' = FALSE
    /\ handler' = "range"
    /\ UNCHANGED <<fileVars, pc, sig, asked>>

\* A goroutine that takes one signal and ends (a mutation of UnmountFails).
UnmountFailsForGood ==
    /\ pc = "waiting" /\ handler = "unmounting" /\ ~NothingOpen
    /\ handler' = "none"
    /\ UNCHANGED <<fileVars, pc, mounted, sig, asked>>

(* The error is printed and the loop goes on to the next signal.           *)
UnmountFails ==
    /\ pc = "waiting" /\ handler = "unmounting" /\ ~NothingOpen
    /\ handler' = "range"
    /\ UNCHANGED <<fileVars, pc, mounted, sig, asked>>

(* fusermount -u, or umount, by someone else.                              *)
Fusermount ==
    /\ mounted /\ NothingOpen
    /\ mounted' = FALSE
    /\ UNCHANGED <<fileVars, pc, sig, handler, asked>>

-----------------------------------------------------------------------------

Serving == mounted /\ pc \in {"mounted", "waiting"}

Files ==
    /\ \/ \E c \in Clients : (Serving /\ Serve(c)) \/ Release(c)
       \/ Outside
    /\ UNCHANGED mainVars

Main == NewRoot \/ FsMount \/ Notify \/ Wait

Handler == TakeSignal \/ UnmountSucceeds \/ UnmountFails

Next == Main \/ Handler \/ Signal \/ Fusermount \/ Files

Spec == Init /\ [][Next]_vars

(* Both goroutines run.  Nobody has to send a signal or close a file.      *)
FairSpec == Spec /\ WF_vars(Main) /\ WF_vars(Handler)

-----------------------------------------------------------------------------
(* Properties.                                                             *)

TypeOK ==
    /\ FilesTypeOK
    /\ pc \in {"new", "mount", "mounted", "waiting", "exited", "failed", "killed"}
    /\ mounted \in BOOLEAN
    /\ sig \in 0..Capacity
    /\ handler \in {"none", "range", "unmounting"}
    /\ handler = "none" <=> pc \in {"new", "mount", "mounted", "failed", "killed"}
    /\ asked \in BOOLEAN

(* A signal that the full channel drops is not lost: as long as no unmount *)
(* has begun since it came, there is another in the channel (main.go, the  *)
(* channel of capacity one, taken before each unmount).                    *)
SignalRemembered == pc = "waiting" /\ asked => sig > 0

(* "close files on the mount, then retry" (main.go): however many unmounts *)
(* have failed, a signal that comes while nothing is or will be open ends  *)
(* the process with the mount gone.                                        *)
StopsWhenAsked == [](asked /\ []NothingOpen => <>(pc = "exited" /\ ~mounted))

=============================================================================
