----------------------------- MODULE Durations -----------------------------
(***************************************************************************)
(* How a duration is chosen from what a file says, a default and a limit:  *)
(* clampMs and Options.applyDefaults in src/internal/vfs/vfs.go.           *)
(***************************************************************************)
EXTENDS Integers

ClampMs(ms, default, max) ==
    LET chosen == IF ms <= 0 THEN default ELSE ms
    IN  IF chosen <= max THEN chosen ELSE max

ApplyDefault(ms, builtIn) == IF ms <= 0 THEN builtIn ELSE ms

=============================================================================
