---------------------------- MODULE MCRenderTrack ----------------------------
(***************************************************************************)
(* Durations below, at and above every limit, none (0) and negative.  2.5  *)
(* frames per millisecond make SampleCount round down, and a chunk divides *)
(* neither the ceiling nor the length of most tracks.                      *)
(***************************************************************************)
EXTENDS RenderTrack

MCMs == {-1, 0, 1, 2, 3, 4, 9}
=============================================================================
