---------------------------- MODULE MCTrackPages ----------------------------
(* Instances of TrackPages for TLC. *)
EXTENDS TrackPages

=============================================================================
