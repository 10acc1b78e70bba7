---------------------------- MODULE MCMusicStream ----------------------------
(* The instance of MusicStream for TLC: chunks of two bytes, files of up to  *)
(* four, so that a range takes one chunk, several or a part of one.          *)
EXTENDS MusicStream

=============================================================================
