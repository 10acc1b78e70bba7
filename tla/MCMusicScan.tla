----------------------------- MODULE MCMusicScan -----------------------------
(* Instances of MusicScan for TLC. *)
EXTENDS MusicScan, TLC

CONSTANTS f1, f2, f3, x, y

\* Three files of one artist.
SharedName == (f1 :> <<x>>) @@ (f2 :> <<x>>) @@ (f3 :> <<x>>)
\* One file with an artist, one without any.
OneName == (f1 :> <<x>>) @@ (f2 :> <<>>)
\* One file with two artists.
TwoNames == f1 :> <<x, y>>

SharedAlbum == [f \in Files |-> CHOOSE a \in Albums : TRUE]
NoAlbum == [f \in Files |-> None]

Symmetry == Permutations(Workers)

=============================================================================
