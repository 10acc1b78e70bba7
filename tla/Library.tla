------------------------------- MODULE Library -------------------------------
(***************************************************************************)
(* What the tables of the music promise to whoever reads them, with the    *)
(* scans, their transactions, locks, caches and pages left out: a track is *)
(* put there or replaced one at a time, always as a whole, and tracks go   *)
(* away without leaving anything of them behind.                           *)
(***************************************************************************)
CONSTANTS Files, Nothing

VARIABLES
  copy,   \* what the table holds for each path, Nothing: no track
  whole   \* the paths whose track has all that it names

vars == <<copy, whole>>

Kept == {f \in Files : copy[f] # Nothing}

Init ==
  /\ copy = [f \in Files |-> Nothing]
  /\ whole = {}

\* A new track, or another copy of one; no other track notices.
Put(f) ==
  /\ copy'[f] # Nothing
  /\ copy' = [copy EXCEPT ![f] = copy'[f]]
  /\ whole' = whole \cup {f}

\* Any number of tracks at once: the stale ones of a scan.
Remove(gone) ==
  /\ gone \subseteq Kept
  /\ copy' = [f \in Files |-> IF f \in gone THEN Nothing ELSE copy[f]]
  /\ whole' = whole \ gone

Next ==
  \/ \E f \in Files : Put(f)
  \/ \E gone \in SUBSET Files : Remove(gone)

Spec == Init /\ [][Next]_vars

=============================================================================
