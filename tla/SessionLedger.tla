---------------------------- MODULE SessionLedger ----------------------------
(***************************************************************************)
(* What the refresh_tokens table promises to whoever reads it, with the    *)
(* requests, Redis, clocks and row locks left out: a session is opened     *)
(* once, is closed once and for all, and replaces another session only     *)
(* when that one is closed.                                                *)
(***************************************************************************)
EXTENDS FiniteSets

CONSTANTS Sessions, None

VARIABLES
  state,   \* "absent", "live" or "revoked"
  origin   \* the session it was refreshed from, None for a login

vars == <<state, origin>>

LedgerTypeOK ==
  /\ state \in [Sessions -> {"absent", "live", "revoked"}]
  /\ origin \in [Sessions -> Sessions \cup {None}]

Init ==
  /\ state = [s \in Sessions |-> "absent"]
  /\ origin = [s \in Sessions |-> None]

Open == {s \in Sessions : state[s] = "live"}

\* A login (p = None) or the refresh of p opens s.  At most one open session,
\* the evicted one, gives way to it.
OpenSession(s, p, gone) ==
  /\ state[s] = "absent"
  /\ p = None \/ state[p] = "revoked"
  /\ gone \subseteq Open /\ \A x, y \in gone : x = y
  /\ state' = [x \in Sessions |->
                 IF x = s THEN "live" ELSE IF x \in gone THEN "revoked" ELSE state[x]]
  /\ origin' = [origin EXCEPT ![s] = p]

\* A logout, a refresh or an expiry closes one session, a logout of all
\* devices any number.
CloseSessions(gone) ==
  /\ gone \subseteq Open
  /\ state' = [x \in Sessions |-> IF x \in gone THEN "revoked" ELSE state[x]]
  /\ UNCHANGED origin

Next ==
  \/ \E s \in Sessions, p \in Sessions \cup {None} :
       \E gone \in SUBSET Sessions : OpenSession(s, p, gone)
  \/ \E gone \in SUBSET Sessions : CloseSessions(gone)

Spec == Init /\ [][Next]_vars

=============================================================================
