--------------------------- MODULE AuthSessionsInv ---------------------------
(***************************************************************************)
(* The inductive strengthening of the properties of AuthSessions: what     *)
(* holds between any two awaits of any handler.                            *)
(***************************************************************************)
EXTENDS AuthSessions

\* Where a handler is once it has created its token.
HasNew == {"count", "oldest", "evict", "insert", "commit", "failed"}

\* Where a refresh is once it has revoked the token it was sent.
HasRotated == {"version", "setversion"} \cup HasNew

Minted(t) == tok[t].user # None

\* The row is revoked, and the access token is blacklisted until it expires.
Retired(t) ==
  Minted(t) /\ row[t] = "revoked" /\ tok[t].exp <= blacklist[t]

\* No access token lives longer than one minted now.
ExpBounded == \A t \in Tokens : tok[t].exp <= now + AccessTTL

\* Only minted tokens reach a client or the table.
KnownTokens ==
  /\ \A t \in issued : Minted(t)
  /\ \A t \in Tokens : row[t] # "absent" => Minted(t)

\* The fields a handler goes by are set when it gets to use them.
CreatorShape(q) ==
  /\ q.pc \in HasRotated \cup {"load"} => q.op \in Creators
  /\ q.op \in Creators => q.user \in Users
  /\ q.op \in {"login", "oauth"} => q.tok = None /\ q.pc \in HasRotated
  /\ q.op = "refresh" => /\ q.tok \in Tokens /\ q.user = tok[q.tok].user
                         /\ q.pc \in HasRotated \cup {"load", "deny", "select", "revoke"}
  /\ q.pc \in HasNew =>
       /\ q.new \in Tokens /\ tok[q.new].user = q.user
       /\ tok[q.new].parent = q.tok /\ row[q.new] = "absent"
  /\ q.pc \notin HasNew => q.new = None
  /\ q.pc \notin {"evict", "insert", "commit"} => q.victim = None
  /\ q.victim # None => /\ Minted(q.victim) /\ tok[q.victim].user = q.user
                        /\ row[q.victim] # "absent"
  /\ q.pc = "evict" => q.victim # None

RevokerShape(q) ==
  /\ q.pc \in {"deny", "select", "revoke", "find"} =>
       q.op # "none" /\ q.tok \in Tokens
  /\ q.pc \in {"deny", "revoke"} => row[q.tok] # "absent"
  /\ q.pc \in {"auth", "authversion"} =>
       q.op # "none" /\ q.acc \in Tokens /\ q.tok \in Tokens
  /\ q.pc = "idle" => q = Idle

Shape == \A r \in Requests : CreatorShape(req[r]) /\ RevokerShape(req[r])

\* Two handlers never create the same token.
OwnToken ==
  \A r1, r2 \in Requests :
    req[r1].new # None /\ req[r1].new = req[r2].new => r1 = r2

\* What a handler has already done to the session it acts on.
DoneTo(q) ==
  /\ q.op = "refresh" /\ q.pc \in {"select", "revoke"} =>
       tok[q.tok].exp <= blacklist[q.tok]
  /\ q.op = "refresh" /\ q.pc \in HasRotated => Retired(q.tok)
  /\ q.op # "refresh" /\ q.pc = "deny" => row[q.tok] = "revoked"
  /\ \A t \in q.seen : Minted(t) /\ row[t] # "absent" /\ tok[t].user = q.user
  /\ q.pc = "bump" => \A t \in q.seen : row[t] = "revoked"

Progress == \A r \in Requests : DoneTo(req[r])

ParentsRetired ==
  \A t \in Tokens : tok[t].parent # None => Retired(tok[t].parent)

ClosedRetired == \A t \in closed : Retired(t)

\* The inductive invariant behind the type invariant, the two properties of
\* rotation and logout, and the refinement of SessionLedger.
IInv ==
  /\ TypeOK /\ ExpBounded /\ KnownTokens /\ Shape /\ OwnToken
  /\ Progress /\ ParentsRetired /\ ClosedRetired

-----------------------------------------------------------------------------
(* One creator at a time *)

AloneUnlessOverlapped ==
  \A u \in Users \ overlapped : \A r1, r2 \in Requests :
    Creating(r1, u) /\ Creating(r2, u) => r1 = r2

\* Room for the session that the only creator is about to insert.
RoomLeft ==
  \A u \in Users \ overlapped : \A r \in Requests :
    Creating(r, u) /\ req[r].pc \in {"evict", "insert", "commit"} =>
      Cardinality(Live(u) \ {req[r].victim}) < SessionLimit

\* Without overlap no two tokens have the same parent.
NoFork ==
  \A t1, t2 \in Tokens :
    tok[t1].parent # None /\ tok[t1].parent = tok[t2].parent
      /\ tok[t1].user \notin overlapped => t1 = t2

\* A refresh that has seen its token live is the first to replace it.
FirstChild ==
  \A r \in Requests :
    req[r].op = "refresh" /\ req[r].pc \in {"revoke", "version", "setversion"}
      /\ req[r].user \notin overlapped =>
        \A t \in Tokens : tok[t].parent # req[r].tok

ChildOfSameUser ==
  \A t \in Tokens :
    tok[t].parent # None => tok[t].user = tok[tok[t].parent].user

OInv ==
  /\ AloneUnlessOverlapped /\ SessionCap /\ RoomLeft
  /\ NoFork /\ FirstChild /\ ChildOfSameUser

-----------------------------------------------------------------------------
(* The version: sound until it is set back *)

\* Only a version that is there lets a logout of all devices in.
VersionThere ==
  \A r \in Requests :
    req[r].pc \in {"snapshot", "sweep", "bump"} =>
      req[r].user \in Users /\ version[req[r].user] >= 1

PresentsOwn ==
  \A r \in Requests : req[r].pc \in {"auth", "authversion"} =>
    Minted(req[r].acc) /\ req[r].user = tok[req[r].acc].user

\* Without overlap, what a handler found absent still is when it sets it.
AbsentStill ==
  \A r \in Requests :
    req[r].pc = "setversion" /\ req[r].user \notin overlapped =>
      version[req[r].user] = 0

VersionsRise ==
  \A t \in Tokens : Minted(t) /\ tok[t].user \notin rewound =>
    tok[t].version <= version[tok[t].user]

SweptBehind ==
  \A t \in swept :
    /\ Minted(t) /\ row[t] = "revoked"
    /\ tok[t].user \notin rewound => tok[t].version < version[tok[t].user]

VInv ==
  /\ VersionThere /\ PresentsOwn /\ AbsentStill /\ VersionsRise /\ SweptBehind
  /\ rewound \subseteq overlapped

-----------------------------------------------------------------------------
(* Any number of refreshes of one token at a time *)

Children(p) == {t \in Tokens : tok[t].parent = p}

\* The refreshes that have selected the row of p and not created a token yet.
Heirs(p) == {r \in Requests : /\ req[r].op = "refresh" /\ req[r].tok = p
                              /\ req[r].pc \in {"revoke", "version", "setversion"}}

\* Every child was an heir of its own.
HeirsLeft ==
  \A p \in Tokens :
    Cardinality(Children(p)) + Cardinality(Heirs(p)) <= Cardinality(Requests)

=============================================================================
