---------------------------- MODULE AuthSessions ----------------------------
(***************************************************************************)
(* The session core of the service: login, OAuth login, refresh, logout,   *)
(* logout of one session and logout of all devices                         *)
(* (app/service/user.py), the check of the access token                    *)
(* (app/dependencies/user.py), the refresh_tokens table behind             *)
(* app/repository/user.py and the two kinds of Redis keys.                 *)
(*                                                                         *)
(* Requests run concurrently: on one event loop they interleave at every   *)
(* await, and the gunicorn workers run in parallel.  One step of the model *)
(* is the code between two awaits that touch PostgreSQL or Redis.  The     *)
(* database runs at its default isolation level, READ COMMITTED: every     *)
(* statement sees what is committed when it starts, an UPDATE waits for    *)
(* the row lock of another transaction, and what a transaction has flushed *)
(* is seen by nobody else before it commits.                               *)
(***************************************************************************)
EXTENDS Integers, FiniteSets

CONSTANTS
  Users,         \* accounts that pass the admission checks of login
  Tokens,        \* one element for each (refresh token, jti, access token)
                 \* that one handler creates together
  Requests,      \* requests that may be in flight at once, over all workers
  None,          \* no user, no token
  Ops,           \* the endpoints that are called
  SessionLimit,  \* the 5 of  len(token_list) >= 5
  AccessTTL,     \* ACCESS_TOKEN_EXP_MINS, in clock ticks
  RefreshTTL,    \* REFRESH_TOKEN_EXP_DAYS, in clock ticks
  InitVersion,   \* token-version of every user at the start, 0: key absent
  MaxTime        \* bound on the clock

ASSUME NoneAssumption == None \notin Users /\ None \notin Tokens
ASSUME LimitAssumption == SessionLimit \in Nat \ {0}
ASSUME TimeAssumption ==
  AccessTTL \in Nat /\ RefreshTTL \in Nat /\ MaxTime \in Nat
ASSUME VersionAssumption == InitVersion \in Nat
ASSUME FiniteAssumption == IsFiniteSet(Tokens) /\ IsFiniteSet(Requests)

VARIABLES
  now,         \* the clock
  row,         \* refresh_tokens: committed state of the row of each token
  tok,         \* what the row and the access token of each token say
  version,     \* Redis  retro-service:{id}:token-version, 0: no such key
  blacklist,   \* Redis  access-blacklist key of each access token: the time
               \* it expires
  issued,      \* tokens whose cookies were sent to a client
  req,         \* what each request is doing
  overlapped,  \* history: users for whom two requests that create a session
               \* were in flight at once
  closed,      \* history: sessions whose logout was answered with success
  swept,       \* history: sessions that a completed logout of all devices
               \* found in the table
  rewound      \* history: users whose version a login or refresh set back to 1

vars == <<now, row, tok, version, blacklist, issued, req, overlapped, closed,
          swept, rewound>>

-----------------------------------------------------------------------------
(* Types *)

OpNames == {"login", "oauth", "refresh", "expire", "logout", "logout_all",
            "logout_specific"}

Labels == {"idle", "version", "setversion", "count", "oldest", "evict",
           "insert", "commit", "failed", "load", "deny", "select", "revoke",
           "auth", "authversion", "find", "snapshot", "sweep", "bump"}

RowStates == {"absent", "live", "revoked"}

\* user = None: the token does not exist yet.
TokenInfo == [user    : Users \cup {None},
              version : Nat,     \* claim "version" of the access token
              exp     : Nat,     \* claim "exp" of the access token
              till    : Nat,     \* column valid_till
              created : Nat,     \* column created_at
              parent  : Tokens \cup {None}]  \* the token it was refreshed from

Blank == [user |-> None, version |-> 0, exp |-> 0, till |-> 0, created |-> 0,
          parent |-> None]

RequestState == [pc     : Labels,
                 op     : OpNames \cup {"none"},
                 user   : Users \cup {None},
                 acc    : Tokens \cup {None},  \* access token presented
                 tok    : Tokens \cup {None},  \* session it acts on
                 new    : Tokens \cup {None},  \* token it creates
                 victim : Tokens \cup {None},  \* row it evicts
                 began  : Nat,                 \* start of its transaction
                 seen   : SUBSET Tokens]       \* rows its UPDATE sees

Idle == [pc |-> "idle", op |-> "none", user |-> None, acc |-> None,
         tok |-> None, new |-> None, victim |-> None, began |-> 0,
         seen |-> {}]

TypeOK ==
  /\ now \in Nat
  /\ row \in [Tokens -> RowStates]
  /\ tok \in [Tokens -> TokenInfo]
  /\ version \in [Users -> Nat]
  /\ blacklist \in [Tokens -> Nat]
  /\ issued \in SUBSET Tokens
  /\ req \in [Requests -> RequestState]
  /\ overlapped \in SUBSET Users
  /\ closed \in SUBSET Tokens
  /\ swept \in SUBSET Tokens
  /\ rewound \in SUBSET Users

Init ==
  /\ now = 0
  /\ row = [t \in Tokens |-> "absent"]
  /\ tok = [t \in Tokens |-> Blank]
  /\ version = [u \in Users |-> InitVersion]
  /\ blacklist = [t \in Tokens |-> 0]
  /\ issued = {}
  /\ req = [r \in Requests |-> Idle]
  /\ overlapped = {}
  /\ closed = {}
  /\ swept = {}
  /\ rewound = {}

history == <<overlapped, closed, swept, rewound>>

-----------------------------------------------------------------------------
(* What the handlers and the database look at *)

Creators == {"login", "oauth", "refresh"}

Fresh == {t \in Tokens : tok[t].user = None}

\* get_refresh_tokens_user_id: the user's rows that are not revoked.
Live(u) == {t \in Tokens : row[t] = "live" /\ tok[t].user = u}

\* Mutant: order_by(created_at.desc()).
NewestOf(S) == {t \in S : \A s \in S : tok[t].created >= tok[s].created}

\* order_by(created_at).limit(1): ties are the database's choice.
OldestOf(S) == {t \in S : \A s \in S : tok[t].created <= tok[s].created}

\* The two halves of get_current_user_email, one per Redis command.
AccessUsable(t) == now < tok[t].exp /\ blacklist[t] <= now
AccessCurrent(t) == version[tok[t].user] # 0 /\ tok[t].version = version[tok[t].user]

\* get_current_user_email lets the access token of t through.
Accepted(t) == tok[t].user # None /\ AccessUsable(t) /\ AccessCurrent(t)

\* Mutant: a bulk UPDATE that is still waiting locks every row it will touch.
LockedBySweep(t, r) ==
  \E q \in Requests \ {r} :
    \/ req[q].pc \in {"insert", "commit"} /\ req[q].victim = t
    \/ req[q].pc = "sweep" /\ t \in req[q].seen

\* Another transaction has flushed its update of the row of t.
Locked(t, r) ==
  \E q \in Requests \ {r} :
    req[q].pc \in {"insert", "commit"} /\ req[q].victim = t

\* Request q is on its way to create a session of user u.
Creating(q, u) == req[q].op \in Creators /\ req[q].user = u

\* Bound: a session is started only while there is a token left for it.
TokenLeft ==
  Cardinality(Fresh) >
    Cardinality({q \in Requests : req[q].op \in Creators /\ req[q].new = None})

-----------------------------------------------------------------------------
(* Moving a request *)

Move(r, s) == req' = [req EXCEPT ![r] = s]

Goto(r, l) == Move(r, [req[r] EXCEPT !.pc = l])

Finish(r) == Move(r, Idle)

\* The handler raises before it has changed anything.
Reject(r) ==
  /\ Finish(r)
  /\ UNCHANGED <<now, row, tok, version, blacklist, issued, history>>

Begin(r, op, fields) ==
  /\ op \in Ops
  /\ req[r].pc = "idle"
  /\ Move(r, fields)

BeginCreator(r, op, u, fields) ==
  /\ TokenLeft
  /\ Begin(r, op, fields)
  /\ overlapped' = IF \E q \in Requests : Creating(q, u)
                     THEN overlapped \cup {u} ELSE overlapped
  /\ UNCHANGED <<now, row, tok, version, blacklist, issued, closed, swept,
                 rewound>>

-----------------------------------------------------------------------------
(* login and OAuth login *)

\* get_user_by_email opens the transaction; the account is approved and the
\* password is right.
LoginBegin(r, u) ==
  BeginCreator(r, "login", u,
    [Idle EXCEPT !.pc = "version", !.op = "login", !.user = u, !.began = now])

\* The same for the user that Google names.
OAuthBegin(r, u) ==
  BeginCreator(r, "oauth", u,
    [Idle EXCEPT !.pc = "version", !.op = "oauth", !.user = u, !.began = now])

\* No such user, an account waiting for approval or a wrong password.
LoginRefused(r) ==
  /\ req[r].pc = "idle" /\ Ops \cap {"login", "oauth"} # {}
  /\ UNCHANGED vars

\* Mutant: datetime.now(UTC) - timedelta(minutes=ACCESS_TOKEN_EXP_MINS).
MintBackwards(r, v) ==
  \E t \in Fresh :
    /\ tok' = [tok EXCEPT ![t] =
         [Blank EXCEPT !.user = req[r].user, !.version = v,
                       !.exp = now - AccessTTL, !.created = req[r].began,
                       !.parent = req[r].tok]]
    /\ Move(r, [req[r] EXCEPT !.pc = "count", !.new = t])

\* uuid4() for the three identifiers and create_access_token.  A refresh
\* token rotated by /refresh is remembered as the parent.
Mint(r, v) ==
  \E t \in Fresh :
    /\ tok' = [tok EXCEPT ![t] =
         [Blank EXCEPT !.user = req[r].user, !.version = v,
                       !.exp = now + AccessTTL, !.created = req[r].began,
                       !.parent = req[r].tok]]
    /\ Move(r, [req[r] EXCEPT !.pc = "count", !.new = t])

\* redis.get(token-version)
ReadVersion(r) ==
  LET v == version[req[r].user] IN
  /\ req[r].pc = "version"
  /\ IF v = 0
       THEN Goto(r, "setversion") /\ UNCHANGED tok
       ELSE Mint(r, v)
  /\ UNCHANGED <<now, row, version, blacklist, issued, history>>

\* redis.set(token-version, 1): whatever the key holds by now.
SetVersion(r) ==
  /\ req[r].pc = "setversion"
  /\ version' = [version EXCEPT ![req[r].user] = 1]
  /\ Mint(r, 1)
  /\ rewound' = IF version[req[r].user] > 1 THEN rewound \cup {req[r].user}
                                            ELSE rewound
  /\ UNCHANGED <<now, row, blacklist, issued, overlapped, closed, swept>>

\* Mutant: len(token_list) > 5.
CountOffByOne(r) ==
  /\ req[r].pc = "count"
  /\ Goto(r, IF Cardinality(Live(req[r].user)) > SessionLimit
               THEN "oldest" ELSE "insert")
  /\ UNCHANGED <<now, row, tok, version, blacklist, issued, history>>

\* len(token_list) >= 5
Count(r) ==
  /\ req[r].pc = "count"
  /\ Goto(r, IF Cardinality(Live(req[r].user)) >= SessionLimit
               THEN "oldest" ELSE "insert")
  /\ UNCHANGED <<now, row, tok, version, blacklist, issued, history>>

\* The SELECT of revoke_oldest_token.  When it finds nothing the handler
\* raises INTERNAL_SERVER_ERROR.
SelectOldest(r) ==
  LET rows == Live(req[r].user) IN
  /\ req[r].pc = "oldest"
  /\ \/ rows = {} /\ Goto(r, "failed")
     \/ \E t \in OldestOf(rows) :
          Move(r, [req[r] EXCEPT !.pc = "evict", !.victim = t])
  /\ UNCHANGED <<now, row, tok, version, blacklist, issued, history>>

\* The UPDATE of revoke_oldest_token: by primary key, whatever became of the
\* row since the SELECT.  It takes the row lock and is not committed yet.
Evict(r) ==
  /\ req[r].pc = "evict"
  /\ ~Locked(req[r].victim, r)
  /\ Goto(r, "insert")
  /\ UNCHANGED <<now, row, tok, version, blacklist, issued, history>>

\* create_refresh_token flushes the row and the response is sent: the session
\* of get_db commits only after that.
Insert(r) ==
  LET t == req[r].new IN
  /\ req[r].pc = "insert"
  /\ tok' = [tok EXCEPT ![t].till = now + RefreshTTL]
  /\ issued' = issued \cup {t}
  /\ Goto(r, "commit")
  /\ UNCHANGED <<now, row, version, blacklist, history>>

\* session.commit() behind the response.
Commit(r) ==
  /\ req[r].pc = "commit"
  /\ row' = [t \in Tokens |-> CASE t = req[r].new -> "live"
                                [] t = req[r].victim -> "revoked"
                                [] OTHER -> row[t]]
  /\ Finish(r)
  /\ UNCHANGED <<now, tok, version, blacklist, issued, history>>

\* The 500 of an eviction that found no row.
Failed(r) == req[r].pc = "failed" /\ Reject(r)

-----------------------------------------------------------------------------
(* refresh *)

\* A client sends the refresh cookie of a response it got at any time.
RefreshBegin(r, t) ==
  /\ t \in issued
  /\ BeginCreator(r, "refresh", tok[t].user,
       [Idle EXCEPT !.pc = "load", !.op = "refresh", !.user = tok[t].user,
                    !.tok = t])

\* get_refresh_token and the checks on what it read.  A row that has run out
\* is revoked, then the request is rejected.
RefreshLoad(r) ==
  LET t == req[r].tok IN
  /\ req[r].pc = "load"
  /\ \/ row[t] # "live" /\ Reject(r)
     \/ /\ row[t] = "live"
        /\ IF tok[t].till < now
             THEN Move(r, [req[r] EXCEPT !.op = "expire", !.pc = "select"])
             ELSE Goto(r, "deny")
        /\ UNCHANGED <<now, row, tok, version, blacklist, issued, history>>

\* Mutant: /refresh does not blacklist the access token it replaces.
DenyLogoutOnly(r) ==
  LET t == req[r].tok IN
  /\ req[r].pc = "deny"
  /\ IF req[r].op = "refresh"
       THEN Goto(r, "select") /\ UNCHANGED <<closed, blacklist>>
       ELSE /\ Finish(r) /\ closed' = closed \cup {t}
            /\ blacklist' = [blacklist EXCEPT ![t] = now + AccessTTL]
  /\ UNCHANGED <<now, row, tok, version, issued, overlapped, swept, rewound>>

\* Mutant: /logout/session blacklists current_jti, not the target's access_jti.
DenyCurrent(r) ==
  LET t == req[r].tok
      a == IF req[r].op = "logout_specific" THEN req[r].acc ELSE t IN
  /\ req[r].pc = "deny"
  /\ blacklist' = [blacklist EXCEPT ![a] = now + AccessTTL]
  /\ IF req[r].op = "refresh"
       THEN Goto(r, "select") /\ UNCHANGED closed
       ELSE Finish(r) /\ closed' = closed \cup {t}
  /\ UNCHANGED <<now, row, tok, version, issued, overlapped, swept, rewound>>

\* redis.set(access-blacklist, ex=ACCESS_TOKEN_EXP_MINS).  /refresh does it
\* before it revokes the row, the logouts do it after and are done.
Deny(r) ==
  LET t == req[r].tok IN
  /\ req[r].pc = "deny"
  /\ blacklist' = [blacklist EXCEPT ![t] = now + AccessTTL]
  /\ IF req[r].op = "refresh"
       THEN Goto(r, "select") /\ UNCHANGED closed
       ELSE Finish(r) /\ closed' = closed \cup {t}
  /\ UNCHANGED <<now, row, tok, version, issued, overlapped, swept, rewound>>

\* The SELECT of revoke_refresh_token and revoke_refresh_token_by_jti.
RevokeSelect(r) ==
  LET t == req[r].tok IN
  /\ req[r].pc = "select"
  /\ \/ ~(row[t] = "live" /\ tok[t].user = req[r].user) /\ Reject(r)
     \/ /\ row[t] = "live" /\ tok[t].user = req[r].user
        /\ Goto(r, "revoke")
        /\ UNCHANGED <<now, row, tok, version, blacklist, issued, history>>

\* Mutant: revoke_refresh_token flushes and does not commit, so that what is
\* raised later in the refresh rolls it back.
RevokeUncommitted(r) ==
  LET t == req[r].tok IN
  /\ req[r].pc = "revoke"
  /\ ~Locked(t, r)
  /\ row' = [row EXCEPT ![t] = IF req[r].op = "refresh" THEN @ ELSE "revoked"]
  /\ CASE req[r].op = "refresh" ->
            Move(r, [req[r] EXCEPT !.pc = "version", !.began = now])
       [] req[r].op = "expire" -> Finish(r)
       [] OTHER -> Goto(r, "deny")
  /\ UNCHANGED <<now, tok, version, blacklist, issued, history>>

\* Their UPDATE by primary key and its commit.  The row may have been revoked
\* by another request since the SELECT.  A refresh goes on in a transaction
\* that starts here; an expired row ends in a rejection.
Revoke(r) ==
  LET t == req[r].tok IN
  /\ req[r].pc = "revoke"
  /\ ~Locked(t, r)
  /\ row' = [row EXCEPT ![t] = "revoked"]
  /\ CASE req[r].op = "refresh" ->
            Move(r, [req[r] EXCEPT !.pc = "version", !.began = now])
       [] req[r].op = "expire" -> Finish(r)
       [] OTHER -> Goto(r, "deny")
  /\ UNCHANGED <<now, tok, version, blacklist, issued, history>>

-----------------------------------------------------------------------------
(* The logouts *)

\* A browser sends the two cookies of one response together, so t is both the
\* access token and the refresh token presented.  s is the session id in the
\* path of /logout/session/{session_id}.
LogoutBegin(r, op, t, s) ==
  /\ t \in issued
  /\ Begin(r, op, [Idle EXCEPT !.pc = "auth", !.op = op, !.user = tok[t].user,
                               !.acc = t, !.tok = s])
  /\ UNCHANGED <<now, row, tok, version, blacklist, issued, history>>

\* get_current_user_email: signature, exp and the blacklist.
Auth(r) ==
  /\ req[r].pc = "auth"
  /\ \/ ~AccessUsable(req[r].acc) /\ Reject(r)
     \/ /\ AccessUsable(req[r].acc)
        /\ Goto(r, "authversion")
        /\ UNCHANGED <<now, row, tok, version, blacklist, issued, history>>

\* get_current_user_email: the version, read by a second command.
AuthVersion(r) ==
  /\ req[r].pc = "authversion"
  /\ \/ ~AccessCurrent(req[r].acc) /\ Reject(r)
     \/ /\ AccessCurrent(req[r].acc)
        /\ Goto(r, CASE req[r].op = "logout" -> "select"
                      [] req[r].op = "logout_all" -> "snapshot"
                      [] OTHER -> "find")
        /\ UNCHANGED <<now, row, tok, version, blacklist, issued, history>>

\* get_refresh_token_by_jti, revoked or not.  The session the request itself
\* presents is logged out by logout().
Find(r) ==
  LET s == req[r].tok
      found == row[s] # "absent" /\ tok[s].user = req[r].user IN
  /\ req[r].pc = "find"
  /\ \/ ~found /\ Reject(r)
     \/ /\ found
        /\ Move(r, [req[r] EXCEPT !.pc = "select",
             !.op = IF s = req[r].acc THEN "logout" ELSE "logout_specific"])
        /\ UNCHANGED <<now, row, tok, version, blacklist, issued, history>>

\* revoke_all_by_user_id: the UPDATE takes its snapshot ...
Snapshot(r) ==
  /\ req[r].pc = "snapshot"
  /\ Move(r, [req[r] EXCEPT !.pc = "sweep", !.seen = Live(req[r].user)])
  /\ UNCHANGED <<now, row, tok, version, blacklist, issued, history>>

\* ... waits for the row locks it needs, and commits.
Sweep(r) ==
  /\ req[r].pc = "sweep"
  /\ \A t \in req[r].seen : ~Locked(t, r)
  /\ row' = [t \in Tokens |-> IF t \in req[r].seen THEN "revoked" ELSE row[t]]
  /\ Goto(r, "bump")
  /\ UNCHANGED <<now, tok, version, blacklist, issued, history>>

\* Mutant: logout_all without redis.incr.
BumpNothing(r) ==
  /\ req[r].pc = "bump"
  /\ swept' = swept \cup req[r].seen
  /\ Finish(r)
  /\ UNCHANGED <<now, row, tok, version, blacklist, issued, overlapped, closed,
                 rewound>>

\* redis.incr(token-version); an absent key counts as 0.
Bump(r) ==
  /\ req[r].pc = "bump"
  /\ version' = [version EXCEPT ![req[r].user] = @ + 1]
  /\ swept' = swept \cup req[r].seen
  /\ Finish(r)
  /\ UNCHANGED <<now, row, tok, blacklist, issued, overlapped, closed, rewound>>

-----------------------------------------------------------------------------
(* Failure, time and the specification *)

\* The worker dies, PostgreSQL or Redis fails, or the commit does: the open
\* transaction is rolled back, what was committed or sent stays.
Abort(r) == req[r].pc # "idle" /\ Reject(r)

Tick ==
  /\ now < MaxTime
  /\ now' = now + 1
  /\ UNCHANGED <<row, tok, version, blacklist, issued, req, history>>

Step(r) ==
  \/ ReadVersion(r) \/ SetVersion(r) \/ Count(r) \/ SelectOldest(r)
  \/ Evict(r) \/ Insert(r) \/ Commit(r) \/ Failed(r)
  \/ RefreshLoad(r) \/ Deny(r) \/ RevokeSelect(r) \/ Revoke(r)
  \/ Auth(r) \/ AuthVersion(r) \/ Find(r)
  \/ Snapshot(r) \/ Sweep(r) \/ Bump(r)

Next ==
  \/ Tick
  \/ \E r \in Requests :
       \/ Step(r)
       \/ Abort(r)
       \/ LoginRefused(r)
       \/ \E u \in Users : LoginBegin(r, u) \/ OAuthBegin(r, u)
       \/ \E t \in Tokens : RefreshBegin(r, t)
       \/ \E t, s \in Tokens :
            \/ LogoutBegin(r, "logout_specific", t, s)
            \/ s = t /\ LogoutBegin(r, "logout", t, s)
            \/ s = t /\ LogoutBegin(r, "logout_all", t, s)

Spec == Init /\ [][Next]_vars

\* The event loop runs every handler that can go on.
FairSpec == Spec /\ \A r \in Requests : WF_vars(Step(r))

-----------------------------------------------------------------------------
(* Safety *)

\* Rotation (/refresh): once a token has been refreshed, neither it nor the
\* access token issued with it can be used again, at any point of the rest of
\* the handler and whatever fails there.
RotationRetiresParent ==
  \A t \in Tokens :
    LET p == tok[t].parent IN
    p # None => row[p] = "revoked" /\ ~Accepted(p)

\* Logout: when "Logged out successfully" is answered for a session, it
\* cannot be refreshed and its access token is refused from then on, although
\* other requests for the same session may still be running.
LogoutIsFinal ==
  \A t \in closed : row[t] = "revoked" /\ ~Accepted(t)

\* Logout of all devices: every session it found in the table stays revoked.
\* Access tokens are not blacklisted one by one here: that they are refused
\* rests on the version, which login and refresh read and, when the key is
\* absent, set to 1 by a second command.  A handler that read the absent key may
\* do so behind a logout of all devices, and the access tokens it ended are
\* accepted again: that takes two logins or refreshes of the user in flight at
\* once.  For everybody else those tokens are refused from then on.
LogoutAllIsFinal ==
  /\ \A t \in swept :
       row[t] = "revoked" /\ (Accepted(t) => tok[t].user \in rewound)
  /\ rewound \subseteq overlapped

\* The session limit (len(token_list) >= 5): a user whose logins and refreshes
\* never overlap has at most SessionLimit sessions, whatever logouts, crashes
\* and failed commits come in between.
SessionCap ==
  \A u \in Users \ overlapped : Cardinality(Live(u)) <= SessionLimit

\* A refresh token is good for one refresh, as long as refreshes of the user do
\* not overlap: a retry after a crash in the middle of a refresh does not get a
\* second one.  Where they do, it is good for as many as can be in flight at
\* once, since all of them have to select its row before the first revokes it.
ForksBounded ==
  \A p \in Tokens :
    Cardinality({t \in Tokens : tok[t].parent = p}) <=
      IF tok[p].user \in overlapped THEN Cardinality(Requests) ELSE 1

\* Eviction (revoke_oldest_token): the session that gives way to a new one is
\* one of the same user.  Its access token is not blacklisted, and the device
\* keeps its access for one lifetime of it at most.  If nothing overlapped, the
\* session is still the user's oldest when the eviction is committed, although
\* created_at is the start of a transaction that waits for Redis before it
\* inserts.
EvictsOldest ==
  [][\A r \in Requests :
       LET u == req[r].user  v == req[r].victim IN
       Commit(r) /\ v # None =>
         /\ tok[v].user = u /\ tok[v].exp <= now + AccessTTL
         /\ u \notin overlapped =>
              \A t \in Live(u) : tok[v].created <= tok[t].created]_vars

\* The table keeps the promise of SessionLedger, whatever the requests do: a
\* row is inserted once, never comes back once revoked, and the row that a
\* refresh inserts appears only when the refreshed one is revoked.
Ledger == INSTANCE SessionLedger WITH
  Sessions <- Tokens,
  state <- row,
  origin <- [t \in Tokens |-> IF row[t] = "absent" THEN None ELSE tok[t].parent]

KeepsLedger == Ledger!Spec

-----------------------------------------------------------------------------
(* Liveness *)

\* No request waits for ever: a row lock is always released, and the chain of
\* awaits of every handler ends.
RequestsEnd == \A r \in Requests : req[r].pc # "idle" ~> req[r].pc = "idle"

-----------------------------------------------------------------------------
(* What the code says of itself and does not keep *)

\* "Logged out all devices successfully" (app/service/user.py:415): the access
\* tokens of the sessions it found are not accepted again, and no device whose
\* session it found ends up with one that can be refreshed.
AllDevicesLoggedOut ==
  /\ \A t \in swept : ~Accepted(t)
  /\ \A t \in Tokens : row[t] = "live" => tok[t].parent \notin swept

=============================================================================
