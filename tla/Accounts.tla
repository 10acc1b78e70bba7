------------------------------ MODULE Accounts ------------------------------
(* Accounts, the browser's cookies and the playback state: registration, the
   creation of an account by the first OAuth login, the approval that an
   administrator gives by hand, the admission to a session, the two cookies that
   come with it, and the upsert of what a user listens to.

   Requests of one browser overlap (two tabs); a response may arrive late or
   never, and get_db commits after it has been sent.  What becomes of a session
   is the subject of AuthSessions: here refresh and logout succeed or fail. *)
EXTENDS Naturals, Sequences, FiniteSets

CONSTANTS
  Emails,
  Requests,
  Status,       \* the members of AccountStatus that occur
  MaxSessions,  \* bound: sessions ever opened
  MaxPuts,      \* bound: updates of the playback state
  None

ASSUME BoundsAssumption == MaxSessions \in Nat /\ MaxPuts \in Nat
ASSUME StatusAssumption ==
  "pending" \in Status /\ Status \subseteq {"pending", "approved", "rejected", "suspended"}
ASSUME NoneAssumption == None \notin Emails

VARIABLES
  user,      \* e-mail -> committed row of users, or None
  req,       \* request -> what its handler is doing
  mail,      \* request -> its response on the way to the browser, or None
  sessions,  \* the sessions opened so far: whose, and how
  jar,       \* the browser's cookies: session numbers, or None
  hostOnly,  \* settings.DOMAIN is None
  playing,   \* e-mail -> committed row of playback_state, or None
  puts,      \* history: the updates sent so far, see Put
  decided    \* history: accounts whose status an administrator has set

vars == <<user, req, mail, sessions, jar, hostOnly, playing, puts, decided>>
\* What the database and the browser keep, and the history.
stores == <<user, sessions, jar, hostOnly, playing, puts, decided>>

----------------------------------------------------------------------------
\* The password of an account that OAuth has created is the empty string, which
\* is the hash of no password.
Account == [provider : {"normal", "google"}, status : Status]
ASSUME AccountAssumption == None \notin Account
\* Both columns of playback_state, by the number of the put they come from.
Playback == [track : 1..MaxPuts, progress : 1..MaxPuts]
Cookies == [access : 0..MaxSessions, refresh : 0..MaxSessions]
NoCookies == [access |-> 0, refresh |-> 0]

\* pc is the next step; new and row are the request's uncommitted writes.
Ways == {"password", "google", "refresh"}
RequestInfo == [pc : {"idle", "insert", "open", "put", "commit"},
                email : Emails \cup {None}, way : Ways \cup {None},
                new : Account \cup {None}, put : 0..MaxPuts, row : Playback \cup {None}]
Idle == [pc |-> "idle", email |-> None, way |-> None, new |-> None, put |-> 0, row |-> None]

Init ==
  /\ user = [e \in Emails |-> None] /\ playing = [e \in Emails |-> None]
  /\ req = [r \in Requests |-> Idle] /\ mail = [r \in Requests |-> None]
  /\ sessions = <<>> /\ jar = NoCookies /\ hostOnly \in BOOLEAN
  /\ puts = <<>> /\ decided = {}

Free(r) == req[r].pc = "idle" /\ mail[r] = None
At(r, pc) == req[r].pc = pc
Become(r, q) == req' = [req EXCEPT ![r] = q]

\* What a response tells the browser: "set" a session's cookies, "delete" them,
\* or "keep" them.
Response(kind, s) == [kind |-> kind, session |-> s]
Answer(r, kind, s) == mail' = [mail EXCEPT ![r] = Response(kind, s)]
\* An error: get_db rolls back, which drops new and row, and the response leaves the cookies alone.
Fail(r) == Become(r, Idle) /\ Answer(r, "keep", 0)

----------------------------------------------------------------------------
(* Registration and admission. *)

\* create_user: a SELECT, then an INSERT if there is no such account.
Register(r, e) ==
  /\ Free(r)
  /\ IF user[e] = None
     THEN /\ Become(r, [Idle EXCEPT !.pc = "insert", !.email = e, !.way = "password"])
          /\ UNCHANGED mail
     ELSE Fail(r)
  /\ UNCHANGED stores

\* Only a pending account is turned away, here with a redirection, behind which
\* the transaction commits.
AdmitAll(r, q, account) == Become(r, [q EXCEPT !.pc = "open"]) /\ UNCHANGED mail
AdmitOrRedirect(r, q, account) ==
  IF account.status = "pending"
  THEN Become(r, [q EXCEPT !.pc = "commit"]) /\ Answer(r, "keep", 0)
  ELSE Become(r, [q EXCEPT !.pc = "open"]) /\ UNCHANGED mail

\* oauth_login_user: the account of the address, or a new one without password.
OAuth(r, e) ==
  /\ Free(r)
  /\ LET q == [Idle EXCEPT !.email = e, !.way = "google"]
     IN  IF user[e] = None THEN Become(r, [q EXCEPT !.pc = "insert"]) /\ UNCHANGED mail
         ELSE AdmitOrRedirect(r, q, user[e])
  /\ UNCHANGED stores

\* The unique index on the address: an INSERT waits for the uncommitted one of
\* another request, and fails if there is a row.  The status is the default.
WaitsNever(r) == FALSE
Waits(r) == \E o \in Requests \ {r} : req[o].new # None /\ req[o].email = req[r].email
Insert(r) ==
  /\ At(r, "insert") /\ ~Waits(r)
  /\ LET google == req[r].way = "google"
         account == [provider |-> IF google THEN "google" ELSE "normal", status |-> "pending"]
         q == [req[r] EXCEPT !.new = account, !.pc = "commit"]
     IN  IF user[req[r].email] # None THEN Fail(r)
         ELSE IF google THEN AdmitOrRedirect(r, q, account)
         ELSE Become(r, q) /\ Answer(r, "keep", 0)
  /\ UNCHANGED stores

\* login_user: fits says whether the password is the account's, which it never is
\* for an account without one (verify raises on the empty hash).
Login(r, e, fits) ==
  /\ Free(r)
  /\ IF /\ user[e] # None
        /\ user[e].status # "pending" /\ user[e].provider = "normal" /\ fits
     THEN /\ Become(r, [Idle EXCEPT !.pc = "open", !.email = e, !.way = "password"])
          /\ UNCHANGED mail
     ELSE Fail(r)
  /\ UNCHANGED stores

\* The cookie names the session whose row refresh has found; the status of the
\* account is not looked at.
Refresh(r) ==
  /\ Free(r) /\ jar.refresh # 0
  /\ \/ /\ Become(r, [Idle EXCEPT !.pc = "open", !.way = "refresh",
                                  !.email = sessions[jar.refresh].email])
        /\ UNCHANGED mail
     \/ Fail(r)
  /\ UNCHANGED stores

\* The new row of refresh_tokens and both cookies of the response.
Open(r) ==
  /\ At(r, "open") /\ Len(sessions) < MaxSessions
  /\ sessions' = Append(sessions, [email |-> req[r].email, way |-> req[r].way])
  /\ Answer(r, "set", Len(sessions'))
  /\ Become(r, [req[r] EXCEPT !.pc = "commit"])
  /\ UNCHANGED <<user, jar, hostOnly, playing, puts, decided>>

\* logout, logout_all, logout of the own session, and clear-session.
Logout(r) ==
  /\ Free(r)
  /\ \/ UNCHANGED req /\ Answer(r, "delete", 0)
     \/ Fail(r)
  /\ UNCHANGED stores

----------------------------------------------------------------------------
(* The playback state. *)

\* PUT /user/me/state, for the user of the access token.
Put(r) ==
  /\ Free(r) /\ jar.access # 0 /\ Len(puts) < MaxPuts
  /\ puts' = Append(puts, [email |-> sessions[jar.access].email, stored |-> FALSE,
                           after |-> {n \in DOMAIN puts : puts[n].stored}])
  /\ Become(r, [Idle EXCEPT !.pc = "put", !.put = Len(puts'),
                            !.email = sessions[jar.access].email])
  /\ UNCHANGED <<user, mail, sessions, jar, hostOnly, playing, decided>>

\* upsert_playback_state: ON CONFLICT (user_id) DO UPDATE of both columns, which
\* waits for the uncommitted row of another request.
UpsertedZero(old, n) == [track |-> n, progress |-> 0]
UpsertedProgress(old, n) ==
  IF old = None THEN [track |-> n, progress |-> n] ELSE [old EXCEPT !.progress = n]
Upserted(old, n) == [track |-> n, progress |-> n]
Upsert(r) ==
  /\ At(r, "put")
  /\ \A o \in Requests \ {r} : req[o].row # None => req[o].email # req[r].email
  /\ Become(r, [req[r] EXCEPT !.row = Upserted(playing[req[r].email], req[r].put),
                              !.pc = "commit"])
  /\ Answer(r, "keep", 0)
  /\ UNCHANGED stores

----------------------------------------------------------------------------
(* get_db, the browser and the administrator. *)

Commit(r) ==
  /\ At(r, "commit")
  /\ LET q == req[r] IN
     /\ user' = IF q.new = None THEN user ELSE [user EXCEPT ![q.email] = q.new]
     /\ playing' = IF q.row = None THEN playing ELSE [playing EXCEPT ![q.email] = q.row]
     /\ puts' = IF q.row = None THEN puts ELSE [puts EXCEPT ![q.put].stored = TRUE]
  /\ Become(r, Idle)
  /\ UNCHANGED <<mail, sessions, jar, hostOnly, decided>>

\* A statement or the commit fails: behind the response nobody hears of it.
Break(r) ==
  /\ req[r].pc # "idle"
  /\ IF At(r, "commit") THEN Become(r, Idle) /\ UNCHANGED mail ELSE Fail(r)
  /\ UNCHANGED stores

\* The browser takes the cookies of a response.  delete_cookie names no domain:
\* it removes a cookie only if set_cookie named none either.
TakenAccessOnly(m) ==
  CASE m.kind = "set" -> [jar EXCEPT !.access = m.session]
    [] m.kind = "delete" /\ hostOnly -> NoCookies
    [] OTHER -> jar
Taken(m) ==
  CASE m.kind = "set" -> [access |-> m.session, refresh |-> m.session]
    [] m.kind = "delete" /\ hostOnly -> NoCookies
    [] OTHER -> jar
Receive(r) ==
  /\ mail[r] # None
  /\ jar' = Taken(mail[r])
  /\ mail' = [mail EXCEPT ![r] = None]
  /\ UNCHANGED <<user, req, sessions, hostOnly, playing, puts, decided>>
Lose(r) == mail[r] # None /\ mail' = [mail EXCEPT ![r] = None] /\ UNCHANGED <<req, stores>>

\* The access token's cookie expires before the refresh token's.
Expire ==
  /\ jar' = IF jar.access # 0 THEN [jar EXCEPT !.access = 0] ELSE NoCookies
  /\ jar' # jar
  /\ UNCHANGED <<user, req, mail, sessions, hostOnly, playing, puts, decided>>

\* The status is set by hand: no handler does.
Decide(e, status) ==
  /\ user[e] # None /\ user[e].status # status
  /\ user' = [user EXCEPT ![e].status = status]
  /\ decided' = decided \cup {e}
  /\ UNCHANGED <<req, mail, sessions, jar, hostOnly, playing, puts>>

Serve(r) == Insert(r) \/ Open(r) \/ Upsert(r) \/ Commit(r) \/ Break(r)
Browse(r) ==
  \/ \E e \in Emails : Register(r, e) \/ OAuth(r, e) \/ \E fits \in BOOLEAN : Login(r, e, fits)
  \/ Refresh(r) \/ Logout(r) \/ Put(r) \/ Receive(r) \/ Lose(r)
Next ==
  \/ \E r \in Requests : Serve(r) \/ Browse(r)
  \/ Expire \/ \E e \in Emails, status \in Status : Decide(e, status)
Spec == Init /\ [][Next]_vars

----------------------------------------------------------------------------
(* Properties. *)

\* Every variable keeps its type.
TypeOK ==
  /\ user \in [Emails -> Account \cup {None}] /\ req \in [Requests -> RequestInfo]
  /\ mail \in [Requests -> {None} \cup
                 [kind : {"set", "delete", "keep"}, session : 0..MaxSessions]]
  /\ sessions \in Seq([email : Emails, way : Ways]) /\ Len(sessions) <= MaxSessions
  /\ jar \in Cookies /\ hostOnly \in BOOLEAN
  /\ playing \in [Emails -> Playback \cup {None}]
  /\ puts \in Seq([email : Emails, stored : BOOLEAN, after : SUBSET (1..MaxPuts)])
  /\ Len(puts) <= MaxPuts /\ decided \subseteq Emails

\* Nobody gets a session, by password, by OAuth or by refreshing one, for an
\* account that no administrator has ever decided on, nor by a password for an
\* account that OAuth has created; whoever is admitted has a stored account.
AdmittedOnly ==
  \A s \in DOMAIN sessions :
    /\ sessions[s].email \in decided /\ user[sessions[s].email] # None
    /\ sessions[s].way = "password" => user[sessions[s].email].provider = "normal"

\* However registrations and OAuth logins of one address overlap, the account
\* that is stored first stays: none of them replaces it, its provider or its
\* password, and only the administrator changes its status.
AccountKept ==
  [][\A e \in Emails : user[e] # None =>
       /\ user'[e] # None /\ user'[e].provider = user[e].provider
       /\ user'[e].status # user[e].status => e \in decided']_vars

\* The two cookies in the browser always belong to one session, whatever the
\* order in which responses of overlapping requests arrive and whichever are
\* lost; the access token is never there without the refresh token.
JarOfOneSession ==
  /\ jar.access # 0 => jar.access = jar.refresh
  /\ jar.refresh # 0 => jar.refresh \in DOMAIN sessions

\* What a user listens to is track and progress of one and the same update, and
\* no update that was sent after that one was stored has been stored since.
PlaybackCurrent ==
  \A e \in Emails : playing[e] # None =>
    /\ playing[e].track = playing[e].progress
    /\ \A n \in DOMAIN puts : puts[n].stored /\ puts[n].email = e =>
         playing[e].track \notin puts[n].after

=============================================================================
