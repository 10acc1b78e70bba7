--------------------------- MODULE AccountsProofs ---------------------------
(* Proofs about Accounts, for any addresses, requests, statuses and bounds. *)
EXTENDS Accounts, SequenceTheorems, TLAPS

\* What a handler has in hand between two awaits.
ReqOK(q) ==
  /\ q.pc # "idle" => q.email \in Emails
  /\ q.pc = "insert" => q.way \in Ways /\ q.new = None /\ q.row = None /\ q.put = 0
  /\ q.pc = "open" => /\ q.way \in Ways /\ q.email \in decided /\ user[q.email] # None
                      /\ q.way = "password" => user[q.email].provider = "normal"
  /\ q.pc = "put" => q.put # 0
  /\ q.new # None => q.pc = "commit" /\ q.new.status = "pending" /\ user[q.email] = None
  /\ q.row # None => q.pc = "commit" /\ q.put # 0 /\ q.row = Upserted(None, q.put)
  /\ q.put <= Len(puts)
  /\ q.put # 0 => q.pc # "idle" /\ puts[q.put].email = q.email /\ ~puts[q.put].stored

\* The unique index lets one creation of an address through at a time, and every
\* put is in one request's hands.
Apart(q, p) ==
  /\ q.new # None /\ p.new # None => q.email # p.email
  /\ q.put # 0 => q.put # p.put

MailType == [kind : {"set", "delete", "keep"}, session : 0..MaxSessions]
MailOK(m) == m # None /\ m.kind = "set" => m.session \in DOMAIN sessions

\* Only an administrator takes an account out of PENDING.
UsersDecided == \A e \in Emails : user[e] # None /\ user[e].status # "pending" => e \in decided

\* What was stored when a put was sent stays stored.
PutsOK == \A n \in DOMAIN puts : \A k \in puts[n].after : k \in DOMAIN puts /\ puts[k].stored

AccountsInv ==
  /\ TypeOK
  /\ \A r \in Requests : ReqOK(req[r]) /\ MailOK(mail[r])
  /\ \A r, o \in Requests : r # o => Apart(req[r], req[o])
  /\ UsersDecided /\ PutsOK
  /\ AdmittedOnly /\ JarOfOneSession /\ PlaybackCurrent

----------------------------------------------------------------------------
(* A handler that leaves the stores alone. *)

LEMMA IdleOK ==
  ASSUME AccountsInv
  PROVE  Idle \in RequestInfo /\ ReqOK(Idle)
<1>1. Len(puts) \in Nat
  BY DEF AccountsInv, TypeOK
<1> QED BY <1>1, BoundsAssumption DEF Idle, RequestInfo, ReqOK

\* One request changes its record, and perhaps its response.
LEMMA OneRequest ==
  ASSUME AccountsInv, UNCHANGED stores, NEW r \in Requests, NEW q \in RequestInfo,
         Become(r, q), ReqOK(q), q.put \in {0, req[r].put},
         \A o \in Requests \ {r} : q.new # None /\ req[o].new # None => q.email # req[o].email,
         NEW m \in MailType \cup {None}, MailOK(m), mail' \in {mail, [mail EXCEPT ![r] = m]}
  PROVE  AccountsInv'
<1>1. /\ req \in [Requests -> RequestInfo] /\ mail \in [Requests -> {None} \cup MailType]
      /\ \A o \in Requests : ReqOK(req[o]) /\ MailOK(mail[o])
      /\ \A o, p \in Requests : o # p => Apart(req[o], req[p])
  BY DEF AccountsInv, TypeOK, MailType
<1>2. \A o \in Requests : req'[o] = IF o = r THEN q ELSE req[o]
  BY <1>1 DEF Become
<1>3. \A o \in Requests : mail'[o] \in {m, mail[o]}
  BY <1>1
<1>4. TypeOK'
  <2>1. req' \in [Requests -> RequestInfo] /\ mail' \in [Requests -> {None} \cup MailType]
    BY <1>1 DEF Become
  <2> QED BY <2>1 DEF AccountsInv, TypeOK, MailType, stores
<1>5. \A o \in Requests : ReqOK(req[o])' /\ MailOK(mail[o])'
  <2>1. \A p : ReqOK(p)' <=> ReqOK(p)
    BY DEF ReqOK, stores
  <2>2. UNCHANGED <<user, puts, decided, sessions>>
    BY DEF stores
  <2>3. ASSUME NEW o \in Requests PROVE ReqOK(req[o])'
    <3>1. ReqOK(req'[o])
      BY <1>1, <1>2
    <3> QED BY <2>2, <3>1 DEF ReqOK
  <2>4. ASSUME NEW o \in Requests PROVE MailOK(mail[o])'
    <3>1. MailOK(mail'[o])
      BY <1>1, <1>3
    <3> QED BY <2>2, <3>1 DEF MailOK
  <2> QED BY <2>3, <2>4
<1>6. \A o, p \in Requests : o # p => Apart(req[o], req[p])'
  <2>1. ASSUME NEW o \in Requests, NEW p \in Requests, o # p PROVE Apart(req'[o], req'[p])
    <3>1. CASE o # r /\ p # r
      BY <1>1, <1>2, <2>1, <3>1
    <3>2. CASE o = r
      BY <1>1, <1>2, <2>1, <3>2 DEF Apart
    <3>3. CASE p = r
      BY <1>1, <1>2, <2>1, <3>3 DEF Apart
    <3> QED BY <3>1, <3>2, <3>3
  <2> QED BY <2>1 DEF Apart
<1>7. /\ UsersDecided' /\ PutsOK' /\ AdmittedOnly' /\ JarOfOneSession' /\ PlaybackCurrent'
  BY DEF AccountsInv, UsersDecided, PutsOK, AdmittedOnly, JarOfOneSession, PlaybackCurrent, stores
<1> QED BY <1>4, <1>5, <1>6, <1>7 DEF AccountsInv

LEMMA FailStep ==
  ASSUME AccountsInv, UNCHANGED stores, NEW r \in Requests, Fail(r)
  PROVE  AccountsInv'
<1>1. Response("keep", 0) \in MailType /\ MailOK(Response("keep", 0))
  BY BoundsAssumption DEF Response, MailType, MailOK
<1>2. Become(r, Idle) /\ mail' = [mail EXCEPT ![r] = Response("keep", 0)]
  BY DEF Fail, Answer
<1>3. Idle.put = 0 /\ Idle.new = None
  BY DEF Idle
<1> QED BY <1>1, <1>2, <1>3, IdleOK, OneRequest

\* A handler that goes on without a response.
LEMMA GoOn ==
  ASSUME AccountsInv, UNCHANGED stores, NEW r \in Requests, NEW q \in RequestInfo,
         Become(r, q), ReqOK(q), q.put = 0, q.new = None, mail' = mail
  PROVE  AccountsInv'
<1>1. MailOK(None)
  BY DEF MailOK
<1> QED BY <1>1, OneRequest

\* A request that has just begun.
Begun(q, pc, e, way) ==
  /\ q \in RequestInfo /\ q.pc = pc /\ q.email = e /\ q.way = way
  /\ q.new = None /\ q.put = 0 /\ q.row = None

LEMMA IdleFields == Begun(Idle, "idle", None, None)
BY BoundsAssumption DEF Begun, Idle, RequestInfo

LEMMA RegisterStep ==
  ASSUME AccountsInv, NEW r \in Requests, NEW e \in Emails, Register(r, e)
  PROVE  AccountsInv'
<1> DEFINE q == [Idle EXCEPT !.pc = "insert", !.email = e, !.way = "password"]
<1>1. CASE Fail(r)
  BY <1>1, FailStep DEF Register
<1>2. CASE Become(r, q) /\ UNCHANGED mail
  <2>0. Begun(q, "insert", e, "password")
    BY IdleFields DEF Begun, RequestInfo, Ways
  <2>1. q \in RequestInfo /\ q.put = 0 /\ q.new = None
    BY <2>0 DEF Begun
  <2>2. ReqOK(q)
    <3>1. Len(puts) \in Nat
      BY DEF AccountsInv, TypeOK
    <3> QED BY <2>0, <3>1 DEF Begun, ReqOK, Ways
  <2> HIDE DEF q
  <2> QED BY <1>2, <2>1, <2>2, GoOn DEF Register
<1> QED BY <1>1, <1>2 DEF Register

LEMMA LoginStep ==
  ASSUME AccountsInv, NEW r \in Requests, NEW e \in Emails, NEW fits \in BOOLEAN, Login(r, e, fits)
  PROVE  AccountsInv'
<1> DEFINE q == [Idle EXCEPT !.pc = "open", !.email = e, !.way = "password"]
<1>1. CASE Fail(r)
  BY <1>1, FailStep DEF Login
<1>2. CASE /\ Become(r, q) /\ UNCHANGED mail
           /\ user[e] # None /\ user[e].status # "pending" /\ user[e].provider = "normal"
  <2>0. Begun(q, "open", e, "password")
    BY IdleFields DEF Begun, RequestInfo, Ways
  <2>1. q \in RequestInfo /\ q.put = 0 /\ q.new = None
    BY <2>0 DEF Begun
  <2>2. ReqOK(q)
    <3>1. Len(puts) \in Nat /\ e \in decided
      BY <1>2 DEF AccountsInv, TypeOK, UsersDecided
    <3> QED BY <1>2, <2>0, <3>1 DEF Begun, ReqOK, Ways
  <2> HIDE DEF q
  <2> QED BY <1>2, <2>1, <2>2, GoOn DEF Login
<1> QED BY <1>1, <1>2 DEF Login

LEMMA RefreshStep ==
  ASSUME AccountsInv, NEW r \in Requests, Refresh(r)
  PROVE  AccountsInv'
<1> DEFINE e == sessions[jar.refresh].email
           q == [Idle EXCEPT !.pc = "open", !.way = "refresh", !.email = e]
<1>1. CASE Fail(r)
  BY <1>1, FailStep DEF Refresh
<1>2. CASE Become(r, q) /\ UNCHANGED mail
  <2>1. jar.refresh \in DOMAIN sessions
    BY DEF AccountsInv, JarOfOneSession, Refresh
  <2>2. e \in decided /\ user[e] # None
    BY <2>1 DEF AccountsInv, AdmittedOnly
  <2>3. e \in Emails
    BY <2>2 DEF AccountsInv, TypeOK
  <2> HIDE DEF e
  <2>0. Begun(q, "open", e, "refresh")
    BY <2>3, IdleFields DEF Begun, RequestInfo, Ways
  <2>4. q \in RequestInfo /\ q.put = 0 /\ q.new = None
    BY <2>0 DEF Begun
  <2>5. ReqOK(q)
    <3>1. Len(puts) \in Nat
      BY DEF AccountsInv, TypeOK
    <3> QED BY <2>0, <2>2, <2>3, <3>1 DEF Begun, ReqOK, Ways
  <2> HIDE DEF q
  <2> QED BY <1>2, <2>4, <2>5, GoOn DEF Refresh
<1> QED BY <1>1, <1>2 DEF Refresh

\* A pending account is sent away, another one was decided on.
LEMMA AdmitStep ==
  ASSUME AccountsInv, UNCHANGED stores, NEW r \in Requests, NEW q \in RequestInfo, ReqOK(q),
         NEW account \in Account, AdmitOrRedirect(r, q, account),
         q.email \in Emails, q.way = "google", q.put = 0, q.row = None,
         q.new = None => user[q.email] = account /\ account # None,
         q.new # None => account.status = "pending",
         \A o \in Requests \ {r} : q.new # None /\ req[o].new # None => q.email # req[o].email
  PROVE  AccountsInv'
<1>1. Response("keep", 0) \in MailType /\ MailOK(Response("keep", 0)) /\ MailOK(None)
  BY BoundsAssumption DEF Response, MailType, MailOK
<1>2. Len(puts) \in Nat
  BY DEF AccountsInv, TypeOK
<1>3. CASE account.status = "pending"
  <2> DEFINE p == [q EXCEPT !.pc = "commit"]
  <2>1. p \in RequestInfo /\ p.new = q.new /\ p.put = 0 /\ p.email = q.email
    BY DEF RequestInfo
  <2>2. ReqOK(p)
    BY <1>2 DEF ReqOK, RequestInfo
  <2>3. Become(r, p) /\ mail' = [mail EXCEPT ![r] = Response("keep", 0)]
    BY <1>3 DEF AdmitOrRedirect, Answer
  <2> HIDE DEF p
  <2> QED BY <1>1, <2>1, <2>2, <2>3, OneRequest
<1>4. CASE account.status # "pending"
  <2> DEFINE p == [q EXCEPT !.pc = "open"]
  <2>1. p \in RequestInfo /\ p.new = None /\ p.put = 0 /\ p.email = q.email
    BY <1>4 DEF RequestInfo
  <2>2. q.email \in decided /\ user[q.email] # None
    BY <1>4 DEF AccountsInv, UsersDecided
  <2>3. ReqOK(p)
    BY <1>2, <1>4, <2>2 DEF ReqOK, RequestInfo, Ways
  <2>4. Become(r, p) /\ mail' = mail
    BY <1>4 DEF AdmitOrRedirect
  <2> HIDE DEF p
  <2> QED BY <2>1, <2>3, <2>4, GoOn
<1> QED BY <1>3, <1>4

LEMMA OAuthStep ==
  ASSUME AccountsInv, NEW r \in Requests, NEW e \in Emails, OAuth(r, e)
  PROVE  AccountsInv'
<1> DEFINE q == [Idle EXCEPT !.email = e, !.way = "google"]
           i == [q EXCEPT !.pc = "insert"]
<1>1. Len(puts) \in Nat
  BY DEF AccountsInv, TypeOK
<1>2. CASE user[e] = None
  <2>0. Begun(i, "insert", e, "google")
    BY IdleFields DEF Begun, RequestInfo, Ways
  <2>1. i \in RequestInfo /\ i.put = 0 /\ i.new = None
    BY <2>0 DEF Begun
  <2>2. ReqOK(i)
    BY <1>1, <2>0 DEF Begun, ReqOK, Ways
  <2>3. Become(r, i) /\ mail' = mail
    BY <1>2 DEF OAuth
  <2> HIDE DEF i
  <2> QED BY <2>1, <2>2, <2>3, GoOn DEF OAuth
<1>3. CASE user[e] # None
  <2>0. Begun(q, "idle", e, "google")
    BY IdleFields DEF Begun, RequestInfo, Ways
  <2>1. q \in RequestInfo /\ q.put = 0 /\ q.new = None /\ q.row = None /\ q.email = e /\ q.way = "google"
    BY <2>0 DEF Begun
  <2>2. ReqOK(q)
    BY <1>1, <2>0 DEF Begun, ReqOK, Ways
  <2>3. AdmitOrRedirect(r, q, user[e]) /\ UNCHANGED stores
    BY <1>3 DEF OAuth
  <2>4. user[e] \in Account
    BY <1>3 DEF AccountsInv, TypeOK
  <2> HIDE DEF q
  <2> QED BY <1>3, <2>1, <2>2, <2>3, <2>4, AdmitStep
<1> QED BY <1>2, <1>3

LEMMA InsertStep ==
  ASSUME AccountsInv, NEW r \in Requests, Insert(r)
  PROVE  AccountsInv'
<1> DEFINE google == req[r].way = "google"
           account == [provider |-> IF google THEN "google" ELSE "normal", status |-> "pending"]
           q == [req[r] EXCEPT !.new = account, !.pc = "commit"]
<1>1. /\ req[r] \in RequestInfo /\ ReqOK(req[r]) /\ req[r].pc = "insert" /\ UNCHANGED stores
  BY DEF AccountsInv, TypeOK, Insert, At
<1>2. account \in Account /\ account.status = "pending"
  BY StatusAssumption DEF Account
<1>3. \A o \in Requests \ {r} : req[o].new # None => req[r].email # req[o].email
  BY DEF Insert, Waits
<1> HIDE DEF account
<1>4. /\ q \in RequestInfo /\ q.new = account /\ q.email = req[r].email /\ q.put = 0
      /\ q.row = None /\ q.way = req[r].way /\ q.pc = "commit" /\ q.email \in Emails
  BY <1>1, <1>2 DEF RequestInfo, ReqOK
<1>5. CASE user[req[r].email] # None
  BY <1>1, <1>5, FailStep DEF Insert
<1>6. CASE user[req[r].email] = None
  <2>1. Len(puts) \in Nat
    BY DEF AccountsInv, TypeOK
  <2> HIDE DEF q
  <2>2. ReqOK(q)
    BY <1>2, <1>4, <1>6, <2>1 DEF ReqOK
  <2>3. Response("keep", 0) \in MailType /\ MailOK(Response("keep", 0))
    BY BoundsAssumption DEF Response, MailType, MailOK
  <2>4. CASE google
    <3>1. AdmitOrRedirect(r, q, account)
      BY <1>6, <2>4 DEF Insert, account, q
    <3>2. Become(r, [q EXCEPT !.pc = "commit"]) /\ mail' = [mail EXCEPT ![r] = Response("keep", 0)]
      BY <1>2, <3>1 DEF AdmitOrRedirect, Answer
    <3>3. [q EXCEPT !.pc = "commit"] = q
      BY <1>4 DEF RequestInfo
    <3> QED BY <1>1, <1>3, <1>4, <2>2, <2>3, <3>2, <3>3, OneRequest
  <2>5. CASE ~google
    <3>1. Become(r, q) /\ mail' = [mail EXCEPT ![r] = Response("keep", 0)]
      BY <1>6, <2>5 DEF Insert, account, q, Answer
    <3> QED BY <1>1, <1>3, <1>4, <2>2, <2>3, <3>1, OneRequest
  <2> QED BY <2>4, <2>5
<1> QED BY <1>5, <1>6

LEMMA LogoutStep ==
  ASSUME AccountsInv, NEW r \in Requests, Logout(r)
  PROVE  AccountsInv'
<1>1. CASE Fail(r)
  BY <1>1, FailStep DEF Logout
<1>2. CASE UNCHANGED req /\ Answer(r, "delete", 0)
  <2>1. Response("delete", 0) \in MailType /\ MailOK(Response("delete", 0))
    BY BoundsAssumption DEF Response, MailType, MailOK
  <2>2. req[r] \in RequestInfo /\ ReqOK(req[r]) /\ Become(r, req[r])
    BY <1>2 DEF AccountsInv, TypeOK, Become
  <2>3. \A o \in Requests \ {r} : req[r].new # None /\ req[o].new # None => req[r].email # req[o].email
    BY DEF AccountsInv, Apart
  <2> QED BY <1>2, <2>1, <2>2, <2>3, OneRequest DEF Logout, Answer
<1> QED BY <1>1, <1>2 DEF Logout

LEMMA UpsertStep ==
  ASSUME AccountsInv, NEW r \in Requests, Upsert(r)
  PROVE  AccountsInv'
<1> DEFINE q == [req[r] EXCEPT !.row = Upserted(playing[req[r].email], req[r].put), !.pc = "commit"]
<1>1. req[r] \in RequestInfo /\ ReqOK(req[r]) /\ req[r].pc = "put" /\ UNCHANGED stores
  BY DEF AccountsInv, TypeOK, Upsert, At
<1>2. req[r].put \in 1..MaxPuts
  BY <1>1, BoundsAssumption DEF ReqOK, RequestInfo
<1>3. Upserted(playing[req[r].email], req[r].put) = Upserted(None, req[r].put)
      /\ Upserted(None, req[r].put) \in Playback
  BY <1>2 DEF Upserted, Playback
<1>4. /\ q \in RequestInfo /\ q.new = req[r].new /\ q.email = req[r].email /\ q.put = req[r].put
      /\ q.row = Upserted(None, req[r].put) /\ q.pc = "commit"
  BY <1>1, <1>3 DEF RequestInfo
<1>5. Become(r, q) /\ mail' = [mail EXCEPT ![r] = Response("keep", 0)]
  BY DEF Upsert, Answer
<1> HIDE DEF q
<1>6. ReqOK(q)
  BY <1>1, <1>4 DEF ReqOK
<1>7. Response("keep", 0) \in MailType /\ MailOK(Response("keep", 0))
  BY BoundsAssumption DEF Response, MailType, MailOK
<1>8. q.new = None
  BY <1>1, <1>4 DEF ReqOK
<1> QED BY <1>1, <1>4, <1>5, <1>6, <1>7, <1>8, OneRequest

LEMMA BreakStep ==
  ASSUME AccountsInv, NEW r \in Requests, Break(r)
  PROVE  AccountsInv'
<1>1. CASE Fail(r)
  BY <1>1, FailStep DEF Break
<1>2. CASE Become(r, Idle) /\ UNCHANGED mail
  BY <1>2, IdleOK, GoOn DEF Break, Idle
<1> QED BY <1>1, <1>2 DEF Break

LEMMA LoseStep ==
  ASSUME AccountsInv, NEW r \in Requests, Lose(r)
  PROVE  AccountsInv'
<1>1. req[r] \in RequestInfo /\ ReqOK(req[r]) /\ Become(r, req[r])
  BY DEF AccountsInv, TypeOK, Become, Lose
<1>2. \A o \in Requests \ {r} : req[r].new # None /\ req[o].new # None => req[r].email # req[o].email
  BY DEF AccountsInv, Apart
<1>3. MailOK(None)
  BY DEF MailOK
<1> QED BY <1>1, <1>2, <1>3, OneRequest DEF Lose

----------------------------------------------------------------------------
(* The steps that write. *)

\* What the invariant says of one request and of the whole, at hand.
LEMMA Facts ==
  ASSUME AccountsInv
  PROVE  /\ req \in [Requests -> RequestInfo]
         /\ mail \in [Requests -> {None} \cup MailType]
         /\ \A r \in Requests : ReqOK(req[r]) /\ MailOK(mail[r])
         /\ \A r, o \in Requests : r # o => Apart(req[r], req[o])
         /\ Len(puts) \in Nat /\ DOMAIN puts = 1..Len(puts)
         /\ Len(sessions) \in Nat /\ DOMAIN sessions = 1..Len(sessions)
<1>1. TypeOK
  BY DEF AccountsInv
<1>2. /\ Len(puts) \in Nat /\ DOMAIN puts = 1..Len(puts)
      /\ Len(sessions) \in Nat /\ DOMAIN sessions = 1..Len(sessions)
  BY <1>1 DEF TypeOK
<1> QED BY <1>1, <1>2 DEF AccountsInv, TypeOK, MailType

LEMMA OpenStep ==
  ASSUME AccountsInv, NEW r \in Requests, Open(r)
  PROVE  AccountsInv'
<1> DEFINE new == [email |-> req[r].email, way |-> req[r].way]
           q == [req[r] EXCEPT !.pc = "commit"]
           m == Response("set", Len(sessions'))
           Session == [email : Emails, way : Ways]
<1>1. /\ req[r].pc = "open" /\ ReqOK(req[r]) /\ req[r] \in RequestInfo
      /\ sessions' = Append(sessions, new) /\ req' = [req EXCEPT ![r] = q]
      /\ mail' = [mail EXCEPT ![r] = m]
      /\ UNCHANGED <<user, jar, hostOnly, playing, puts, decided>>
      /\ Len(sessions) < MaxSessions
  BY Facts DEF Open, At, Answer, Become
<1>2. new \in Session
  BY <1>1 DEF ReqOK
<1>3. sessions \in Seq(Session)
  BY DEF AccountsInv, TypeOK
<1>4. /\ sessions' \in Seq(Session) /\ Len(sessions') = Len(sessions) + 1
      /\ \A s \in 1..Len(sessions) : sessions'[s] = sessions[s]
      /\ sessions'[Len(sessions) + 1] = new
  <2> HIDE DEF new, Session
  <2> QED BY <1>1, <1>2, <1>3, AppendProperties
<1>5. DOMAIN sessions' = 1..(Len(sessions) + 1) /\ DOMAIN sessions \subseteq DOMAIN sessions'
  BY <1>4, Facts
<1>6. /\ q \in RequestInfo /\ q.pc = "commit" /\ q.email = req[r].email /\ q.new = req[r].new
      /\ q.put = req[r].put /\ q.row = req[r].row
  BY <1>1 DEF RequestInfo
<1>7. m \in MailType /\ m.kind = "set" /\ m.session = Len(sessions) + 1
  BY <1>1, <1>4, Facts, BoundsAssumption DEF Response, MailType
<1> HIDE DEF q, m
<1>8. TypeOK'
  <2>1. req' \in [Requests -> RequestInfo] /\ mail' \in [Requests -> {None} \cup MailType]
    BY <1>1, <1>6, <1>7, Facts
  <2>2. Len(sessions') <= MaxSessions
    BY <1>1, <1>4, Facts, BoundsAssumption
  <2> QED BY <1>1, <1>4, <2>1, <2>2 DEF AccountsInv, TypeOK, MailType
<1>9. \A o \in Requests : ReqOK(req[o])' /\ MailOK(mail[o])'
  <2>1. ReqOK(q)
    BY <1>1, <1>6 DEF ReqOK
  <2>2. \A o \in Requests : ReqOK(req'[o])
    BY <1>1, <2>1, Facts
  <2>3. \A o \in Requests : ReqOK(req[o])'
    BY <1>1, <2>2 DEF ReqOK
  <2>4. \A o \in Requests : MailOK(mail[o])'
    BY <1>1, <1>5, <1>7, Facts DEF MailOK
  <2> QED BY <2>3, <2>4
<1>10. \A o, p \in Requests : o # p => Apart(req[o], req[p])'
  <2>1. \A o \in Requests : /\ req'[o].email = req[o].email /\ req'[o].new = req[o].new
                            /\ req'[o].put = req[o].put
    BY <1>1, <1>6, Facts
  <2> QED BY <2>1, Facts DEF Apart
<1>11. AdmittedOnly'
  <2>1. req[r].email \in decided /\ user[req[r].email] # None
        /\ (req[r].way = "password" => user[req[r].email].provider = "normal")
    BY <1>1 DEF ReqOK
  <2>2. ASSUME NEW s \in DOMAIN sessions'
        PROVE  /\ sessions'[s].email \in decided /\ user[sessions'[s].email] # None
               /\ sessions'[s].way = "password" => user[sessions'[s].email].provider = "normal"
    <3>1. CASE s \in DOMAIN sessions
      BY <1>4, <3>1, Facts DEF AccountsInv, AdmittedOnly
    <3>2. CASE s = Len(sessions) + 1
      BY <1>4, <2>1, <3>2
    <3> QED BY <1>5, <3>1, <3>2, Facts
  <2> QED BY <1>1, <2>2 DEF AdmittedOnly
<1>12. UsersDecided' /\ PutsOK' /\ JarOfOneSession' /\ PlaybackCurrent'
  BY <1>1, <1>5 DEF AccountsInv, UsersDecided, PutsOK, JarOfOneSession, PlaybackCurrent
<1> QED BY <1>8, <1>9, <1>10, <1>11, <1>12 DEF AccountsInv

LEMMA PutStep ==
  ASSUME AccountsInv, NEW r \in Requests, Put(r)
  PROVE  AccountsInv'
<1> DEFINE e == sessions[jar.access].email
           new == [email |-> e, stored |-> FALSE, after |-> {n \in DOMAIN puts : puts[n].stored}]
           q == [Idle EXCEPT !.pc = "put", !.put = Len(puts'), !.email = e]
           Sent == [email : Emails, stored : BOOLEAN, after : SUBSET (1..MaxPuts)]
<1>1. /\ puts' = Append(puts, new) /\ req' = [req EXCEPT ![r] = q] /\ Len(puts) < MaxPuts
      /\ UNCHANGED <<user, mail, sessions, jar, hostOnly, playing, decided>> /\ jar.access # 0
  BY DEF Put, Become
<1>2. e \in Emails
  <2>1. JarOfOneSession /\ jar.access # 0
    BY DEF AccountsInv, Put
  <2>2. jar.access \in DOMAIN sessions
    BY <2>1 DEF JarOfOneSession
  <2>3. sessions \in Seq([email : Emails, way : Ways])
    BY DEF AccountsInv, TypeOK
  <2>4. sessions[jar.access] \in [email : Emails, way : Ways]
    BY <2>2, <2>3, ElementOfSeq, Facts
  <2> QED BY <2>4
<1>3. puts \in Seq(Sent) /\ new \in Sent
  <2>1. puts \in Seq(Sent) /\ Len(puts) <= MaxPuts
    BY DEF AccountsInv, TypeOK
  <2>2. DOMAIN puts \subseteq 1..MaxPuts
    BY <2>1, Facts, BoundsAssumption
  <2> HIDE DEF e
  <2> QED BY <1>2, <2>1, <2>2
<1>4. new.email = e /\ ~new.stored /\ new.after = {n \in DOMAIN puts : puts[n].stored}
  OBVIOUS
<1>5. /\ puts' \in Seq(Sent) /\ Len(puts') = Len(puts) + 1
      /\ \A n \in 1..Len(puts) : puts'[n] = puts[n]
      /\ puts'[Len(puts) + 1] = new
  <2> HIDE DEF new, Sent
  <2> QED BY <1>1, <1>3, AppendProperties
<1>6. DOMAIN puts' = 1..(Len(puts) + 1) /\ DOMAIN puts \subseteq DOMAIN puts'
  BY <1>5, Facts
<1> HIDE DEF e, new
<1>7. /\ q \in RequestInfo /\ q.pc = "put" /\ q.email = e /\ q.new = None /\ q.row = None
      /\ q.put = Len(puts) + 1
  <2> DEFINE l == Len(puts')
  <2>1. l = Len(puts) + 1 /\ l \in 0..MaxPuts
    BY <1>1, <1>5, Facts, BoundsAssumption
  <2> HIDE DEF l
  <2>2. q = [Idle EXCEPT !.pc = "put", !.put = l, !.email = e]
    BY DEF l
  <2> HIDE DEF q
  <2> QED BY <1>2, <2>1, <2>2, IdleFields DEF Begun, RequestInfo
<1> HIDE DEF q
<1>8. TypeOK'
  <2>1. req' \in [Requests -> RequestInfo]
    BY <1>1, <1>7, Facts
  <2>2. Len(puts') <= MaxPuts
    BY <1>1, <1>5, Facts, BoundsAssumption
  <2> QED BY <1>1, <1>5, <2>1, <2>2 DEF AccountsInv, TypeOK
<1>9. \A o \in Requests : ReqOK(req[o])' /\ MailOK(mail[o])'
  <2>1. ASSUME NEW o \in Requests, o # r PROVE ReqOK(req[o])'
    <3>1. req'[o] = req[o] /\ ReqOK(req[o]) /\ req[o] \in RequestInfo
      BY <1>1, <2>1, Facts
    <3>2. req[o].put <= Len(puts) /\ req[o].put \in Nat
      BY <3>1, BoundsAssumption DEF ReqOK, RequestInfo
    <3>3. req[o].put # 0 => puts'[req[o].put] = puts[req[o].put]
      BY <1>5, <3>2, Facts
    <3>4. req[o].put <= Len(puts')
      BY <1>5, <3>2, Facts
    <3>5. UNCHANGED <<user, decided>>
      BY <1>1
    <3>6. ReqOK(req[o])
      BY <3>1
    <3>7. req[o].put # 0 => puts'[req[o].put].email = req[o].email /\ ~puts'[req[o].put].stored
      BY <3>3, <3>6 DEF ReqOK
    <3> HIDE DEF q
    <3> QED BY <3>1, <3>4, <3>5, <3>6, <3>7 DEF ReqOK
  <2>2. ReqOK(req[r])'
    <3>1. req'[r] = q
      BY <1>1, Facts
    <3>2. Len(puts) + 1 # 0 /\ Len(puts) + 1 <= Len(puts')
      BY <1>5, Facts
    <3> QED BY <1>1, <1>2, <1>4, <1>5, <1>7, <3>1, <3>2 DEF ReqOK
  <2>3. \A o \in Requests : MailOK(mail[o])'
    BY <1>1, Facts DEF MailOK
  <2> QED BY <2>1, <2>2, <2>3
<1>10. \A o, p \in Requests : o # p => Apart(req[o], req[p])'
  <2>1. \A o \in Requests : req[o].put <= Len(puts) /\ req[o].put # Len(puts) + 1
    <3>1. \A o \in Requests : req[o].put <= Len(puts) /\ req[o].put \in Nat
      BY Facts, BoundsAssumption DEF ReqOK, RequestInfo
    <3> QED BY <3>1, Facts
  <2>2. ASSUME NEW o \in Requests, NEW p \in Requests, o # p PROVE Apart(req'[o], req'[p])
    <3>1. CASE o # r /\ p # r
      BY <1>1, <2>2, <3>1, Facts
    <3>2. CASE o = r
      BY <1>1, <1>7, <2>1, <2>2, <3>2, Facts DEF Apart
    <3>3. CASE p = r
      BY <1>1, <1>7, <2>1, <2>2, <3>3, Facts DEF Apart
    <3> QED BY <3>1, <3>2, <3>3
  <2> QED BY <2>2 DEF Apart
<1>11. PutsOK'
  <2>1. ASSUME NEW n \in DOMAIN puts', NEW k \in puts'[n].after
        PROVE  k \in DOMAIN puts' /\ puts'[k].stored
    <3>1. CASE n \in DOMAIN puts
      <4>1. k \in DOMAIN puts /\ puts[k].stored
        BY <1>5, <2>1, <3>1, Facts DEF AccountsInv, PutsOK
      <4> QED BY <1>5, <1>6, <4>1, Facts
    <3>2. CASE n = Len(puts) + 1
      BY <1>4, <1>5, <1>6, <2>1, <3>2, Facts
    <3> QED BY <1>6, <3>1, <3>2, Facts
  <2> QED BY <2>1 DEF PutsOK
<1>12. PlaybackCurrent'
  <2>1. ASSUME NEW n \in DOMAIN puts', puts'[n].stored PROVE n \in DOMAIN puts /\ puts'[n] = puts[n]
    BY <1>4, <1>5, <1>6, <2>1, Facts
  <2> QED BY <1>1, <2>1 DEF AccountsInv, PlaybackCurrent
<1>13. UsersDecided' /\ AdmittedOnly' /\ JarOfOneSession'
  BY <1>1 DEF AccountsInv, UsersDecided, AdmittedOnly, JarOfOneSession
<1> QED BY <1>8, <1>9, <1>10, <1>11, <1>12, <1>13 DEF AccountsInv

\* What a commit does to the accounts and to the history of the puts.
LEMMA CommitWrites ==
  ASSUME AccountsInv, NEW r \in Requests, Commit(r)
  PROVE  /\ user' \in [Emails -> Account \cup {None}]
         /\ \A e \in Emails :
              user'[e] = user[e] \/ (user[e] = None /\ e = req[r].email /\ req[r].new # None
                                       /\ user'[e].status = "pending")
         /\ puts' \in Seq([email : Emails, stored : BOOLEAN, after : SUBSET (1..MaxPuts)])
         /\ Len(puts') = Len(puts) /\ DOMAIN puts' = DOMAIN puts
         /\ \A n \in DOMAIN puts :
              /\ puts'[n].email = puts[n].email /\ puts'[n].after = puts[n].after
              /\ puts'[n].stored <=> puts[n].stored \/ (req[r].row # None /\ n = req[r].put)
<1> DEFINE q == req[r]
           Sent == [email : Emails, stored : BOOLEAN, after : SUBSET (1..MaxPuts)]
<1>1. q \in RequestInfo /\ ReqOK(q) /\ q.pc = "commit" /\ q.email \in Emails
  BY Facts DEF Commit, At, ReqOK
<1>2. user' \in [Emails -> Account \cup {None}] /\
      \A e \in Emails :
         user'[e] = user[e] \/ (user[e] = None /\ e = q.email /\ q.new # None /\ user'[e].status = "pending")
  <2>1. user \in [Emails -> Account \cup {None}]
    BY DEF AccountsInv, TypeOK
  <2>2. CASE q.new = None
    BY <2>1, <2>2 DEF Commit
  <2>3. CASE q.new # None
    <3>1. q.new \in Account /\ q.new.status = "pending" /\ user[q.email] = None
      BY <1>1, <2>3 DEF ReqOK, RequestInfo
    <3>2. user' = [user EXCEPT ![q.email] = q.new]
      BY <2>3 DEF Commit
    <3> QED BY <1>1, <2>1, <2>3, <3>1, <3>2
  <2> QED BY <2>2, <2>3
<1>3. /\ puts' \in Seq(Sent) /\ Len(puts') = Len(puts) /\ DOMAIN puts' = DOMAIN puts
      /\ \A n \in DOMAIN puts :
           /\ puts'[n].email = puts[n].email /\ puts'[n].after = puts[n].after
           /\ puts'[n].stored <=> puts[n].stored \/ (q.row # None /\ n = q.put)
  <2>1. puts \in Seq(Sent)
    BY DEF AccountsInv, TypeOK
  <2>2. CASE q.row = None
    BY <2>1, <2>2 DEF Commit
  <2>3. CASE q.row # None
    <3> DEFINE s == [puts[q.put] EXCEPT !.stored = TRUE]
    <3>1. q.put \in 1..Len(puts)
      BY <1>1, <2>3, Facts, BoundsAssumption DEF ReqOK, RequestInfo
    <3>2. puts[q.put] \in Sent
      BY <2>1, <3>1, ElementOfSeq
    <3>3. s \in Sent /\ s.email = puts[q.put].email /\ s.after = puts[q.put].after /\ s.stored
      BY <3>2
    <3>4. puts' = [puts EXCEPT ![q.put] = s]
      BY <2>3 DEF Commit
    <3> HIDE DEF s, Sent
    <3>5. /\ puts' \in Seq(Sent) /\ Len(puts') = Len(puts)
          /\ \A n \in 1..Len(puts) : puts'[n] = IF n = q.put THEN s ELSE puts[n]
      BY <2>1, <3>1, <3>3, <3>4, ExceptSeq
    <3>6. DOMAIN puts' = DOMAIN puts
      BY <3>4
    <3> QED BY <2>3, <3>3, <3>5, <3>6, Facts
  <2> QED BY <2>2, <2>3
<1> QED BY <1>2, <1>3

LEMMA CommitStep ==
  ASSUME AccountsInv, NEW r \in Requests, Commit(r)
  PROVE  AccountsInv'
<1> DEFINE q == req[r]
<1>1. /\ ReqOK(q) /\ q.pc = "commit" /\ q.email \in Emails /\ q \in RequestInfo
      /\ UNCHANGED <<mail, sessions, jar, hostOnly, decided>> /\ req' = [req EXCEPT ![r] = Idle]
      /\ playing' = IF q.row = None THEN playing ELSE [playing EXCEPT ![q.email] = q.row]
  BY Facts DEF Commit, At, ReqOK, Become
<1>2. \A o \in Requests : req'[o] = IF o = r THEN Idle ELSE req[o]
  BY <1>1, Facts
<1>3. ASSUME q.row # None PROVE q.row = Upserted(None, q.put) /\ q.put # 0 /\ q.put \in 1..Len(puts)
                                /\ puts[q.put].email = q.email /\ ~puts[q.put].stored
                                /\ q.row \in Playback
  BY <1>1, <1>3, Facts, BoundsAssumption DEF ReqOK, RequestInfo
<1>4. ReqOK(Idle) /\ Idle \in RequestInfo /\ Idle.put = 0 /\ Idle.new = None
  BY IdleOK, IdleFields DEF Begun
<1> HIDE DEF q
<1>5. TypeOK'
  <2>1. req' \in [Requests -> RequestInfo]
    BY <1>1, <1>4, Facts
  <2>2. playing' \in [Emails -> Playback \cup {None}]
    <3>1. playing \in [Emails -> Playback \cup {None}]
      BY DEF AccountsInv, TypeOK
    <3> QED BY <1>1, <1>3, <3>1
  <2>3. Len(puts') <= MaxPuts
    BY CommitWrites DEF AccountsInv, TypeOK
  <2> QED BY <1>1, <2>1, <2>2, <2>3, CommitWrites DEF AccountsInv, TypeOK
<1>6. \A o \in Requests : ReqOK(req[o])' /\ MailOK(mail[o])'
  <2>1. ASSUME NEW o \in Requests, o # r PROVE ReqOK(req[o])'
    <3> DEFINE p == req[o]
    <3>1. req'[o] = p /\ ReqOK(p) /\ p \in RequestInfo /\ Apart(p, q) /\ Apart(q, p)
      BY <1>2, <2>1, Facts DEF q
    <3> HIDE DEF p
    <3>2. p.pc = "open" => user'[p.email] = user[p.email]
      BY <3>1, CommitWrites DEF ReqOK, RequestInfo
    <3>3. p.new # None => user'[p.email] = None
      <4>1. p.new # None => p.email \in Emails /\ user[p.email] = None
        BY <3>1 DEF ReqOK
      <4> QED BY <3>1, <4>1, CommitWrites DEF Apart, q
    <3>4. p.put <= Len(puts') /\ (p.put # 0 => p.put \in DOMAIN puts)
      BY <3>1, CommitWrites, Facts, BoundsAssumption DEF ReqOK, RequestInfo
    <3>5. p.put # 0 => puts'[p.put].email = p.email /\ ~puts'[p.put].stored
      BY <3>1, <3>4, CommitWrites DEF ReqOK, Apart, q
    <3> QED BY <1>1, <3>1, <3>2, <3>3, <3>4, <3>5 DEF ReqOK
  <2>2. ReqOK(req[r])'
    <3>1. req'[r] = Idle /\ Len(puts') \in Nat
      BY <1>2, CommitWrites, Facts
    <3> QED BY <3>1, IdleFields DEF Begun, ReqOK
  <2>3. \A o \in Requests : MailOK(mail[o])'
    BY <1>1, Facts DEF MailOK
  <2> QED BY <2>1, <2>2, <2>3
<1>7. \A o, p \in Requests : o # p => Apart(req[o], req[p])'
  <2>1. ASSUME NEW o \in Requests, NEW p \in Requests, o # p PROVE Apart(req'[o], req'[p])
    BY <1>2, <1>4, <2>1, Facts DEF Apart
  <2> QED BY <2>1 DEF Apart
<1>8. UsersDecided'
  BY <1>1, CommitWrites DEF AccountsInv, UsersDecided
<1>9. PutsOK'
  <2>1. PutsOK
    BY DEF AccountsInv
  <2> QED BY <2>1, CommitWrites DEF PutsOK
<1>10. AdmittedOnly' /\ JarOfOneSession'
  <2>1. \A s \in DOMAIN sessions : user[sessions[s].email] # None /\ sessions[s].email \in Emails
    BY DEF AccountsInv, AdmittedOnly, TypeOK
  <2>2. \A s \in DOMAIN sessions : user'[sessions[s].email] = user[sessions[s].email]
    BY <2>1, CommitWrites
  <2> QED BY <1>1, <2>2 DEF AccountsInv, AdmittedOnly, JarOfOneSession
<1>11. PlaybackCurrent'
  <2>1. ASSUME NEW e \in Emails, playing'[e] # None
        PROVE  /\ playing'[e].track = playing'[e].progress
               /\ \A n \in DOMAIN puts' : puts'[n].stored /\ puts'[n].email = e =>
                    playing'[e].track \notin puts'[n].after
    <3>1. CASE q.row # None /\ e = q.email
      <4>1. playing'[e] = q.row /\ q.row.track = q.put /\ q.row.progress = q.put
        <5>1. playing \in [Emails -> Playback \cup {None}]
          BY DEF AccountsInv, TypeOK
        <5> QED BY <1>1, <1>3, <3>1, <5>1 DEF Upserted
      <4>2. \A n \in DOMAIN puts : q.put \notin puts[n].after
        BY <1>3, <3>1 DEF AccountsInv, PutsOK
      <4> QED BY <4>1, <4>2, CommitWrites
    <3>2. CASE ~(q.row # None /\ e = q.email)
      <4>1. playing'[e] = playing[e]
        <5>1. playing \in [Emails -> Playback \cup {None}]
          BY DEF AccountsInv, TypeOK
        <5> QED BY <1>1, <3>2, <5>1
      <4>2. \A n \in DOMAIN puts : puts'[n].stored /\ puts'[n].email = e => puts[n].stored
        BY <1>3, <3>2, CommitWrites DEF q
      <4>3. PlaybackCurrent
        BY DEF AccountsInv
      <4> QED BY <2>1, <4>1, <4>2, <4>3, CommitWrites DEF PlaybackCurrent
    <3> QED BY <3>1, <3>2
  <2> QED BY <2>1 DEF PlaybackCurrent
<1> QED BY <1>5, <1>6, <1>7, <1>8, <1>9, <1>10, <1>11 DEF AccountsInv

----------------------------------------------------------------------------
(* The browser and the administrator. *)

LEMMA ReceiveStep ==
  ASSUME AccountsInv, NEW r \in Requests, Receive(r)
  PROVE  AccountsInv'
<1>1. /\ UNCHANGED <<user, req, sessions, hostOnly, playing, puts, decided>>
      /\ mail' = [mail EXCEPT ![r] = None] /\ mail[r] \in MailType
      /\ jar' \in {jar, NoCookies} \/ (mail[r].kind = "set" /\ jar' = [access |-> mail[r].session, refresh |-> mail[r].session])
      /\ MailOK(mail[r]) /\ mail[r] # None
  BY Facts DEF Receive, Taken
<1>2. jar' \in Cookies
  BY <1>1, BoundsAssumption DEF AccountsInv, TypeOK, Cookies, NoCookies, MailType
<1>3. TypeOK'
  BY <1>1, <1>2 DEF AccountsInv, TypeOK
<1>4. JarOfOneSession'
  BY <1>1 DEF AccountsInv, JarOfOneSession, NoCookies, MailOK
<1>5. \A o \in Requests : ReqOK(req[o])' /\ MailOK(mail[o])'
  <2>1. \A o \in Requests : mail'[o] = None \/ mail'[o] = mail[o]
    BY <1>1, Facts
  <2> QED BY <1>1, <2>1, Facts DEF ReqOK, MailOK
<1>6. \A o, p \in Requests : o # p => Apart(req[o], req[p])'
  BY <1>1, Facts DEF Apart
<1> QED BY <1>1, <1>3, <1>4, <1>5, <1>6 DEF AccountsInv, UsersDecided, PutsOK, AdmittedOnly, PlaybackCurrent

LEMMA ExpireStep ==
  ASSUME AccountsInv, Expire
  PROVE  AccountsInv'
<1>1. /\ UNCHANGED <<user, req, mail, sessions, hostOnly, playing, puts, decided>>
      /\ jar' = [jar EXCEPT !.access = 0] \/ jar' = NoCookies
  BY DEF Expire
<1>2. jar' \in Cookies /\ JarOfOneSession'
  BY <1>1, BoundsAssumption DEF AccountsInv, TypeOK, Cookies, NoCookies, JarOfOneSession
<1>3. TypeOK'
  BY <1>1, <1>2 DEF AccountsInv, TypeOK
<1>4. \A o \in Requests : ReqOK(req[o])' /\ MailOK(mail[o])'
  BY <1>1, Facts DEF ReqOK, MailOK
<1>5. \A o, p \in Requests : o # p => Apart(req[o], req[p])'
  BY <1>1, Facts DEF Apart
<1> QED BY <1>1, <1>2, <1>3, <1>4, <1>5 DEF AccountsInv, UsersDecided, PutsOK, AdmittedOnly, PlaybackCurrent

\* Only the status of an account that is there changes.
LEMMA DecideKeeps ==
  ASSUME AccountsInv, NEW e \in Emails, NEW status \in Status, Decide(e, status)
  PROVE  /\ user' \in [Emails -> Account \cup {None}]
         /\ \A d \in Emails : \/ user'[d] = user[d]
                              \/ /\ d = e /\ user[d] # None /\ user'[d] \in Account
                                 /\ user'[d].provider = user[d].provider /\ user'[d] # None
<1>1. user \in [Emails -> Account \cup {None}] /\ user[e] # None /\ user' = [user EXCEPT ![e].status = status]
  BY DEF AccountsInv, TypeOK, Decide
<1>2. user[e] \in Account
  BY <1>1
<1>3. [user[e] EXCEPT !.status = status] \in Account
      /\ [user[e] EXCEPT !.status = status].provider = user[e].provider
  BY <1>2 DEF Account
<1> QED BY <1>1, <1>3, AccountAssumption

LEMMA DecideStep ==
  ASSUME AccountsInv, NEW e \in Emails, NEW status \in Status, Decide(e, status)
  PROVE  AccountsInv'
<1>1. /\ UNCHANGED <<req, mail, sessions, jar, hostOnly, playing, puts>>
      /\ decided' = decided \cup {e}
  BY DEF Decide
<1>2. TypeOK'
  BY <1>1, DecideKeeps DEF AccountsInv, TypeOK
<1>3. \A o \in Requests : ReqOK(req[o])' /\ MailOK(mail[o])'
  <2>1. ASSUME NEW o \in Requests PROVE ReqOK(req[o])'
    <3> DEFINE p == req[o]
    <3>1. ReqOK(p) /\ req'[o] = p
      BY <1>1, Facts
    <3> HIDE DEF p
    <3>2. p.pc = "open" => user'[p.email] # None /\ user'[p.email].provider = user[p.email].provider
      BY <3>1, DecideKeeps DEF ReqOK
    <3>3. p.new # None => user'[p.email] = None
      <4>1. p.new # None => p.email \in Emails /\ user[p.email] = None
        BY <3>1 DEF ReqOK
      <4> QED BY <4>1, DecideKeeps
    <3> QED BY <1>1, <3>1, <3>2, <3>3 DEF ReqOK
  <2> QED BY <1>1, <2>1, Facts DEF MailOK
<1>4. \A o, p \in Requests : o # p => Apart(req[o], req[p])'
  BY <1>1, Facts DEF Apart
<1>5. UsersDecided'
  BY <1>1, DecideKeeps DEF AccountsInv, UsersDecided
<1>6. AdmittedOnly'
  <2>1. \A s \in DOMAIN sessions :
          sessions[s].email \in Emails /\ user[sessions[s].email] # None
    BY DEF AccountsInv, AdmittedOnly, TypeOK
  <2>2. \A s \in DOMAIN sessions :
          /\ user'[sessions[s].email] # None
          /\ user'[sessions[s].email].provider = user[sessions[s].email].provider
    BY <2>1, DecideKeeps
  <2> QED BY <1>1, <2>2 DEF AccountsInv, AdmittedOnly
<1>7. PutsOK' /\ JarOfOneSession' /\ PlaybackCurrent'
  BY <1>1 DEF AccountsInv, PutsOK, JarOfOneSession, PlaybackCurrent
<1> QED BY <1>2, <1>3, <1>4, <1>5, <1>6, <1>7 DEF AccountsInv

----------------------------------------------------------------------------
(* The theorems. *)

LEMMA InitAccounts == Init => AccountsInv
<1> SUFFICES ASSUME Init PROVE AccountsInv
  OBVIOUS
<1>1. sessions = <<>> /\ puts = <<>> /\ decided = {}
  BY DEF Init
<1>2. /\ Len(puts) = 0 /\ Len(sessions) = 0 /\ DOMAIN puts = {} /\ DOMAIN sessions = {}
      /\ puts \in Seq([email : Emails, stored : BOOLEAN, after : SUBSET (1..MaxPuts)])
      /\ sessions \in Seq([email : Emails, way : Ways])
  BY <1>1
<1>3. Idle \in RequestInfo /\ NoCookies \in Cookies
  BY IdleFields, BoundsAssumption DEF Begun, NoCookies, Cookies
<1>4. TypeOK
  BY <1>2, <1>3, BoundsAssumption DEF Init, TypeOK
<1>5. \A r \in Requests : ReqOK(req[r]) /\ MailOK(mail[r])
  BY <1>2, IdleFields DEF Init, ReqOK, MailOK, Begun
<1>6. \A r, o \in Requests : r # o => Apart(req[r], req[o])
  BY IdleFields DEF Init, Apart, Begun
<1>7. UsersDecided /\ PutsOK /\ AdmittedOnly /\ JarOfOneSession /\ PlaybackCurrent
  BY <1>2 DEF Init, UsersDecided, PutsOK, AdmittedOnly, JarOfOneSession, PlaybackCurrent, NoCookies
<1> QED BY <1>4, <1>5, <1>6, <1>7 DEF AccountsInv

LEMMA NextAccounts == AccountsInv /\ [Next]_vars => AccountsInv'
<1> SUFFICES ASSUME AccountsInv, [Next]_vars PROVE AccountsInv'
  OBVIOUS
<1>1. ASSUME NEW r \in Requests, Serve(r) PROVE AccountsInv'
  BY <1>1, InsertStep, OpenStep, UpsertStep, CommitStep, BreakStep DEF Serve
<1>2. ASSUME NEW r \in Requests, Browse(r) PROVE AccountsInv'
  BY <1>2, RegisterStep, OAuthStep, LoginStep, RefreshStep, LogoutStep, PutStep, ReceiveStep,
     LoseStep DEF Browse
<1>3. CASE UNCHANGED vars
  BY <1>3 DEF vars, AccountsInv, TypeOK, ReqOK, MailOK, Apart, UsersDecided, PutsOK, AdmittedOnly,
              JarOfOneSession, PlaybackCurrent
<1> QED BY <1>1, <1>2, <1>3, ExpireStep, DecideStep DEF Next

LEMMA AccountsAlways == Spec => []AccountsInv
<1>1. Init => AccountsInv
  BY InitAccounts
<1>2. AccountsInv /\ [Next]_vars => AccountsInv'
  BY NextAccounts
<1> QED BY <1>1, <1>2, PTL DEF Spec

\* TypeOK for any addresses and requests: no handler indexes the accounts by
\* nobody, and no cookie names a session that was never opened.
THEOREM AccountsTypes == Spec => []TypeOK
<1>1. AccountsInv => TypeOK
  BY DEF AccountsInv
<1> QED BY <1>1, AccountsAlways, PTL

\* AdmittedOnly for any requests at once: every way to a session goes through an
\* account that is stored and decided on, and accounts never leave the table.
THEOREM AdmissionSafe == Spec => []AdmittedOnly
<1>1. AccountsInv => AdmittedOnly
  BY DEF AccountsInv
<1> QED BY <1>1, AccountsAlways, PTL

\* JarOfOneSession for any number of responses on their way: each carries both
\* cookies or deletes both.
THEOREM JarWhole == Spec => []JarOfOneSession
<1>1. AccountsInv => JarOfOneSession
  BY DEF AccountsInv
<1> QED BY <1>1, AccountsAlways, PTL

\* PlaybackCurrent for any number of tabs: what was stored before an update was
\* sent can no longer take its place, however late its commit comes.
THEOREM PlaybackSafe == Spec => []PlaybackCurrent
<1>1. AccountsInv => PlaybackCurrent
  BY DEF AccountsInv
<1> QED BY <1>1, AccountsAlways, PTL

\* AccountKept for any requests at once: while a creation is uncommitted there is
\* no account of its address, and no second creation.
THEOREM AccountsStay == Spec => AccountKept
<1> DEFINE Kept == \A e \in Emails : user[e] # None =>
                     /\ user'[e] # None /\ user'[e].provider = user[e].provider
                     /\ user'[e].status # user[e].status => e \in decided'
<1>1. AccountsInv /\ [Next]_vars => [Kept]_vars
  <2> SUFFICES ASSUME AccountsInv, Next PROVE Kept \/ UNCHANGED vars
    OBVIOUS
  <2>1. ASSUME NEW r \in Requests, Commit(r) PROVE Kept
    BY <2>1, CommitWrites
  <2>2. ASSUME NEW e \in Emails, NEW status \in Status, Decide(e, status) PROVE Kept
    <3>1. decided' = decided \cup {e}
      BY <2>2 DEF Decide
    <3> QED BY <2>2, <3>1, DecideKeeps
  <2>3. ASSUME NEW r \in Requests, Serve(r), ~Commit(r) PROVE user' = user
    BY <2>3 DEF Serve, Insert, Open, Upsert, Break, stores
  <2>4. ASSUME NEW r \in Requests, Browse(r) PROVE user' = user
    BY <2>4 DEF Browse, Register, OAuth, Login, Refresh, Logout, Put, Receive, Lose, stores
  <2>5. ASSUME Expire PROVE user' = user
    BY <2>5 DEF Expire
  <2> QED BY <2>1, <2>2, <2>3, <2>4, <2>5 DEF Next
<1> QED BY <1>1, AccountsAlways, PTL DEF Spec, AccountKept

=============================================================================
