-------------------------- MODULE AuthSessionsProofs --------------------------
(***************************************************************************)
(* Proofs about AuthSessions, for any number of users, tokens, requests    *)
(* and clock ticks and any session limit.                                  *)
(*                                                                         *)
(* The invariant IInv says of every handler what its next step relies on   *)
(* (HandlerOK).  A step moves one handler (WhoMoves): the moved one is     *)
(* HandlerOK again by the code of the step (HandlerMoved), the others      *)
(* because what they rely on is never taken back (TokKept, RowKept,        *)
(* DeniedKept, hence HandlerKept).  Rotation, logout and the refinement of *)
(* SessionLedger follow from IInv; the session limit and the single        *)
(* refresh need OInv as well, logout of all devices VInv and the fair      *)
(* eviction VictimOldest on top of that.                                   *)
(***************************************************************************)
EXTENDS AuthSessionsInv, FiniteSetTheorems, TLAPS

-----------------------------------------------------------------------------
(* Types *)

\* The fields of a handler have their types where its next step uses them.
LEMMA FieldTypes ==
  ASSUME IInv, NEW r \in Requests
  PROVE  /\ req[r] \in RequestState
         /\ req[r].pc \in {"version", "setversion"} => req[r].user \in Users
         /\ req[r].pc \in HasNew => req[r].new \in Tokens
         /\ req[r].pc = "deny" => req[r].tok \in Tokens
BY DEF IInv, TypeOK, Shape, CreatorShape, RevokerShape, HasRotated

\* A handler at rest is a legal request state.
LEMMA IdleType == Idle \in RequestState
BY DEF Idle, RequestState, Labels

\* Moving a handler to another await keeps the types of the requests.
LEMMA GotoType ==
  ASSUME TypeOK, NEW r \in Requests, NEW l \in Labels, Goto(r, l)
  PROVE  req' \in [Requests -> RequestState]
BY DEF TypeOK, Goto, Move, RequestState

\* Replacing the state of a handler by a legal one keeps the types.
LEMMA MoveType ==
  ASSUME TypeOK, NEW r \in Requests, NEW s \in RequestState, Move(r, s)
  PROVE  req' \in [Requests -> RequestState]
BY DEF TypeOK, Move

\* A handler that returns leaves a legal request state behind.
LEMMA FinishType ==
  ASSUME TypeOK, NEW r \in Requests, Finish(r)
  PROVE  req' \in [Requests -> RequestState]
BY IdleType, MoveType DEF Finish

\* A handler that raises disturbs no type.
LEMMA RejectType ==
  ASSUME TypeOK, NEW r \in Requests, Reject(r)
  PROVE  TypeOK'
BY FinishType DEF TypeOK, Reject, history

\* Creating a token (uuid4 and create_access_token) keeps the types of the
\* tokens and the requests.
LEMMA MintType ==
  ASSUME TypeOK, NEW r \in Requests, NEW v \in Nat, Mint(r, v),
         req[r].user \in Users
  PROVE  /\ req' \in [Requests -> RequestState]
         /\ tok' \in [Tokens -> TokenInfo]
<1>1. PICK t \in Fresh :
        /\ tok' = [tok EXCEPT ![t] =
             [Blank EXCEPT !.user = req[r].user, !.version = v,
                           !.exp = now + AccessTTL, !.created = req[r].began,
                           !.parent = req[r].tok]]
        /\ Move(r, [req[r] EXCEPT !.pc = "count", !.new = t])
  BY DEF Mint
<1>2. t \in Tokens /\ req[r] \in RequestState
  BY <1>1 DEF Fresh, TypeOK
<1>3. [Blank EXCEPT !.user = req[r].user, !.version = v,
                    !.exp = now + AccessTTL, !.created = req[r].began,
                    !.parent = req[r].tok] \in TokenInfo
  <2>1. now + AccessTTL \in Nat
    BY TimeAssumption DEF TypeOK
  <2>. QED BY <1>2, <2>1 DEF Blank, TokenInfo, RequestState
<1>4. tok' \in [Tokens -> TokenInfo]
  BY <1>1, <1>3 DEF TypeOK
<1>5. req' \in [Requests -> RequestState]
  <2>1. [req[r] EXCEPT !.pc = "count", !.new = t] \in RequestState
    BY <1>2 DEF RequestState, Labels
  <2>. QED BY <1>1, <2>1, MoveType
<1>. QED BY <1>4, <1>5

\* Every step of every handler, the clock and a crash keep the types.
LEMMA TypeStep ==
  ASSUME IInv, [Next]_vars
  PROVE  TypeOK'
<1>0. TypeOK
  BY DEF IInv
<1>1. CASE UNCHANGED vars
  BY <1>0, <1>1 DEF TypeOK, vars
<1>2. CASE Tick
  BY <1>0, <1>2 DEF Tick, TypeOK, history
<1>3. ASSUME NEW r \in Requests, ReadVersion(r) PROVE TypeOK'
  <2>1. version[req[r].user] \in Nat /\ req[r].user \in Users
    BY <1>0, <1>3, FieldTypes DEF ReadVersion, TypeOK
  <2>2. /\ req' \in [Requests -> RequestState]
        /\ tok' \in [Tokens -> TokenInfo]
    BY <1>0, <1>3, <2>1, MintType, GotoType DEF ReadVersion, TypeOK, Labels
  <2>. QED BY <1>0, <1>3, <2>2 DEF ReadVersion, TypeOK, history
<1>4. ASSUME NEW r \in Requests, SetVersion(r) PROVE TypeOK'
  <2>1. /\ req' \in [Requests -> RequestState]
        /\ tok' \in [Tokens -> TokenInfo]
    BY <1>0, <1>4, FieldTypes, MintType DEF SetVersion
  <2>2. rewound' \in SUBSET Users
    BY <1>0, <1>4, FieldTypes DEF SetVersion, TypeOK
  <2>. QED BY <1>0, <1>4, <2>1, <2>2 DEF SetVersion, TypeOK
<1>5. ASSUME NEW r \in Requests, Count(r) PROVE TypeOK'
  BY <1>0, <1>5, GotoType DEF Count, TypeOK, history, Labels
<1>6. ASSUME NEW r \in Requests, SelectOldest(r) PROVE TypeOK'
  <2>1. req' \in [Requests -> RequestState]
    <3>1. CASE Goto(r, "failed")
      BY <1>0, <3>1, GotoType DEF Labels
    <3>2. ASSUME NEW t \in Tokens,
                 Move(r, [req[r] EXCEPT !.pc = "evict", !.victim = t])
          PROVE  req' \in [Requests -> RequestState]
      <4>1. [req[r] EXCEPT !.pc = "evict", !.victim = t] \in RequestState
        BY FieldTypes DEF RequestState, Labels
      <4>. QED BY <1>0, <3>2, <4>1, MoveType
    <3>. QED BY <1>6, <3>1, <3>2 DEF SelectOldest, OldestOf, Live
  <2>. QED BY <1>0, <1>6, <2>1 DEF SelectOldest, TypeOK, history
<1>7. ASSUME NEW r \in Requests, Evict(r) PROVE TypeOK'
  BY <1>0, <1>7, GotoType DEF Evict, TypeOK, history, Labels
<1>8. ASSUME NEW r \in Requests, Insert(r) PROVE TypeOK'
  <2>1. req[r].new \in Tokens
    BY <1>8, FieldTypes DEF Insert, HasNew
  <2>2. tok' \in [Tokens -> TokenInfo]
    <3>1. now + RefreshTTL \in Nat
      BY <1>0, TimeAssumption DEF TypeOK
    <3>. QED BY <1>0, <1>8, <2>1, <3>1 DEF Insert, TypeOK, TokenInfo
  <2>3. req' \in [Requests -> RequestState]
    BY <1>0, <1>8, GotoType DEF Insert, Labels
  <2>. QED BY <1>0, <1>8, <2>1, <2>2, <2>3 DEF Insert, TypeOK, history
<1>9. ASSUME NEW r \in Requests, Commit(r) PROVE TypeOK'
  BY <1>0, <1>9, FinishType DEF Commit, TypeOK, history, RowStates
<1>10. ASSUME NEW r \in Requests, Failed(r) \/ Abort(r) PROVE TypeOK'
  BY <1>0, <1>10, RejectType DEF Failed, Abort
<1>11. ASSUME NEW r \in Requests, RefreshLoad(r) PROVE TypeOK'
  <2>1. CASE Reject(r)
    BY <1>0, <2>1, RejectType
  <2>2. CASE ~Reject(r)
    <3>1. CASE Goto(r, "deny")
      BY <1>0, <1>11, <2>2, <3>1, GotoType
        DEF RefreshLoad, TypeOK, history, Labels
    <3>2. CASE Move(r, [req[r] EXCEPT !.op = "expire", !.pc = "select"])
      <4>0. [req[r] EXCEPT !.op = "expire", !.pc = "select"] \in RequestState
        BY FieldTypes DEF RequestState, Labels, OpNames
      <4>1. req' \in [Requests -> RequestState]
        BY <1>0, <3>2, <4>0, MoveType
      <4>. QED BY <1>0, <1>11, <2>2, <4>1 DEF RefreshLoad, TypeOK, history
    <3>. QED BY <1>11, <2>2, <3>1, <3>2 DEF RefreshLoad
  <2>. QED BY <2>1, <2>2
<1>12. ASSUME NEW r \in Requests, Deny(r) PROVE TypeOK'
  <2>1. req[r].tok \in Tokens
    BY <1>12, FieldTypes DEF Deny
  <2>2. req' \in [Requests -> RequestState]
    BY <1>0, <1>12, GotoType, FinishType DEF Deny, Labels
  <2>. QED BY <1>0, <1>12, <2>1, <2>2, TimeAssumption DEF Deny, TypeOK
<1>13. ASSUME NEW r \in Requests, RevokeSelect(r) PROVE TypeOK'
  BY <1>0, <1>13, GotoType, RejectType
    DEF RevokeSelect, TypeOK, history, Labels
<1>14. ASSUME NEW r \in Requests, Revoke(r) PROVE TypeOK'
  <2>0. now \in Nat
    BY <1>0 DEF TypeOK
  <2>1. req' \in [Requests -> RequestState]
    <3>1. CASE Move(r, [req[r] EXCEPT !.pc = "version", !.began = now])
      <4>1. [req[r] EXCEPT !.pc = "version", !.began = now] \in RequestState
        BY <2>0, FieldTypes DEF RequestState, Labels
      <4>. QED BY <1>0, <3>1, <4>1, MoveType
    <3>. QED BY <1>0, <1>14, <3>1, GotoType, FinishType DEF Revoke, Labels
  <2>. QED BY <1>0, <1>14, <2>1 DEF Revoke, TypeOK, history, RowStates
<1>15. ASSUME NEW r \in Requests, Auth(r) PROVE TypeOK'
  BY <1>0, <1>15, GotoType, RejectType DEF Auth, TypeOK, history, Labels
<1>16. ASSUME NEW r \in Requests, AuthVersion(r) PROVE TypeOK'
  BY <1>0, <1>16, GotoType, RejectType
    DEF AuthVersion, TypeOK, history, Labels
<1>17. ASSUME NEW r \in Requests, Find(r) PROVE TypeOK'
  <2>1. CASE Reject(r)
    BY <1>0, <2>1, RejectType
  <2>2. ASSUME NEW o \in {"logout", "logout_specific"},
               Move(r, [req[r] EXCEPT !.pc = "select", !.op = o])
        PROVE  req' \in [Requests -> RequestState]
    <3>1. [req[r] EXCEPT !.pc = "select", !.op = o] \in RequestState
      BY FieldTypes DEF RequestState, Labels, OpNames
    <3>. QED BY <1>0, <2>2, <3>1, MoveType
  <2>. QED BY <1>0, <1>17, <2>1, <2>2 DEF Find, TypeOK, history
<1>18. ASSUME NEW r \in Requests, Snapshot(r) PROVE TypeOK'
  <2>1. Live(req[r].user) \subseteq Tokens
    BY DEF Live
  <2>0. [req[r] EXCEPT !.pc = "sweep", !.seen = Live(req[r].user)]
          \in RequestState
    BY FieldTypes, <2>1 DEF RequestState, Labels
  <2>2. req' \in [Requests -> RequestState]
    BY <1>0, <1>18, <2>0, MoveType DEF Snapshot
  <2>. QED BY <1>0, <1>18, <2>2 DEF Snapshot, TypeOK, history
<1>19. ASSUME NEW r \in Requests, Sweep(r) PROVE TypeOK'
  BY <1>0, <1>19, GotoType DEF Sweep, TypeOK, history, Labels, RowStates
<1>20. ASSUME NEW r \in Requests, Bump(r) PROVE TypeOK'
  <2>1. req[r].seen \subseteq Tokens
    BY <1>0 DEF TypeOK, RequestState
  <2>2. version' \in [Users -> Nat]
    <3>1. CASE req[r].user \in Users
      <4>1. version[req[r].user] + 1 \in Nat
        BY <1>0, <3>1 DEF TypeOK
      <4>. QED BY <1>0, <1>20, <3>1, <4>1 DEF Bump, TypeOK
    <3>2. CASE req[r].user \notin Users
      <4>1. version' = version
        BY <1>0, <1>20, <3>2 DEF Bump, TypeOK
      <4>. QED BY <1>0, <4>1 DEF TypeOK
    <3>. QED BY <3>1, <3>2
  <2>. QED BY <1>0, <1>20, <2>1, <2>2, FinishType DEF Bump, TypeOK
<1>21. ASSUME NEW r \in Requests, NEW u \in Users, LoginBegin(r, u) \/ OAuthBegin(r, u)
       PROVE  TypeOK'
  <2>1. [Idle EXCEPT !.pc = "version", !.op = "login", !.user = u, !.began = now]
          \in RequestState
    BY <1>0 DEF TypeOK, Idle, RequestState, Labels, OpNames
  <2>2. [Idle EXCEPT !.pc = "version", !.op = "oauth", !.user = u, !.began = now]
          \in RequestState
    BY <1>0 DEF TypeOK, Idle, RequestState, Labels, OpNames
  <2>. QED BY <1>0, <1>21, <2>1, <2>2, MoveType
         DEF LoginBegin, OAuthBegin, BeginCreator, Begin, TypeOK
<1>22. ASSUME NEW r \in Requests, NEW t \in Tokens, RefreshBegin(r, t) PROVE TypeOK'
  <2>1. tok[t].user \in Users
    BY <1>22 DEF RefreshBegin, IInv, KnownTokens, Minted, TypeOK, TokenInfo
  <2>2. [Idle EXCEPT !.pc = "load", !.op = "refresh", !.user = tok[t].user,
                     !.tok = t] \in RequestState
    BY <2>1 DEF Idle, RequestState, Labels, OpNames
  <2>. QED BY <1>0, <1>22, <2>1, <2>2, MoveType
         DEF RefreshBegin, BeginCreator, Begin, TypeOK
<1>23. ASSUME NEW r \in Requests, NEW t \in Tokens, NEW s \in Tokens,
              NEW op \in {"logout", "logout_all", "logout_specific"},
              LogoutBegin(r, op, t, s)
       PROVE  TypeOK'
  <2>1. [Idle EXCEPT !.pc = "auth", !.op = op, !.user = tok[t].user,
                     !.acc = t, !.tok = s] \in RequestState
    BY <1>0 DEF TypeOK, TokenInfo, Idle, RequestState, Labels, OpNames
  <2>. QED BY <1>0, <1>23, <2>1, MoveType DEF LogoutBegin, Begin, TypeOK, history
<1>24. QED
  BY <1>0, <1>1, <1>2, <1>3, <1>4, <1>5, <1>6, <1>7, <1>8, <1>9, <1>10, <1>11,
     <1>12, <1>13, <1>14, <1>15, <1>16, <1>17, <1>18, <1>19, <1>20, <1>21,
     <1>22, <1>23 DEF Next, Step, LoginRefused

-----------------------------------------------------------------------------
(* Which steps change what *)

\* The steps that only look, start or stop leave all data as it is.
LEMMA LookingSteps ==
  ASSUME NEW r \in Requests,
         \/ Count(r) \/ SelectOldest(r) \/ Evict(r) \/ Failed(r) \/ RefreshLoad(r)
         \/ RevokeSelect(r) \/ Auth(r) \/ AuthVersion(r) \/ Find(r) \/ Snapshot(r)
         \/ Abort(r) \/ LoginRefused(r)
         \/ \E t, s, op : LogoutBegin(r, op, t, s)
  PROVE  UNCHANGED <<now, row, tok, version, blacklist, issued, history>>
<1>1. CASE Count(r) \/ SelectOldest(r) \/ Evict(r)
  BY <1>1 DEF Count, SelectOldest, Evict
<1>2. CASE RefreshLoad(r) \/ RevokeSelect(r)
  BY <1>2 DEF RefreshLoad, RevokeSelect, Reject
<1>3. CASE Auth(r) \/ AuthVersion(r)
  BY <1>3 DEF Auth, AuthVersion, Reject
<1>4. CASE Find(r) \/ Snapshot(r)
  BY <1>4 DEF Find, Snapshot, Reject
<1>5. CASE \/ Failed(r) \/ Abort(r) \/ LoginRefused(r)
           \/ \E t, s, op : LogoutBegin(r, op, t, s)
  BY <1>5 DEF Failed, Abort, LoginRefused, LogoutBegin, Reject, vars, history
<1>. QED BY <1>1, <1>2, <1>3, <1>4, <1>5

\* The starts of the handlers that create a session record overlaps only.
LEMMA CreatorBegins ==
  ASSUME NEW r \in Requests,
         \/ \E u : LoginBegin(r, u) \/ OAuthBegin(r, u)
         \/ \E t : RefreshBegin(r, t)
  PROVE  /\ UNCHANGED <<now, row, tok, version, blacklist, issued, closed, swept,
                        rewound>>
         /\ overlapped \subseteq overlapped'
BY DEF LoginBegin, OAuthBegin, RefreshBegin, BeginCreator

\* Every step is one that looks, one that starts a creator, or one of the
\* writing steps.
LEMMA KindsOfStep ==
  ASSUME [Next]_vars
  PROVE  \/ UNCHANGED <<now, row, tok, version, blacklist, issued, history>>
         \/ /\ UNCHANGED <<now, row, tok, version, blacklist, issued, closed, swept,
                           rewound>>
            /\ overlapped \subseteq overlapped'
         \/ Tick
         \/ \E r \in Requests :
              \/ ReadVersion(r) \/ SetVersion(r) \/ Insert(r) \/ Commit(r)
              \/ Deny(r) \/ Revoke(r) \/ Sweep(r) \/ Bump(r)
<1>1. CASE UNCHANGED vars
  BY <1>1 DEF vars, history
<1>2. ASSUME NEW r \in Requests, Step(r)
      PROVE  \/ UNCHANGED <<now, row, tok, version, blacklist, issued, history>>
             \/ ReadVersion(r) \/ SetVersion(r) \/ Insert(r) \/ Commit(r)
             \/ Deny(r) \/ Revoke(r) \/ Sweep(r) \/ Bump(r)
  BY <1>2, LookingSteps DEF Step
<1>. QED BY <1>1, <1>2, LookingSteps, CreatorBegins DEF Next

\* Which steps write which piece of state: the table is written by the
\* commits only, the blacklist by redis.set in refresh and the logouts, the
\* version by redis.set in login and redis.incr in logout_all.
LEMMA Changes ==
  ASSUME [Next]_vars
  PROVE  /\ row' = row \/ \E r \in Requests : Commit(r) \/ Revoke(r) \/ Sweep(r)
         /\ tok' = tok \/ \E r \in Requests :
                            ReadVersion(r) \/ SetVersion(r) \/ Insert(r)
         /\ blacklist' = blacklist \/ \E r \in Requests : Deny(r)
         /\ version' = version \/ \E r \in Requests : SetVersion(r) \/ Bump(r)
         /\ issued' = issued \/ \E r \in Requests : Insert(r)
         /\ closed' = closed \/ \E r \in Requests : Deny(r)
         /\ swept' = swept \/ \E r \in Requests : Bump(r)
         /\ rewound' = rewound \/ \E r \in Requests : SetVersion(r)
         /\ now' = now \/ Tick
<1>1. ASSUME NEW r \in Requests, ReadVersion(r) \/ SetVersion(r) \/ Insert(r)
      PROVE  /\ UNCHANGED <<now, row, blacklist, closed, swept>>
             /\ (version' = version /\ rewound' = rewound) \/ SetVersion(r)
             /\ issued' = issued \/ Insert(r)
  BY <1>1 DEF ReadVersion, SetVersion, Insert, history
<1>2. ASSUME NEW r \in Requests, Commit(r) \/ Revoke(r) \/ Sweep(r)
      PROVE  UNCHANGED <<now, tok, version, blacklist, issued, closed, swept, rewound>>
  BY <1>2 DEF Commit, Revoke, Sweep, history
<1>3. ASSUME NEW r \in Requests, Deny(r)
      PROVE  UNCHANGED <<now, row, tok, version, issued, swept, rewound>>
  BY <1>3 DEF Deny
<1>4. ASSUME NEW r \in Requests, Bump(r)
      PROVE  UNCHANGED <<now, row, tok, blacklist, issued, closed, rewound>>
  BY <1>4 DEF Bump
<1>5. Tick => UNCHANGED <<row, tok, version, blacklist, issued, closed, swept,
                          rewound>>
  BY DEF Tick, history
<1>. QED BY <1>1, <1>2, <1>3, <1>4, <1>5, KindsOfStep DEF history

\* The step moves no request but r.
OthersStay(r) == \A q \in Requests \ {r} : req'[q] = req[q]

\* A handler that moves leaves the others where they are.
LEMMA MoveAlone ==
  ASSUME TypeOK, NEW r \in Requests, NEW s, Move(r, s)
  PROVE  OthersStay(r) /\ req'[r] = s
BY DEF TypeOK, Move, OthersStay

\* The same for a handler that only goes on to its next await.
LEMMA GotoAlone ==
  ASSUME TypeOK, NEW r \in Requests, NEW l, Goto(r, l)
  PROVE  OthersStay(r) /\ req'[r] = [req[r] EXCEPT !.pc = l]
BY MoveAlone DEF Goto

\* The same for a handler that returns or raises.
LEMMA FinishAlone ==
  ASSUME TypeOK, NEW r \in Requests, Finish(r) \/ Reject(r)
  PROVE  OthersStay(r) /\ req'[r] = Idle
BY MoveAlone DEF Finish, Reject

\* One handler moves at a time.
LEMMA OneMoves ==
  ASSUME TypeOK, NEW r \in Requests,
         \/ Step(r) \/ Abort(r)
         \/ \E u \in Users : LoginBegin(r, u) \/ OAuthBegin(r, u)
         \/ \E t \in Tokens : RefreshBegin(r, t)
         \/ \E t, s \in Tokens :
              \E op \in {"logout", "logout_all", "logout_specific"} :
                LogoutBegin(r, op, t, s)
  PROVE  OthersStay(r)
<1> USE MoveAlone, GotoAlone, FinishAlone
<1>1. CASE Step(r)
  <2>1. CASE ReadVersion(r) \/ SetVersion(r)
    BY <2>1 DEF ReadVersion, SetVersion, Mint
  <2>2. CASE Count(r) \/ Evict(r) \/ Insert(r) \/ Commit(r) \/ Failed(r)
    BY <2>2 DEF Count, Evict, Insert, Commit, Failed
  <2>3. CASE SelectOldest(r)
    BY <2>3 DEF SelectOldest
  <2>4. CASE RefreshLoad(r)
    BY <2>4 DEF RefreshLoad
  <2>5. CASE Deny(r) \/ RevokeSelect(r)
    BY <2>5 DEF Deny, RevokeSelect
  <2>6. CASE Revoke(r)
    BY <2>6 DEF Revoke
  <2>7. CASE Auth(r)
    BY <2>7 DEF Auth
  <2>8. CASE AuthVersion(r)
    BY <2>8 DEF AuthVersion
  <2>9. CASE Find(r)
    BY <2>9 DEF Find
  <2>10. CASE Snapshot(r) \/ Sweep(r) \/ Bump(r)
    BY <2>10 DEF Snapshot, Sweep, Bump
  <2>. QED BY <1>1, <2>1, <2>2, <2>3, <2>4, <2>5, <2>6, <2>7, <2>8, <2>9, <2>10
         DEF Step
<1>2. CASE Abort(r)
  BY <1>2 DEF Abort
<1>3. ASSUME NEW op, NEW s, Begin(r, op, s) PROVE OthersStay(r)
  BY <1>3 DEF Begin
<1>. QED
  BY <1>1, <1>2, <1>3
    DEF LoginBegin, OAuthBegin, RefreshBegin, LogoutBegin, BeginCreator
-----------------------------------------------------------------------------
(* What a step never undoes *)

\* Creating a token fills in exactly one fresh token.
LEMMA MintEffect ==
  ASSUME IInv, NEW r \in Requests, NEW v \in Nat, Mint(r, v)
  PROVE  \E t \in Fresh :
           /\ tok'[t] = [user |-> req[r].user, version |-> v,
                         exp |-> now + AccessTTL, till |-> 0,
                         created |-> req[r].began, parent |-> req[r].tok]
           /\ \A x \in Tokens \ {t} : tok'[x] = tok[x]
           /\ Move(r, [req[r] EXCEPT !.pc = "count", !.new = t])
BY DEF IInv, TypeOK, Mint, Fresh, Blank

\* The claims of an access token and the owner and parent of a row are never
\* changed once they exist.
LEMMA TokKept ==
  ASSUME IInv, [Next]_vars, NEW t \in Tokens, Minted(t)
  PROVE  /\ tok'[t].user = tok[t].user /\ tok'[t].parent = tok[t].parent
         /\ tok'[t].exp = tok[t].exp /\ tok'[t].version = tok[t].version
         /\ Minted(t)'
<1>1. CASE tok' = tok
  BY <1>1 DEF Minted
<1>2. ASSUME NEW r \in Requests, NEW v \in Nat, Mint(r, v)
      PROVE  tok'[t] = tok[t]
  BY <1>2, MintEffect DEF Fresh, Minted
<1>3. ASSUME NEW r \in Requests, ReadVersion(r) PROVE tok'[t] = tok[t]
  <2>1. version[req[r].user] \in Nat
    BY <1>3, FieldTypes DEF ReadVersion, IInv, TypeOK
  <2>. QED BY <1>2, <1>3, <2>1 DEF ReadVersion
<1>4. ASSUME NEW r \in Requests, SetVersion(r) PROVE tok'[t] = tok[t]
  BY <1>2, <1>4 DEF SetVersion
<1>5. ASSUME NEW r \in Requests, Insert(r)
      PROVE  tok'[t] = tok[t] \/ \E x : tok'[t] = [tok[t] EXCEPT !.till = x]
  BY <1>5 DEF Insert, IInv, TypeOK
<1>6. \A x : LET k == [tok[t] EXCEPT !.till = x] IN
        /\ k.user = tok[t].user /\ k.parent = tok[t].parent
        /\ k.exp = tok[t].exp /\ k.version = tok[t].version
  BY DEF IInv, TypeOK, TokenInfo
<1>. QED BY <1>1, <1>3, <1>4, <1>5, <1>6, Changes DEF Minted

\* A row is never deleted and a revoked row is never revived, whatever the
\* interleaving of the commits.
LEMMA RowKept ==
  ASSUME IInv, [Next]_vars, NEW t \in Tokens
  PROVE  /\ row[t] # "absent" => row'[t] # "absent"
         /\ row[t] = "revoked" => row'[t] = "revoked"
<1>1. ASSUME NEW r \in Requests, Commit(r), row[t] # "absent"
      PROVE  row'[t] \in {"revoked", row[t]}
  <2>1. row[req[r].new] = "absent"
    BY <1>1 DEF Commit, IInv, Shape, CreatorShape, HasNew
  <2>. QED BY <1>1, <2>1 DEF Commit
<1>2. ASSUME NEW r \in Requests, Revoke(r) PROVE row'[t] \in {"revoked", row[t]}
  BY <1>2 DEF Revoke, IInv, TypeOK
<1>3. ASSUME NEW r \in Requests, Sweep(r) PROVE row'[t] \in {"revoked", row[t]}
  BY <1>3 DEF Sweep
<1>. QED BY <1>1, <1>2, <1>3, Changes

\* A blacklist entry that outlives its access token keeps doing so: a later
\* redis.set only moves its expiry forward.
LEMMA DeniedKept ==
  ASSUME IInv, [Next]_vars, NEW t \in Tokens, Minted(t), tok[t].exp <= blacklist[t]
  PROVE  tok'[t].exp <= blacklist'[t]
<1>1. ASSUME NEW r \in Requests, Deny(r) PROVE tok[t].exp <= blacklist'[t]
  <2>1. tok[t].exp <= now + AccessTTL
    BY DEF IInv, ExpBounded
  <2>. QED BY <1>1, <2>1 DEF Deny, IInv, TypeOK
<1>. QED BY <1>1, TokKept, Changes

\* A session that is revoked and blacklisted stays so.
LEMMA RetiredKept ==
  ASSUME IInv, [Next]_vars, NEW t \in Tokens, Retired(t)
  PROVE  Retired(t)'
BY TokKept, RowKept, DeniedKept DEF Retired

-----------------------------------------------------------------------------
(* The parts of IInv that say nothing of the handlers *)

\* A token that appears in a step was created by one handler, for the user
\* and from the parent that the handler holds.
LEMMA NewInfo ==
  ASSUME IInv, [Next]_vars, NEW t \in Tokens, ~Minted(t)
  PROVE  \/ tok'[t].user = None /\ tok'[t].exp = tok[t].exp
           /\ tok'[t].parent = tok[t].parent
         \/ /\ tok'[t].exp = now + AccessTTL /\ now' = now
            /\ \E r \in Requests :
                 /\ req[r].pc \in {"version", "setversion"}
                 /\ tok'[t].user = req[r].user
                 /\ tok'[t].parent = req[r].tok
                 /\ \E v \in Nat : Mint(r, v)
<1>1. CASE tok' = tok
  BY <1>1 DEF Minted
<1>2. ASSUME NEW r \in Requests, NEW v \in Nat, Mint(r, v)
      PROVE  \/ tok'[t] = tok[t]
             \/ /\ tok'[t].exp = now + AccessTTL
                /\ tok'[t].user = req[r].user /\ tok'[t].parent = req[r].tok
  <2>1. PICK x \in Fresh :
          /\ tok'[x] = [user |-> req[r].user, version |-> v,
                        exp |-> now + AccessTTL, till |-> 0,
                        created |-> req[r].began, parent |-> req[r].tok]
          /\ \A y \in Tokens \ {x} : tok'[y] = tok[y]
    BY <1>2, MintEffect
  <2>. QED BY <2>1
<1>3. ASSUME NEW r \in Requests, ReadVersion(r) \/ SetVersion(r)
      PROVE  /\ req[r].pc \in {"version", "setversion"} /\ now' = now
             /\ \/ tok'[t] = tok[t]
                \/ /\ tok'[t].exp = now + AccessTTL
                   /\ tok'[t].user = req[r].user /\ tok'[t].parent = req[r].tok
                   /\ \E v \in Nat : Mint(r, v)
  <2>1. CASE ReadVersion(r)
    <3>1. version[req[r].user] \in Nat
      BY <2>1, FieldTypes DEF ReadVersion, IInv, TypeOK
    <3>. QED BY <1>2, <2>1, <3>1 DEF ReadVersion
  <2>2. CASE SetVersion(r)
    BY <1>2, <2>2 DEF SetVersion
  <2>. QED BY <1>3, <2>1, <2>2
<1>4. ASSUME NEW r \in Requests, Insert(r) PROVE tok'[t] = tok[t]
  <2>1. req[r].new # t
    BY <1>4, NoneAssumption
      DEF Insert, IInv, Shape, CreatorShape, HasNew, HasRotated, Minted
  <2>. QED BY <1>4, <2>1 DEF Insert, IInv, TypeOK
<1>. QED BY <1>1, <1>3, <1>4, Changes DEF Minted

\* The clock does not run backwards.
LEMMA NowStep ==
  ASSUME IInv, [Next]_vars
  PROVE  now' \in Nat /\ now <= now'
BY Changes DEF IInv, TypeOK, Tick

\* No access token is ever valid for longer than one created now: this is
\* why blacklisting for ACCESS_TOKEN_EXP_MINS from now is enough.
LEMMA ExpStep ==
  ASSUME IInv, [Next]_vars
  PROVE  ExpBounded'
<1>1. ASSUME NEW t \in Tokens PROVE tok'[t].exp <= now' + AccessTTL
  <2>1. tok[t].exp <= now + AccessTTL /\ tok[t].exp \in Nat /\ now \in Nat
    BY DEF IInv, ExpBounded, TypeOK, TokenInfo
  <2>2. tok'[t].exp = tok[t].exp \/ tok'[t].exp = now + AccessTTL
    BY TokKept, NewInfo
  <2>. QED BY <2>1, <2>2, NowStep, TimeAssumption
<1>. QED BY <1>1 DEF ExpBounded

\* The token that a handler is about to insert exists, and its row does not.
LEMMA NewMinted ==
  ASSUME IInv, NEW r \in Requests, req[r].pc \in HasNew
  PROVE  /\ req[r].new \in Tokens /\ Minted(req[r].new)
         /\ row[req[r].new] = "absent"
BY NoneAssumption DEF IInv, Shape, CreatorShape, HasRotated, Minted

\* Only tokens that were created reach a cookie or the table.
LEMMA KnownStep ==
  ASSUME IInv, [Next]_vars
  PROVE  KnownTokens'
<1>1. ASSUME NEW t \in issued' PROVE Minted(t)'
  <2>1. ASSUME NEW r \in Requests, Insert(r) PROVE Minted(t)'
    BY <1>1, <2>1, NewMinted, TokKept
      DEF Insert, HasNew, IInv, KnownTokens, TypeOK
  <2>. QED BY <1>1, <2>1, Changes, TokKept DEF IInv, KnownTokens, TypeOK
<1>2. ASSUME NEW t \in Tokens, row'[t] # "absent" PROVE Minted(t)'
  <2>1. CASE row[t] # "absent"
    BY <2>1, TokKept DEF IInv, KnownTokens
  <2>2. ASSUME NEW r \in Requests, Commit(r), row[t] = "absent"
        PROVE  Minted(t)'
    <3>1. t = req[r].new \/ t = req[r].victim
      BY <1>2, <2>2 DEF Commit
    <3>2. Minted(t)
      BY <2>2, <3>1, NewMinted, NoneAssumption
        DEF Commit, HasNew, IInv, Shape, CreatorShape
    <3>. QED BY <3>2, TokKept
  <2>3. ASSUME NEW r \in Requests, Revoke(r), row[t] = "absent"
        PROVE  FALSE
    BY <1>2, <2>3 DEF Revoke, IInv, TypeOK, Shape, RevokerShape
  <2>4. ASSUME NEW r \in Requests, Sweep(r), row[t] = "absent"
        PROVE  FALSE
    BY <1>2, <2>4 DEF Sweep, IInv, Progress, DoneTo
  <2>. QED BY <1>2, <2>1, <2>2, <2>3, <2>4, Changes
<1>. QED BY <1>1, <1>2 DEF KnownTokens

\* A refresh creates a token only when the one it replaces is revoked and
\* blacklisted, and that does not change later.
LEMMA ParentsStep ==
  ASSUME IInv, [Next]_vars
  PROVE  ParentsRetired'
<1>1. ASSUME NEW t \in Tokens, NEW p \in Tokens, p = tok'[t].parent,
             tok[t].parent = p
      PROVE  Retired(p)'
  <2>1. Retired(p)
    BY <1>1, NoneAssumption DEF IInv, ParentsRetired
  <2>. QED BY <2>1, RetiredKept
<1>2. ASSUME NEW p, p # None, NEW r \in Requests,
             req[r].pc \in {"version", "setversion"}, p = req[r].tok
      PROVE  p \in Tokens /\ Retired(p)'
  <2>1. req[r].op = "refresh" /\ p \in Tokens
    BY <1>2 DEF IInv, Shape, CreatorShape, HasRotated, Creators
  <2>2. Retired(p)
    BY <1>2, <2>1 DEF IInv, Progress, DoneTo, HasRotated
  <2>. QED BY <2>1, <2>2, RetiredKept
<1>3. ASSUME NEW t \in Tokens, NEW p, p = tok'[t].parent, p # None
      PROVE  Retired(p)'
  <2>1. tok[t].parent \in Tokens \cup {None}
    BY DEF IInv, TypeOK, TokenInfo
  <2>2. CASE p = tok[t].parent
    BY <1>1, <1>3, <2>1, <2>2
  <2>3. CASE p # tok[t].parent
    BY <1>2, <1>3, <2>3, TokKept, NewInfo
  <2>. QED BY <2>2, <2>3
<1>. QED BY <1>3 DEF ParentsRetired

\* A logout answers success only when its session is revoked and
\* blacklisted, and that does not change later.
LEMMA ClosedStep ==
  ASSUME IInv, [Next]_vars
  PROVE  ClosedRetired'
<1>1. ASSUME NEW t \in closed PROVE Retired(t)'
  BY <1>1, RetiredKept DEF IInv, ClosedRetired, TypeOK
<1>2. ASSUME NEW r \in Requests, Deny(r), NEW t \in closed' \ closed
      PROVE  Retired(t)'
  <2>1. t = req[r].tok /\ req[r].op # "refresh" /\ t \in Tokens
    BY <1>2, FieldTypes DEF Deny
  <2>2. row[t] = "revoked" /\ Minted(t)
    BY <1>2, <2>1 DEF Deny, IInv, Progress, DoneTo, KnownTokens
  <2>3. blacklist'[t] = now + AccessTTL /\ tok' = tok /\ row' = row
    BY <1>2, <2>1 DEF Deny, IInv, TypeOK
  <2>. QED BY <2>1, <2>2, <2>3 DEF Retired, Minted, IInv, ExpBounded
<1>. QED BY <1>1, <1>2, Changes DEF ClosedRetired

-----------------------------------------------------------------------------
(* The parts of IInv about the handlers *)

HandlerOK(q) == CreatorShape(q) /\ RevokerShape(q) /\ DoneTo(q)

\* A handler at rest asks for nothing.
LEMMA IdleOK ==
  ASSUME NEW q, q = Idle
  PROVE  HandlerOK(q) /\ HandlerOK(q)'
BY NoneAssumption DEF HandlerOK, CreatorShape, RevokerShape, DoneTo, Idle,
  HasRotated, HasNew, Creators

\* The invariant, seen from one handler.
LEMMA RequestFacts ==
  ASSUME IInv, NEW r \in Requests
  PROVE  HandlerOK(req[r]) /\ req[r] \in RequestState
BY FieldTypes DEF HandlerOK, IInv, Shape, Progress

\* The row of a token that is being created stays absent while its handler
\* does not move.
LEMMA NewRowKept ==
  ASSUME IInv, [Next]_vars, NEW r \in Requests, req'[r] = req[r],
         req[r].pc \in HasNew
  PROVE  row'[req[r].new] = "absent"
<1> DEFINE n == req[r].new
<1>1. n \in Tokens /\ row[n] = "absent"
  BY NewMinted
<1>2. ASSUME NEW x \in Requests, Commit(x) PROVE row'[n] = "absent"
  <2>1. x # r
    BY <1>2 DEF Commit, Finish, Move, IInv, TypeOK, Idle
  <2>2. req[x].new # n
    BY <1>1, <2>1, NoneAssumption DEF IInv, OwnToken
  <2>3. req[x].victim # n
    BY <1>1, <2>1, NoneAssumption DEF IInv, Shape, CreatorShape
  <2>. QED BY <1>1, <1>2, <2>2, <2>3 DEF Commit
<1>3. ASSUME NEW x \in Requests, Revoke(x) PROVE row'[n] = "absent"
  <2>1. req[x].tok # n
    BY <1>1, <1>3 DEF Revoke, IInv, Shape, RevokerShape
  <2>. QED BY <1>1, <1>3, <2>1 DEF Revoke, IInv, TypeOK
<1>4. ASSUME NEW x \in Requests, Sweep(x) PROVE row'[n] = "absent"
  BY <1>1, <1>4 DEF Sweep, IInv, Progress, DoneTo
<1>. QED BY <1>1, <1>2, <1>3, <1>4, Changes

\* What the other handlers leave of what a handler has seen and done.
LEMMA DataKept ==
  ASSUME IInv, [Next]_vars, NEW r \in Requests, NEW q, q = req[r]
  PROVE  /\ q.op = "refresh" => /\ q.tok \in Tokens
                                /\ tok'[q.tok].user = q.user /\ Minted(q.tok)
         /\ q.pc \in HasNew => /\ tok'[q.new].user = q.user
                               /\ tok'[q.new].parent = q.tok
         /\ q.victim # None => /\ tok'[q.victim].user # None /\ tok'[q.victim].user = q.user
                               /\ row'[q.victim] # "absent"
         /\ q.op = "refresh" /\ q.pc \in {"select", "revoke"} =>
              tok'[q.tok].exp <= blacklist'[q.tok]
         /\ q.op = "refresh" /\ q.pc \in HasRotated =>
              /\ tok'[q.tok].user # None /\ row'[q.tok] = "revoked"
              /\ tok'[q.tok].exp <= blacklist'[q.tok]
         /\ q.pc \in {"deny", "revoke"} => row'[q.tok] # "absent"
         /\ q.op # "refresh" /\ q.pc = "deny" => row'[q.tok] = "revoked"
         /\ \A t \in q.seen : /\ tok'[t].user # None /\ tok'[t].user = q.user
                              /\ row'[t] # "absent"
         /\ q.pc = "bump" => \A t \in q.seen : row'[t] = "revoked"
<1>1. HandlerOK(q) /\ q \in RequestState
  BY RequestFacts
<1>2. q.op = "refresh" => /\ q.tok \in Tokens /\ Minted(q.tok)
                         /\ tok'[q.tok].user = q.user
  BY <1>1, NoneAssumption, TokKept
    DEF HandlerOK, CreatorShape, Creators, Minted
<1>3. q.pc \in HasNew => /\ tok'[q.new].user = q.user
                        /\ tok'[q.new].parent = q.tok
  BY <1>1, NewMinted, TokKept DEF HandlerOK, CreatorShape
<1>4. q.victim # None => /\ tok'[q.victim].user # None /\ tok'[q.victim].user = q.user
                         /\ row'[q.victim] # "absent"
  BY <1>1, TokKept, RowKept DEF HandlerOK, CreatorShape, RequestState, Minted
<1>5. q.op = "refresh" /\ q.pc \in {"select", "revoke"} =>
        tok'[q.tok].exp <= blacklist'[q.tok]
  BY <1>1, <1>2, DeniedKept DEF HandlerOK, DoneTo
<1>6. q.op = "refresh" /\ q.pc \in HasRotated =>
        /\ tok'[q.tok].user # None /\ row'[q.tok] = "revoked"
        /\ tok'[q.tok].exp <= blacklist'[q.tok]
  BY <1>1, <1>2, TokKept, RowKept, DeniedKept
    DEF HandlerOK, DoneTo, Retired, Minted
<1>7. q.pc \in {"deny", "revoke"} => row'[q.tok] # "absent"
  BY <1>1, RowKept DEF HandlerOK, RevokerShape
<1>8. q.op # "refresh" /\ q.pc = "deny" => row'[q.tok] = "revoked"
  BY <1>1, RowKept DEF HandlerOK, DoneTo, RevokerShape
<1>9. \A t \in q.seen : /\ tok'[t].user # None /\ tok'[t].user = q.user
                       /\ row'[t] # "absent"
  BY <1>1, TokKept, RowKept DEF HandlerOK, DoneTo, RequestState, Minted
<1>10. q.pc = "bump" => \A t \in q.seen : row'[t] = "revoked"
  BY <1>1, RowKept DEF HandlerOK, DoneTo, RequestState
<1>. QED BY <1>2, <1>3, <1>4, <1>5, <1>6, <1>7, <1>8, <1>9, <1>10

\* What a handler relies on survives the steps of all the others.
LEMMA HandlerKept ==
  ASSUME IInv, [Next]_vars, NEW r \in Requests, req'[r] = req[r]
  PROVE  HandlerOK(req[r])'
<1> DEFINE q == req[r]
<1>1. HandlerOK(q) /\ q \in RequestState
  BY RequestFacts
<1>2. CreatorShape(req[r])'
  BY <1>1, DataKept, NewRowKept DEF HandlerOK, CreatorShape, Minted
<1>3. RevokerShape(req[r])'
  BY <1>1, DataKept DEF HandlerOK, RevokerShape
<1>4. DoneTo(req[r])'
  BY DataKept DEF DoneTo, Retired, Minted
<1>. QED BY <1>2, <1>3, <1>4 DEF HandlerOK

\* Going on to the next await changes no field of the handler but its place.
LEMMA GotoFields ==
  ASSUME TypeOK, NEW r \in Requests, NEW l, Goto(r, l)
  PROVE  /\ req'[r].pc = l /\ req'[r].op = req[r].op
         /\ req'[r].user = req[r].user /\ req'[r].acc = req[r].acc
         /\ req'[r].tok = req[r].tok /\ req'[r].new = req[r].new
         /\ req'[r].victim = req[r].victim /\ req'[r].seen = req[r].seen
<1>1. req'[r] = [req[r] EXCEPT !.pc = l] /\ req[r] \in RequestState
  BY GotoAlone DEF TypeOK
<1>. QED BY <1>1 DEF RequestState

\* The steps that only look and go on.
LEMMA LookingKeeps ==
  ASSUME IInv, NEW r \in Requests, NEW l \in Labels, Goto(r, l),
         UNCHANGED <<row, tok, blacklist>>, l # "idle",
         \/ req[r].pc = "count" /\ l \in {"oldest", "insert"}
         \/ req[r].pc = "oldest" /\ l = "failed"
         \/ req[r].pc = "evict" /\ l = "insert"
         \/ req[r].pc = "version" /\ l = "setversion"
         \/ req[r].pc = "load" /\ l = "deny" /\ row[req[r].tok] # "absent"
         \/ req[r].pc = "select" /\ l = "revoke" /\ row[req[r].tok] # "absent"
         \/ req[r].pc = "auth" /\ l = "authversion"
         \/ req[r].pc = "authversion" /\ l \in {"select", "snapshot", "find"}
  PROVE  HandlerOK(req[r])'
<1> DEFINE q == req[r]
<1>1. HandlerOK(q)
  BY RequestFacts
<1>2. /\ req'[r].pc = l /\ req'[r].op = q.op
      /\ req'[r].user = q.user /\ req'[r].acc = q.acc
      /\ req'[r].tok = q.tok /\ req'[r].new = q.new
      /\ req'[r].victim = q.victim /\ req'[r].seen = q.seen
  BY GotoFields DEF IInv
<1>3. CreatorShape(req[r])'
  BY <1>1, <1>2 DEF HandlerOK, CreatorShape, HasRotated, HasNew, Minted
<1>4. RevokerShape(req[r])'
  BY <1>1, <1>2, NoneAssumption
    DEF HandlerOK, RevokerShape, CreatorShape, HasRotated, HasNew, Creators
<1>5. DoneTo(req[r])'
  <2>1. ~(q.op = "refresh" /\ l \in {"select"})
    BY <1>1 DEF HandlerOK, CreatorShape, HasRotated, HasNew
  <2>2. l = "deny" => q.op = "refresh"
    BY <1>1 DEF HandlerOK, CreatorShape, HasRotated, HasNew, Creators
  <2>3. q.op = "refresh" /\ l = "revoke" => tok[q.tok].exp <= blacklist[q.tok]
    BY <1>1 DEF HandlerOK, DoneTo
  <2>4. q.op = "refresh" /\ l \in HasRotated => Retired(q.tok)
    BY <1>1 DEF HandlerOK, DoneTo, HasRotated, HasNew
  <2>5. \A t \in q.seen : Minted(t) /\ row[t] # "absent" /\ tok[t].user = q.user
    BY <1>1 DEF HandlerOK, DoneTo
  <2>. QED BY <1>2, <2>1, <2>2, <2>3, <2>4, <2>5 DEF DoneTo, Minted, Retired
<1>. QED BY <1>3, <1>4, <1>5 DEF HandlerOK

\* After creating its token a handler is ready to count the sessions.
LEMMA MintOK ==
  ASSUME IInv, [Next]_vars, NEW r \in Requests, NEW v \in Nat, Mint(r, v),
         req[r].pc \in {"version", "setversion"}, UNCHANGED <<row, blacklist>>
  PROVE  HandlerOK(req[r])'
<1> DEFINE q == req[r]
<1>0. HandlerOK(q) /\ q \in RequestState /\ TypeOK
  BY RequestFacts DEF IInv
<1>1. PICK t \in Fresh :
        /\ tok'[t] = [user |-> q.user, version |-> v,
                      exp |-> now + AccessTTL, till |-> 0,
                      created |-> q.began, parent |-> q.tok]
        /\ Move(r, [q EXCEPT !.pc = "count", !.new = t])
  BY MintEffect
<1>2. /\ req'[r].pc = "count" /\ req'[r].new = t
      /\ req'[r].op = q.op /\ req'[r].user = q.user /\ req'[r].acc = q.acc
      /\ req'[r].tok = q.tok /\ req'[r].victim = q.victim
      /\ req'[r].seen = q.seen
  <2>1. req'[r] = [q EXCEPT !.pc = "count", !.new = t]
    BY <1>0, <1>1, MoveAlone
  <2>. QED BY <1>0, <2>1 DEF RequestState
<1>3. t \in Tokens /\ row'[t] = "absent"
  BY <1>1 DEF Fresh, IInv, KnownTokens, Minted
<1>4. CreatorShape(req[r])'
  BY <1>0, <1>1, <1>2, <1>3, DataKept
    DEF HandlerOK, CreatorShape, HasRotated, HasNew, Minted
<1>5. RevokerShape(req[r])'
  BY <1>2 DEF RevokerShape
<1>6. DoneTo(req[r])'
  BY <1>0, <1>2, DataKept DEF DoneTo, HasRotated, HasNew, Retired, Minted
<1>. QED BY <1>4, <1>5, <1>6 DEF HandlerOK

\* A step of a handler leaves it in a state its next step can rely on.
LEMMA HandlerMoved ==
  ASSUME IInv, [Next]_vars, NEW r \in Requests, Step(r)
  PROVE  HandlerOK(req[r])'
<1> DEFINE q == req[r]
<1>0. HandlerOK(q) /\ q \in RequestState /\ TypeOK
  BY RequestFacts DEF IInv
<1>f. Finish(r) \/ Reject(r) => HandlerOK(req[r])'
  BY <1>0, IdleOK, FinishAlone
<1>1. CASE ReadVersion(r)
  <2>1. version[q.user] \in Nat
    BY <1>0, <1>1, FieldTypes DEF ReadVersion, TypeOK
  <2>. QED BY <1>1, <2>1, MintOK, LookingKeeps DEF ReadVersion, Labels
<1>2. CASE SetVersion(r)
  BY <1>2, MintOK DEF SetVersion
<1>3. CASE Count(r)
  BY <1>3, LookingKeeps DEF Count, Labels
<1>4. CASE SelectOldest(r)
  <2>1. ASSUME NEW t \in OldestOf(Live(q.user)),
               Move(r, [q EXCEPT !.pc = "evict", !.victim = t])
        PROVE  HandlerOK(req[r])'
    <3>1. req'[r] = [q EXCEPT !.pc = "evict", !.victim = t]
      BY <1>0, <2>1, MoveAlone
    <3>2. /\ req'[r].pc = "evict" /\ req'[r].new = q.new
          /\ req'[r].op = q.op /\ req'[r].user = q.user /\ req'[r].acc = q.acc
          /\ req'[r].tok = q.tok /\ req'[r].victim = t
          /\ req'[r].seen = q.seen
      BY <1>0, <3>1 DEF RequestState
    <3>3. t \in Tokens /\ row[t] = "live" /\ Minted(t) /\ tok[t].user = q.user
      BY DEF OldestOf, Live, IInv, KnownTokens
    <3>4. q.pc = "oldest" /\ row' = row /\ tok' = tok
      BY <1>4 DEF SelectOldest
    <3>5. CreatorShape(req[r])'
      BY <1>0, <3>2, <3>3, <3>4, NoneAssumption
        DEF HandlerOK, CreatorShape, HasRotated, HasNew, Minted
    <3>6. RevokerShape(req[r])'
      BY <3>2 DEF RevokerShape
    <3>7. DoneTo(req[r])'
      BY <3>2, <3>4, DataKept DEF DoneTo, HasRotated, HasNew, Retired, Minted
    <3>. QED BY <3>5, <3>6, <3>7 DEF HandlerOK
  <2>. QED BY <1>4, <2>1, LookingKeeps DEF SelectOldest, Labels
<1>5. CASE Evict(r)
  BY <1>5, LookingKeeps DEF Evict, Labels
<1>6. CASE Insert(r)
  <2>1. q.pc = "insert" /\ row' = row /\ Goto(r, "commit")
    BY <1>6 DEF Insert
  <2>2. CreatorShape(req[r])'
    BY <1>0, <2>1, GotoFields, DataKept, NewMinted
      DEF HandlerOK, CreatorShape, HasRotated, HasNew, Minted
  <2>3. RevokerShape(req[r])'
    BY <1>0, <2>1, GotoFields DEF RevokerShape
  <2>4. DoneTo(req[r])'
    BY <1>0, <2>1, GotoFields, DataKept
      DEF DoneTo, HasRotated, HasNew, Retired, Minted
  <2>. QED BY <2>2, <2>3, <2>4 DEF HandlerOK
<1>7. CASE Commit(r) \/ Failed(r) \/ Bump(r)
  BY <1>f, <1>7 DEF Commit, Failed, Bump
<1>8. CASE RefreshLoad(r)
  <2>1. CASE Goto(r, "deny") /\ row[q.tok] = "live" /\ UNCHANGED <<row, tok, blacklist>>
    BY <1>8, <2>1, LookingKeeps DEF RefreshLoad, Labels
  <2>2. CASE Move(r, [q EXCEPT !.op = "expire", !.pc = "select"])
    <3>1. /\ req'[r].pc = "select" /\ req'[r].new = q.new
          /\ req'[r].op = "expire" /\ req'[r].tok = q.tok
          /\ req'[r].victim = q.victim /\ req'[r].seen = q.seen
          /\ req'[r].user = q.user
      <4>1. req'[r] = [q EXCEPT !.op = "expire", !.pc = "select"]
        BY <1>0, <2>2, MoveAlone
      <4>. QED BY <1>0, <4>1 DEF RequestState
    <3>2. q.pc = "load" /\ q.tok \in Tokens /\ q.new = None /\ q.victim = None
      BY <1>0, <1>8 DEF RefreshLoad, HandlerOK, CreatorShape, HasRotated,
                        HasNew, Creators
    <3>3. CreatorShape(req[r])'
      BY <3>1, <3>2 DEF CreatorShape, HasRotated, HasNew, Creators
    <3>4. RevokerShape(req[r])'
      BY <3>1, <3>2 DEF RevokerShape
    <3>5. DoneTo(req[r])'
      BY <3>1, DataKept DEF DoneTo, Minted
    <3>. QED BY <3>3, <3>4, <3>5 DEF HandlerOK
  <2>. QED BY <1>f, <1>8, <2>1, <2>2 DEF RefreshLoad
<1>9. CASE Deny(r)
  <2>1. CASE q.op = "refresh"
    <3>1. q.pc = "deny" /\ row' = row /\ tok' = tok /\ Goto(r, "select")
      BY <1>9, <2>1 DEF Deny
    <3>2. CreatorShape(req[r])'
      BY <1>0, <2>1, <3>1, GotoFields, DataKept
        DEF HandlerOK, CreatorShape, HasRotated, HasNew, Creators
    <3>3. RevokerShape(req[r])'
      BY <1>0, <2>1, <3>1, GotoFields DEF HandlerOK, RevokerShape
    <3>4. DoneTo(req[r])'
      <4>1. q.tok \in Tokens /\ tok'[q.tok].exp <= blacklist'[q.tok]
        BY <1>0, <1>9, <2>1, <3>1, DataKept DEF Deny, IInv, ExpBounded, TypeOK
      <4>. QED BY <1>0, <2>1, <3>1, <4>1, GotoFields, DataKept
             DEF DoneTo, HasRotated, HasNew, Minted
    <3>. QED BY <3>2, <3>3, <3>4 DEF HandlerOK
  <2>. QED BY <1>f, <1>9, <2>1 DEF Deny
<1>10. CASE RevokeSelect(r)
  BY <1>f, <1>10, LookingKeeps DEF RevokeSelect, Labels
<1>11. CASE Revoke(r)
  <2>0. /\ q.pc = "revoke" /\ q.tok \in Tokens /\ row'[q.tok] = "revoked"
        /\ tok' = tok
    BY <1>0, <1>11 DEF Revoke, HandlerOK, RevokerShape, TypeOK
  <2>1. CASE q.op = "refresh" /\ Move(r, [q EXCEPT !.pc = "version", !.began = now])
    <3>1. /\ req'[r].pc = "version" /\ req'[r].new = q.new
          /\ req'[r].op = q.op /\ req'[r].tok = q.tok
          /\ req'[r].victim = q.victim /\ req'[r].seen = q.seen
          /\ req'[r].user = q.user
      <4>1. req'[r] = [q EXCEPT !.pc = "version", !.began = now]
        BY <1>0, <2>1, MoveAlone
      <4>. QED BY <1>0, <4>1 DEF RequestState
    <3>2. CreatorShape(req[r])'
      BY <1>0, <2>0, <2>1, <3>1, DataKept
        DEF HandlerOK, CreatorShape, HasRotated, HasNew, Creators
    <3>3. RevokerShape(req[r])'
      BY <3>1 DEF RevokerShape
    <3>4. DoneTo(req[r])'
      BY <2>0, <2>1, <3>1, DataKept DEF DoneTo, Retired, Minted
    <3>. QED BY <3>2, <3>3, <3>4 DEF HandlerOK
  <2>2. CASE q.op # "refresh" /\ Goto(r, "deny")
    <3>1. CreatorShape(req[r])'
      BY <1>0, <2>0, <2>2, GotoFields
        DEF HandlerOK, CreatorShape, HasRotated, HasNew, Creators
    <3>2. RevokerShape(req[r])'
      BY <1>0, <2>0, <2>2, GotoFields DEF HandlerOK, RevokerShape
    <3>3. DoneTo(req[r])'
      BY <1>0, <2>0, <2>2, GotoFields, DataKept DEF DoneTo, Minted
    <3>. QED BY <3>1, <3>2, <3>3 DEF HandlerOK
  <2>. QED BY <1>f, <1>11, <2>1, <2>2 DEF Revoke
<1>12. CASE Auth(r)
  BY <1>f, <1>12, LookingKeeps DEF Auth, Labels
<1>13. CASE AuthVersion(r)
  BY <1>f, <1>13, LookingKeeps DEF AuthVersion, Labels
<1>14. CASE Find(r)
  <2>1. ASSUME NEW o \in {"logout", "logout_specific"}, q.pc = "find",
               Move(r, [q EXCEPT !.pc = "select", !.op = o])
        PROVE  HandlerOK(req[r])'
    <3>1. /\ req'[r].pc = "select" /\ req'[r].new = q.new
          /\ req'[r].op = o /\ req'[r].tok = q.tok
          /\ req'[r].victim = q.victim /\ req'[r].seen = q.seen
          /\ req'[r].user = q.user
      <4>1. req'[r] = [q EXCEPT !.pc = "select", !.op = o]
        BY <1>0, <2>1, MoveAlone
      <4>. QED BY <1>0, <4>1 DEF RequestState
    <3>2. CreatorShape(req[r])'
      BY <1>0, <2>1, <3>1
        DEF HandlerOK, CreatorShape, HasRotated, HasNew, Creators
    <3>3. RevokerShape(req[r])'
      BY <1>0, <2>1, <3>1 DEF HandlerOK, RevokerShape
    <3>4. DoneTo(req[r])'
      BY <3>1, DataKept DEF DoneTo, Minted
    <3>. QED BY <3>2, <3>3, <3>4 DEF HandlerOK
  <2>. QED BY <1>f, <1>14, <2>1 DEF Find
<1>15. CASE Snapshot(r)
  <2>1. /\ req'[r].pc = "sweep" /\ req'[r].new = q.new
        /\ req'[r].op = q.op /\ req'[r].tok = q.tok
        /\ req'[r].victim = q.victim /\ req'[r].seen = Live(q.user)
        /\ req'[r].user = q.user
    <3>1. req'[r] = [q EXCEPT !.pc = "sweep", !.seen = Live(q.user)]
      BY <1>0, <1>15, MoveAlone DEF Snapshot
    <3>. QED BY <1>0, <3>1 DEF RequestState
  <2>2. q.pc = "snapshot" /\ row' = row /\ tok' = tok
    BY <1>15 DEF Snapshot
  <2>3. CreatorShape(req[r])'
    BY <1>0, <2>1, <2>2
      DEF HandlerOK, CreatorShape, HasRotated, HasNew, Creators
  <2>4. RevokerShape(req[r])'
    BY <2>1 DEF RevokerShape
  <2>5. DoneTo(req[r])'
    <3>1. \A t \in Live(q.user) :
            Minted(t) /\ row[t] # "absent" /\ tok[t].user = q.user
      BY DEF Live, IInv, KnownTokens
    <3>2. q.op # "refresh"
      BY <1>0, <2>2 DEF HandlerOK, CreatorShape, HasRotated, HasNew
    <3>. QED BY <2>1, <2>2, <3>1, <3>2 DEF DoneTo, Minted
  <2>. QED BY <2>3, <2>4, <2>5 DEF HandlerOK
<1>16. CASE Sweep(r)
  <2>1. q.pc = "sweep" /\ tok' = tok /\ Goto(r, "bump")
    BY <1>16 DEF Sweep
  <2>2. CreatorShape(req[r])'
    BY <1>0, <2>1, GotoFields
      DEF HandlerOK, CreatorShape, HasRotated, HasNew, Creators
  <2>3. RevokerShape(req[r])'
    BY <1>0, <2>1, GotoFields DEF RevokerShape
  <2>4. DoneTo(req[r])'
    <3>1. \A t \in q.seen : row'[t] = "revoked"
      BY <1>0, <1>16 DEF Sweep, RequestState
    <3>2. q.op # "refresh"
      BY <1>0, <2>1 DEF HandlerOK, CreatorShape, HasRotated, HasNew
    <3>. QED BY <1>0, <2>1, <3>1, <3>2, GotoFields, DataKept DEF DoneTo, Minted
  <2>. QED BY <2>2, <2>3, <2>4 DEF HandlerOK
<1>. QED
  BY <1>1, <1>2, <1>3, <1>4, <1>5, <1>6, <1>7, <1>8, <1>9, <1>10, <1>11,
     <1>12, <1>13, <1>14, <1>15, <1>16 DEF Step

\* A login starts with its user and nothing else.
LEMMA LoginBegun ==
  ASSUME TypeOK, NEW r \in Requests, NEW u, LoginBegin(r, u) \/ OAuthBegin(r, u)
  PROVE  /\ OthersStay(r) /\ req'[r].pc = "version" /\ req'[r].user = u
         /\ req'[r].op \in {"login", "oauth"} /\ req'[r].new = None
<1>1. \E op \in {"login", "oauth"} :
        /\ req'[r] = [Idle EXCEPT !.pc = "version", !.op = op, !.user = u, !.began = now]
        /\ OthersStay(r)
  BY MoveAlone DEF LoginBegin, OAuthBegin, BeginCreator, Begin
<1>. QED BY <1>1 DEF Idle

\* A refresh starts with the token of the cookie and its user.
LEMMA RefreshBegun ==
  ASSUME TypeOK, NEW r \in Requests, NEW t, RefreshBegin(r, t)
  PROVE  /\ OthersStay(r) /\ req'[r].pc = "load" /\ req'[r].user = tok[t].user
         /\ req'[r].op = "refresh" /\ req'[r].new = None /\ req'[r].tok = t
<1>1. /\ req'[r] = [Idle EXCEPT !.pc = "load", !.op = "refresh",
                                !.user = tok[t].user, !.tok = t]
      /\ OthersStay(r)
  BY MoveAlone DEF RefreshBegin, BeginCreator, Begin
<1>. QED BY <1>1 DEF Idle

\* A logout starts at the check of the access token.
LEMMA LogoutBegun ==
  ASSUME TypeOK, NEW r \in Requests, NEW t, NEW s, NEW op, LogoutBegin(r, op, t, s)
  PROVE  /\ OthersStay(r) /\ req'[r].pc = "auth" /\ req'[r].op = op
         /\ req'[r].new = None /\ req'[r].acc = t /\ req'[r].user = tok[t].user
<1>1. /\ req'[r] = [Idle EXCEPT !.pc = "auth", !.op = op, !.user = tok[t].user,
                                !.acc = t, !.tok = s]
      /\ OthersStay(r)
  BY MoveAlone DEF LogoutBegin, Begin
<1>. QED BY <1>1 DEF Idle

\* A handler that starts is in a state its first step can rely on.
LEMMA HandlerBegun ==
  ASSUME IInv, NEW r \in Requests,
         \/ \E u \in Users : LoginBegin(r, u) \/ OAuthBegin(r, u)
         \/ \E t \in Tokens : RefreshBegin(r, t)
         \/ \E t, s \in Tokens :
              \E op \in {"logout", "logout_all", "logout_specific"} :
                LogoutBegin(r, op, t, s)
  PROVE  HandlerOK(req[r])' /\ req'[r].new = None
<1>0. TypeOK
  BY DEF IInv
<1>1. ASSUME NEW u \in Users, LoginBegin(r, u) \/ OAuthBegin(r, u)
      PROVE  HandlerOK(req[r])' /\ req'[r].new = None
  <2>1. \E op \in {"login", "oauth"} :
          req'[r] = [Idle EXCEPT !.pc = "version", !.op = op, !.user = u, !.began = now]
    BY <1>0, <1>1, MoveAlone DEF LoginBegin, OAuthBegin, BeginCreator, Begin
  <2>. QED BY <2>1, NoneAssumption
         DEF HandlerOK, CreatorShape, RevokerShape, DoneTo, Idle, HasRotated,
             HasNew, Creators
<1>2. ASSUME NEW t \in Tokens, RefreshBegin(r, t)
      PROVE  HandlerOK(req[r])' /\ req'[r].new = None
  <2>1. /\ req'[r] = [Idle EXCEPT !.pc = "load", !.op = "refresh",
                                  !.user = tok[t].user, !.tok = t]
        /\ tok' = tok /\ tok[t].user \in Users
    BY <1>0, <1>2, MoveAlone
      DEF RefreshBegin, BeginCreator, Begin, IInv, KnownTokens, Minted,
          TypeOK, TokenInfo
  <2>. QED BY <2>1, NoneAssumption
         DEF HandlerOK, CreatorShape, RevokerShape, DoneTo, Idle, HasRotated,
             HasNew, Creators
<1>3. ASSUME NEW t \in Tokens, NEW s \in Tokens, NEW op \in {"logout", "logout_all", "logout_specific"},
             LogoutBegin(r, op, t, s)
      PROVE  HandlerOK(req[r])' /\ req'[r].new = None
  <2>1. req'[r] = [Idle EXCEPT !.pc = "auth", !.op = op, !.user = tok[t].user,
                               !.acc = t, !.tok = s]
    BY <1>0, <1>3, MoveAlone DEF LogoutBegin, Begin
  <2>. QED BY <2>1, NoneAssumption
         DEF HandlerOK, CreatorShape, RevokerShape, DoneTo, Idle, HasRotated,
             HasNew, Creators
<1>. QED BY <1>1, <1>2, <1>3

\* Every handler that a step moves is one of these.
LEMMA WhoMoves ==
  ASSUME [Next]_vars
  PROVE  \/ req' = req
         \/ \E r \in Requests :
              \/ Step(r) \/ Abort(r)
              \/ \E u \in Users : LoginBegin(r, u) \/ OAuthBegin(r, u)
              \/ \E t \in Tokens : RefreshBegin(r, t)
              \/ \E t, s \in Tokens :
                   \E op \in {"logout", "logout_all", "logout_specific"} :
                     LogoutBegin(r, op, t, s)
BY DEF Next, Tick, LoginRefused, vars

\* After any step, every handler is in a state its next step can rely on.
LEMMA HandlersStep ==
  ASSUME IInv, [Next]_vars
  PROVE  Shape' /\ Progress'
<1>1. ASSUME NEW q \in Requests PROVE HandlerOK(req[q])'
  <2>1. CASE req' = req
    BY <2>1, HandlerKept
  <2>2. ASSUME NEW r \in Requests,
               \/ Step(r) \/ Abort(r)
               \/ \E u \in Users : LoginBegin(r, u) \/ OAuthBegin(r, u)
               \/ \E t \in Tokens : RefreshBegin(r, t)
               \/ \E t, s \in Tokens :
                    \E op \in {"logout", "logout_all", "logout_specific"} :
                      LogoutBegin(r, op, t, s)
        PROVE  HandlerOK(req[q])'
    <3>1. CASE q # r
      <4>1. req'[q] = req[q]
        BY <2>2, <3>1, OneMoves DEF OthersStay, IInv
      <4>. QED BY <4>1, HandlerKept
    <3>2. CASE q = r /\ Step(r)
      BY <3>2, HandlerMoved
    <3>3. CASE q = r /\ Abort(r)
      <4>1. req'[q] = Idle
        BY <3>3, FinishAlone DEF Abort, IInv
      <4>. QED BY <4>1, IdleOK
    <3>4. CASE q = r /\ ~Step(r) /\ ~Abort(r)
      BY <2>2, <3>4, HandlerBegun
    <3>. QED BY <3>1, <3>2, <3>3, <3>4
  <2>. QED BY <2>1, <2>2, WhoMoves
<1>. QED BY <1>1 DEF HandlerOK, Shape, Progress

\* From q to p in one step of a handler that goes on.
Arc(q, p) ==
  /\ p.op = q.op /\ p.user = q.user /\ p.tok = q.tok
  /\ \/ /\ q.pc \in {"version", "setversion"} /\ p.pc = "count"
        /\ p.new \in Fresh /\ p.victim = q.victim
     \/ /\ q.pc = "oldest" /\ p.pc = "evict"
        /\ p.new = q.new /\ p.victim \in Live(q.user)
     \/ /\ p.new = q.new /\ p.victim = q.victim
        /\ \/ q.pc = "version" /\ p.pc = "setversion" /\ version[q.user] = 0
           \/ q.pc = "count" /\ p.pc = "oldest"
           \/ /\ q.pc = "count" /\ p.pc = "insert"
              /\ ~(Cardinality(Live(q.user)) >= SessionLimit)
           \/ q.pc = "evict" /\ p.pc = "insert"
           \/ q.pc = "insert" /\ p.pc = "commit"
           \/ q.pc = "select" /\ p.pc = "revoke" /\ row[q.tok] = "live"
           \/ q.pc = "revoke" /\ p.pc = "version"
           \/ p.pc \in {"failed", "deny", "select", "authversion", "find",
                        "snapshot", "sweep", "bump"}

\* A refresh that turns into an expiry, or a logout of one session that turns
\* into a logout.
Switch(q, p) ==
  p.op \notin Creators /\ p.pc = "select" /\ p.new = q.new /\ p.victim = q.victim

\* How a step of a handler changes its own state: it ends, goes on along its
\* own path, or turns into another kind of request.
LEMMA StepArc ==
  ASSUME IInv, NEW r \in Requests, Step(r)
  PROVE  \/ req'[r] = Idle
         \/ Arc(req[r], req'[r])
         \/ Switch(req[r], req'[r])
<1> DEFINE q == req[r]
           Goal == \/ req'[r] = Idle
                   \/ Arc(req[r], req'[r])
                   \/ Switch(req[r], req'[r])
<1>0. q \in RequestState /\ TypeOK
  BY RequestFacts DEF IInv
<1>f. Finish(r) \/ Reject(r) => Goal
  BY <1>0, FinishAlone
<1>g. ASSUME NEW l, Goto(r, l)
      PROVE  /\ req'[r].pc = l /\ req'[r].op = q.op /\ req'[r].user = q.user
             /\ req'[r].tok = q.tok /\ req'[r].new = q.new
             /\ req'[r].victim = q.victim
  BY <1>0, <1>g, GotoFields
<1>m. ASSUME NEW v \in Nat, Mint(r, v), q.pc \in {"version", "setversion"}
      PROVE  Goal
  <2>1. PICK t \in Fresh : Move(r, [q EXCEPT !.pc = "count", !.new = t])
    BY <1>m, MintEffect
  <2>2. req'[r] = [q EXCEPT !.pc = "count", !.new = t]
    BY <1>0, <2>1, MoveAlone
  <2>3. /\ req'[r].pc = "count" /\ req'[r].op = q.op /\ req'[r].user = q.user
        /\ req'[r].tok = q.tok /\ req'[r].new = t /\ req'[r].victim = q.victim
    BY <1>0, <2>2 DEF RequestState
  <2>. QED BY <1>m, <2>3 DEF Arc
<1>1. CASE ReadVersion(r)
  <2>1. version[q.user] \in Nat
    BY <1>0, <1>1, FieldTypes DEF ReadVersion, TypeOK
  <2>2. CASE q.pc = "version" /\ version[q.user] = 0 /\ Goto(r, "setversion")
    BY <1>g, <2>2 DEF Arc
  <2>. QED BY <1>m, <1>1, <2>1, <2>2 DEF ReadVersion
<1>2. CASE SetVersion(r)
  BY <1>m, <1>2 DEF SetVersion
<1>3. CASE Count(r)
  BY <1>g, <1>3 DEF Count, Arc
<1>4. CASE SelectOldest(r)
  <2>1. ASSUME NEW t \in OldestOf(Live(q.user)),
               Move(r, [q EXCEPT !.pc = "evict", !.victim = t])
        PROVE  Goal
    <3>1. req'[r] = [q EXCEPT !.pc = "evict", !.victim = t]
      BY <1>0, <2>1, MoveAlone
    <3>2. /\ req'[r].pc = "evict" /\ req'[r].op = q.op /\ req'[r].user = q.user
          /\ req'[r].tok = q.tok /\ req'[r].new = q.new /\ req'[r].victim = t
      BY <1>0, <3>1 DEF RequestState
    <3>. QED BY <1>4, <3>2 DEF SelectOldest, OldestOf, Arc
  <2>2. CASE Goto(r, "failed")
    BY <1>g, <2>2 DEF Arc
  <2>. QED BY <1>4, <2>1, <2>2 DEF SelectOldest
<1>5. CASE Evict(r) \/ Insert(r) \/ Sweep(r)
  BY <1>g, <1>5 DEF Evict, Insert, Sweep, Arc
<1>6. CASE Commit(r) \/ Failed(r) \/ Bump(r)
  BY <1>f, <1>6 DEF Commit, Failed, Bump
<1>7. CASE Deny(r)
  <2>1. CASE Goto(r, "select")
    BY <1>g, <2>1 DEF Arc
  <2>. QED BY <1>f, <1>7, <2>1 DEF Deny
<1>8. CASE RevokeSelect(r)
  <2>1. CASE q.pc = "select" /\ row[q.tok] = "live" /\ Goto(r, "revoke")
    BY <1>g, <2>1 DEF Arc
  <2>. QED BY <1>f, <1>8, <2>1 DEF RevokeSelect
<1>9. CASE Auth(r) \/ AuthVersion(r)
  <2>1. ASSUME NEW l \in {"authversion", "select", "snapshot", "find"}, Goto(r, l)
        PROVE  Goal
    BY <1>g, <2>1 DEF Arc
  <2>. QED BY <1>f, <1>9, <2>1 DEF Auth, AuthVersion
<1>10. CASE RefreshLoad(r)
  <2>1. CASE Move(r, [q EXCEPT !.op = "expire", !.pc = "select"])
    <3>1. req'[r] = [q EXCEPT !.op = "expire", !.pc = "select"]
      BY <1>0, <2>1, MoveAlone
    <3>2. /\ req'[r].pc = "select" /\ req'[r].op = "expire"
          /\ req'[r].new = q.new /\ req'[r].victim = q.victim
      BY <1>0, <3>1 DEF RequestState
    <3>. QED BY <3>2 DEF Switch, Creators
  <2>2. CASE Goto(r, "deny")
    BY <1>g, <2>2 DEF Arc
  <2>. QED BY <1>f, <1>10, <2>1, <2>2 DEF RefreshLoad
<1>11. CASE Revoke(r)
  <2>1. CASE Move(r, [q EXCEPT !.pc = "version", !.began = now])
    <3>1. req'[r] = [q EXCEPT !.pc = "version", !.began = now]
      BY <1>0, <2>1, MoveAlone
    <3>2. /\ req'[r].pc = "version" /\ req'[r].op = q.op /\ req'[r].user = q.user
          /\ req'[r].tok = q.tok /\ req'[r].new = q.new
          /\ req'[r].victim = q.victim
      BY <1>0, <3>1 DEF RequestState
    <3>. QED BY <1>11, <3>2 DEF Revoke, Arc
  <2>2. CASE Goto(r, "deny")
    BY <1>g, <2>2 DEF Arc
  <2>. QED BY <1>f, <1>11, <2>1, <2>2 DEF Revoke
<1>12. CASE Find(r)
  <2>1. ASSUME NEW o \in {"logout", "logout_specific"},
               Move(r, [q EXCEPT !.pc = "select", !.op = o])
        PROVE  Goal
    <3>1. req'[r] = [q EXCEPT !.pc = "select", !.op = o]
      BY <1>0, <2>1, MoveAlone
    <3>2. /\ req'[r].pc = "select" /\ req'[r].op = o
          /\ req'[r].new = q.new /\ req'[r].victim = q.victim
      BY <1>0, <3>1 DEF RequestState
    <3>. QED BY <3>2 DEF Switch, Creators
  <2>. QED BY <1>f, <1>12, <2>1 DEF Find
<1>13. CASE Snapshot(r)
  <2>1. req'[r] = [q EXCEPT !.pc = "sweep", !.seen = Live(q.user)]
    BY <1>0, <1>13, MoveAlone DEF Snapshot
  <2>2. /\ req'[r].pc = "sweep" /\ req'[r].op = q.op /\ req'[r].user = q.user
        /\ req'[r].tok = q.tok /\ req'[r].new = q.new
        /\ req'[r].victim = q.victim
    BY <1>0, <2>1 DEF RequestState
  <2>. QED BY <2>2 DEF Arc
<1>. QED
  BY <1>1, <1>2, <1>3, <1>4, <1>5, <1>6, <1>7, <1>8, <1>9, <1>10, <1>11,
     <1>12, <1>13 DEF Step

\* The only token that a step adds to a handler is a fresh one.
LEMMA NewTokenFresh ==
  ASSUME IInv, NEW r \in Requests, Step(r)
  PROVE  req'[r].new \in {None, req[r].new} \cup Fresh
BY StepArc DEF Arc, Switch, Idle

\* Two handlers never come to hold the same new token (uuid4).
LEMMA OwnTokenStep ==
  ASSUME IInv, [Next]_vars
  PROVE  OwnToken'
<1>1. ASSUME NEW r \in Requests, req[r].new # None
      PROVE  req[r].new \notin Fresh
  BY <1>1, RequestFacts, NewMinted DEF HandlerOK, CreatorShape, Minted, Fresh
<1>2. ASSUME NEW r \in Requests, OthersStay(r),
             req'[r].new \in {None, req[r].new} \cup Fresh
      PROVE  OwnToken'
  <2>1. ASSUME NEW x \in Requests, x # r, req'[r].new # None
        PROVE  req'[r].new # req'[x].new
    BY <1>1, <1>2, <2>1 DEF OthersStay, IInv, OwnToken
  <2>2. ASSUME NEW x \in Requests, NEW y \in Requests, x # y,
               req'[x].new # None
        PROVE  req'[x].new # req'[y].new
    BY <1>2, <2>1, <2>2 DEF OthersStay, IInv, OwnToken
  <2>. QED BY <2>2 DEF OwnToken
<1>3. ASSUME NEW r \in Requests, Abort(r) PROVE req'[r].new = None
  BY <1>3, FinishAlone DEF Abort, IInv, Idle
<1>4. CASE req' = req
  BY <1>4 DEF IInv, OwnToken
<1>. QED
  BY <1>2, <1>3, <1>4, WhoMoves, OneMoves, NewTokenFresh, HandlerBegun DEF IInv

-----------------------------------------------------------------------------
(* The theorems *)

\* The empty table, no tokens and no requests: the invariant holds.
LEMMA InitIInv == Init => IInv
BY NoneAssumption, TimeAssumption, VersionAssumption, IdleType
  DEF Init, IInv, TypeOK, TokenInfo, RowStates, ExpBounded, KnownTokens, Shape,
    OwnToken, Progress, ParentsRetired, ClosedRetired, Minted, Blank,
    CreatorShape, RevokerShape, DoneTo, Idle, HasRotated, HasNew, Creators

\* Every step keeps the inductive invariant.
LEMMA NextIInv == IInv /\ [Next]_vars => IInv'
BY TypeStep, ExpStep, KnownStep, HandlersStep, OwnTokenStep, ParentsStep,
  ClosedStep DEF IInv

\* IInv is an invariant of the session core.
THEOREM Invariant == Spec => []IInv
BY InitIInv, NextIInv, PTL DEF Spec

\* The state always has the types its declaration promises.
THEOREM TypeCorrect == Spec => []TypeOK
BY Invariant, PTL DEF IInv

\* What is revoked and blacklisted until it expires is neither refreshed nor
\* let through by get_current_user_email.
LEMMA RetiredRefused ==
  ASSUME TypeOK, NEW t \in Tokens, Retired(t)
  PROVE  row[t] = "revoked" /\ ~Accepted(t)
BY DEF TypeOK, TokenInfo, Retired, Accepted, AccessUsable

\* A refreshed token and its access token are dead from the moment the new one
\* is made, for any number of requests, crashes and clock values.
THEOREM RotationSafe == Spec => []RotationRetiresParent
<1>1. IInv => RotationRetiresParent
  <2>1. ASSUME IInv, NEW t \in Tokens, tok[t].parent # None
        PROVE  row[tok[t].parent] = "revoked" /\ ~Accepted(tok[t].parent)
    <3>1. tok[t].parent \in Tokens /\ Retired(tok[t].parent)
      BY <2>1 DEF IInv, ParentsRetired, TypeOK, TokenInfo
    <3>. QED BY <2>1, <3>1, RetiredRefused DEF IInv
  <2>. QED BY <2>1 DEF RotationRetiresParent
<1>. QED BY <1>1, Invariant, PTL

\* A session whose logout was answered stays logged out.
THEOREM LogoutSafe == Spec => []LogoutIsFinal
<1>1. IInv => LogoutIsFinal
  BY RetiredRefused DEF IInv, ClosedRetired, LogoutIsFinal, TypeOK
<1>. QED BY <1>1, Invariant, PTL

-----------------------------------------------------------------------------
(* One creator at a time: the session limit and the single successor *)

\* A step makes a handler a creator only when it starts it, and a start while
\* another creator of the user runs is recorded.
LEMMA CreatorBefore ==
  ASSUME IInv, [Next]_vars, NEW r \in Requests, NEW u \in Users \ overlapped',
         Creating(r, u)'
  PROVE  \/ /\ Creating(r, u)
            /\ req'[r] = req[r] \/ (Step(r) /\ Arc(req[r], req'[r]))
         \/ /\ \A q \in Requests : ~Creating(q, u)
            /\ OthersStay(r) /\ UNCHANGED <<row, tok>>
            /\ \/ req'[r].pc = "load"
               \/ req'[r].pc = "version" /\ req'[r].op # "refresh"
<1>0. TypeOK
  BY DEF IInv
<1>1. CASE req'[r] = req[r]
  <2>1. Creating(r, u)
    BY <1>1 DEF Creating, Creators
  <2>. QED BY <1>1, <2>1
<1>2. CASE Step(r)
  <2>1. req'[r] # Idle /\ ~Switch(req[r], req'[r])
    BY DEF Creating, Switch, Idle, Creators
  <2>2. Arc(req[r], req'[r])
    BY <1>2, <2>1, StepArc
  <2>. QED BY <1>2, <2>2 DEF Arc, Creating
<1>3. CASE Abort(r)
  BY <1>0, <1>3, FinishAlone DEF Abort, Creating, Idle, Creators
<1>4. ASSUME NEW x \in Users, LoginBegin(r, x) \/ OAuthBegin(r, x)
      PROVE  /\ \A q \in Requests : ~Creating(q, u)
             /\ OthersStay(r) /\ req'[r].pc = "version" /\ UNCHANGED <<row, tok>>
             /\ req'[r].op # "refresh"
  <2>1. /\ OthersStay(r) /\ req'[r].pc = "version" /\ req'[r].user = x
        /\ req'[r].op # "refresh"
    BY <1>0, <1>4, LoginBegun
  <2>2. /\ overlapped' = IF \E q \in Requests : Creating(q, x)
                         THEN overlapped \cup {x} ELSE overlapped
        /\ UNCHANGED <<row, tok>>
    BY <1>4 DEF LoginBegin, OAuthBegin, BeginCreator
  <2>. QED BY <2>1, <2>2 DEF Creating
<1>5. ASSUME NEW t \in Tokens, RefreshBegin(r, t)
      PROVE  /\ \A q \in Requests : ~Creating(q, u)
             /\ OthersStay(r) /\ req'[r].pc = "load" /\ UNCHANGED <<row, tok>>
  <2>1. OthersStay(r) /\ req'[r].pc = "load" /\ req'[r].user = tok[t].user
    BY <1>0, <1>5, RefreshBegun
  <2>2. /\ overlapped' = IF \E q \in Requests : Creating(q, tok[t].user)
                         THEN overlapped \cup {tok[t].user} ELSE overlapped
        /\ UNCHANGED <<row, tok>>
    BY <1>5 DEF RefreshBegin, BeginCreator
  <2>. QED BY <2>1, <2>2 DEF Creating
<1>6. ASSUME NEW t \in Tokens, NEW s \in Tokens,
             NEW op \in {"logout", "logout_all", "logout_specific"},
             LogoutBegin(r, op, t, s)
      PROVE  FALSE
  BY <1>0, <1>6, LogoutBegun DEF Creating, Creators
<1>7. CASE \E x \in Requests : x # r /\ OthersStay(x)
  BY <1>1, <1>7 DEF OthersStay
<1>. QED
  BY <1>0, <1>1, <1>2, <1>3, <1>4, <1>5, <1>6, <1>7, WhoMoves, OneMoves

\* The record of overlapping users only grows.
LEMMA OverlappedGrows ==
  ASSUME [Next]_vars
  PROVE  overlapped \subseteq overlapped'
<1>1. ASSUME NEW r \in Requests, \/ ReadVersion(r) \/ SetVersion(r) \/ Insert(r)
                                 \/ Commit(r) \/ Revoke(r) \/ Sweep(r)
      PROVE  overlapped' = overlapped
  BY <1>1 DEF ReadVersion, SetVersion, Insert, Commit, Revoke, Sweep, history
<1>2. ASSUME NEW r \in Requests, Deny(r) \/ Bump(r) PROVE overlapped' = overlapped
  BY <1>2 DEF Deny, Bump
<1>3. Tick => overlapped' = overlapped
  BY DEF Tick, history
<1>. QED BY <1>1, <1>2, <1>3, KindsOfStep DEF history

\* A user without a recorded overlap has one login, OAuth login or refresh
\* in flight at most.
LEMMA AloneStep ==
  ASSUME IInv, AloneUnlessOverlapped, [Next]_vars
  PROVE  AloneUnlessOverlapped'
<1>1. ASSUME NEW u \in Users \ overlapped', NEW r1 \in Requests, NEW r2 \in Requests,
             Creating(r1, u)', Creating(r2, u)', r1 # r2
      PROVE  FALSE
  <2>1. u \in Users \ overlapped
    BY OverlappedGrows
  <2>2. CASE Creating(r1, u) /\ Creating(r2, u)
    BY <1>1, <2>1, <2>2 DEF AloneUnlessOverlapped
  <2>3. CASE ~Creating(r1, u)
    <3>1. OthersStay(r1) /\ ~Creating(r2, u)
      BY <1>1, <2>3, CreatorBefore
    <3>. QED BY <1>1, <3>1 DEF OthersStay, Creating
  <2>4. CASE ~Creating(r2, u)
    <3>1. OthersStay(r2) /\ ~Creating(r1, u)
      BY <1>1, <2>4, CreatorBefore
    <3>. QED BY <1>1, <3>1 DEF OthersStay, Creating
  <2>. QED BY <2>2, <2>3, <2>4
<1>. QED BY <1>1 DEF AloneUnlessOverlapped

\* The user's live rows grow only by the token of the creator that commits.
LEMMA LiveStep ==
  ASSUME IInv, [Next]_vars, NEW u \in Users
  PROVE  \/ Live(u)' \subseteq Live(u)
         \/ \E r \in Requests :
              /\ Commit(r) /\ Creating(r, u)
              /\ Live(u)' \subseteq (Live(u) \ {req[r].victim}) \cup {req[r].new}
<1>1. ASSUME NEW t \in Tokens, row'[t] = "live", tok'[t].user = u, row[t] = "live"
      PROVE  t \in Live(u)
  BY <1>1, TokKept DEF Live, IInv, KnownTokens
<1>2. ASSUME NEW r \in Requests, Commit(r)
      PROVE  \/ Live(u)' \subseteq Live(u)
             \/ /\ Creating(r, u)
                /\ Live(u)' \subseteq (Live(u) \ {req[r].victim}) \cup {req[r].new}
  <2>1. /\ req[r].op \in Creators /\ req[r].new \in Tokens
        /\ tok[req[r].new].user = req[r].user /\ Minted(req[r].new)
    BY <1>2, RequestFacts, NewMinted
      DEF Commit, HandlerOK, CreatorShape, HasRotated, HasNew
  <2>2. \A t \in Tokens : row'[t] = "live" =>
          t = req[r].new \/ (row[t] = "live" /\ t # req[r].victim)
    BY <1>2 DEF Commit
  <2>3. CASE req[r].user = u
    BY <1>1, <2>1, <2>2, <2>3 DEF Live, Creating
  <2>4. CASE req[r].user # u
    <3>1. tok'[req[r].new].user # u
      BY <2>1, <2>4, TokKept
    <3>. QED BY <1>1, <2>2, <3>1 DEF Live
  <2>. QED BY <2>3, <2>4
<1>3. ASSUME \A t \in Tokens : row'[t] = "live" => row[t] = "live"
      PROVE  Live(u)' \subseteq Live(u)
  BY <1>1, <1>3 DEF Live
<1>4. ASSUME NEW r \in Requests, Revoke(r) \/ Sweep(r)
      PROVE  \A t \in Tokens : row'[t] = "live" => row[t] = "live"
  BY <1>4 DEF Revoke, Sweep, IInv, TypeOK
<1>. QED BY <1>2, <1>3, <1>4, Changes

\* The sessions of a user can be counted.
LEMMA LiveFinite ==
  ASSUME NEW u
  PROVE  IsFiniteSet(Live(u)) /\ Cardinality(Live(u)) \in Nat
<1>1. Live(u) \subseteq Tokens
  BY DEF Live
<1>. QED BY <1>1, FiniteAssumption, FS_Subset, FS_CardinalityType

\* Without overlaps no commit takes a user over the limit: the room that was
\* checked before the insert is still there.
LEMMA CapStep ==
  ASSUME IInv, SessionCap, RoomLeft, [Next]_vars
  PROVE  SessionCap'
<1>1. ASSUME NEW u \in Users \ overlapped'
      PROVE  Cardinality(Live(u)') <= SessionLimit
  <2>0. u \in Users \ overlapped /\ Cardinality(Live(u)) <= SessionLimit
    BY OverlappedGrows DEF SessionCap
  <2>1. CASE Live(u)' \subseteq Live(u)
    <3>1. Cardinality(Live(u)') \in Nat /\ Cardinality(Live(u)') <= Cardinality(Live(u))
      BY <2>1, LiveFinite, FS_Subset, FS_CardinalityType
    <3>. QED BY <2>0, <3>1, LiveFinite, LimitAssumption
  <2>2. ASSUME NEW r \in Requests, Commit(r), Creating(r, u),
               Live(u)' \subseteq (Live(u) \ {req[r].victim}) \cup {req[r].new}
        PROVE  Cardinality(Live(u)') <= SessionLimit
    <3> DEFINE rest == Live(u) \ {req[r].victim}
               room == rest \cup {req[r].new}
    <3>1. IsFiniteSet(rest) /\ Cardinality(rest) \in Nat
      BY LiveFinite, FS_Subset, FS_CardinalityType
    <3>2. Cardinality(rest) < SessionLimit
      BY <2>0, <2>2 DEF RoomLeft, Commit
    <3>3. IsFiniteSet(room) /\ Cardinality(room) <= Cardinality(rest) + 1
      <4>1. Cardinality(room) \in {Cardinality(rest), Cardinality(rest) + 1}
        BY <3>1, FS_AddElement
      <4>. QED BY <3>1, <4>1, FS_AddElement
    <3>4. /\ Cardinality(room) \in Nat /\ Cardinality(Live(u)') \in Nat
          /\ Cardinality(Live(u)') <= Cardinality(room)
      BY <2>2, <3>3, FS_Subset, FS_CardinalityType
    <3>. QED BY <3>1, <3>2, <3>3, <3>4, LimitAssumption
  <2>. QED BY <2>1, <2>2, LiveStep
<1>. QED BY <1>1 DEF SessionCap

\* Without overlaps, what makes room for a new session (a count below the
\* limit, or the victim) lasts until the commit.
LEMMA RoomStep ==
  ASSUME IInv, AloneUnlessOverlapped, SessionCap, RoomLeft, [Next]_vars
  PROVE  RoomLeft'
<1>1. ASSUME NEW u \in Users \ overlapped', NEW r \in Requests, Creating(r, u)',
             req'[r].pc \in {"evict", "insert", "commit"}
      PROVE  Cardinality(Live(u)' \ {req'[r].victim}) < SessionLimit
  <2>0. u \in Users \ overlapped /\ Cardinality(Live(u)) <= SessionLimit
    BY OverlappedGrows DEF SessionCap
  <2>1. /\ Creating(r, u)
        /\ req'[r] = req[r] \/ (Step(r) /\ Arc(req[r], req'[r]))
    BY <1>1, CreatorBefore
  <2>2. Live(u)' \subseteq Live(u)
    <3>1. ASSUME NEW x \in Requests, Commit(x), Creating(x, u) PROVE FALSE
      <4>1. x = r
        BY <2>0, <2>1, <3>1 DEF AloneUnlessOverlapped
      <4>2. req'[x].pc = "idle"
        BY <3>1, FinishAlone DEF Commit, IInv, Idle
      <4>. QED BY <1>1, <4>1, <4>2
    <3>. QED BY <3>1, LiveStep
  <2>3. Cardinality(Live(u) \ {req'[r].victim}) < SessionLimit
    <3>1. CASE /\ req[r].pc \in {"evict", "insert", "commit"}
               /\ req'[r].victim = req[r].victim
      BY <2>0, <2>1, <3>1 DEF RoomLeft
    <3>2. CASE req'[r].victim \in Live(u)
      <4>1. Cardinality(Live(u) \ {req'[r].victim}) = Cardinality(Live(u)) - 1
        BY <3>2, LiveFinite, FS_RemoveElement
      <4>. QED BY <2>0, <4>1, LiveFinite, LimitAssumption
    <3>3. CASE ~(Cardinality(Live(u)) >= SessionLimit)
      <4>1. /\ Cardinality(Live(u) \ {req'[r].victim}) \in Nat
            /\ Cardinality(Live(u) \ {req'[r].victim}) <= Cardinality(Live(u))
        BY LiveFinite, FS_Subset, FS_CardinalityType
      <4>. QED BY <3>3, <4>1, LiveFinite, LimitAssumption
    <3>4. CASE req'[r] = req[r]
      BY <1>1, <3>1, <3>4
    <3>5. CASE Arc(req[r], req'[r])
      BY <1>1, <2>1, <3>1, <3>2, <3>3, <3>5 DEF Arc, Creating
    <3>. QED BY <2>1, <3>4, <3>5
  <2>4. /\ Cardinality(Live(u)' \ {req'[r].victim}) \in Nat
        /\ Cardinality(Live(u) \ {req'[r].victim}) \in Nat
        /\ Cardinality(Live(u)' \ {req'[r].victim})
             <= Cardinality(Live(u) \ {req'[r].victim})
    <3>1. IsFiniteSet(Live(u) \ {req'[r].victim})
      BY LiveFinite, FS_Subset
    <3>. QED BY <2>2, <3>1, FS_Subset, FS_CardinalityType
  <2>. QED BY <2>3, <2>4, LimitAssumption
<1>. QED BY <1>1 DEF RoomLeft

\* Where the child of a token comes from.
LEMMA NewChild ==
  ASSUME IInv, ChildOfSameUser, [Next]_vars, NEW t \in Tokens,
         NEW p, p = tok'[t].parent, p # None
  PROVE  /\ p \in Tokens
         /\ \/ tok[t].parent = p /\ tok'[t].user = tok[t].user /\ t \notin Fresh
            \/ \E r \in Requests :
                 /\ req[r].op = "refresh" /\ req[r].tok = p
                 /\ req[r].pc \in {"version", "setversion"}
                 /\ req[r].user = tok[p].user /\ tok'[t].user = tok[p].user
                 /\ t \in Fresh /\ \E v \in Nat : Mint(r, v)
<1>1. CASE tok[t].parent # None
  <2>1. tok[t].parent \in Tokens /\ Minted(tok[t].parent)
    BY <1>1 DEF IInv, ParentsRetired, Retired, TypeOK, TokenInfo
  <2>2. Minted(t)
    BY <1>1, <2>1 DEF ChildOfSameUser, Minted
  <2>. QED BY <2>1, <2>2, TokKept DEF Minted, Fresh
<1>2. CASE tok[t].parent = None
  <2>1. ~Minted(t)
    BY <1>2, TokKept
  <2>2. PICK r \in Requests :
          /\ req[r].pc \in {"version", "setversion"}
          /\ tok'[t].user = req[r].user /\ tok'[t].parent = req[r].tok
          /\ \E v \in Nat : Mint(r, v)
    BY <1>2, <2>1, NewInfo
  <2>3. /\ req[r].op = "refresh" /\ req[r].tok \in Tokens
        /\ req[r].user = tok[req[r].tok].user
    BY <2>2, RequestFacts DEF HandlerOK, CreatorShape, HasRotated, Creators
  <2>. QED BY <2>1, <2>2, <2>3 DEF Fresh, Minted
<1>. QED BY <1>1, <1>2

\* A refresh creates a token for the owner of the one it replaces.
LEMMA SameUserStep ==
  ASSUME IInv, ChildOfSameUser, [Next]_vars
  PROVE  ChildOfSameUser'
<1>1. ASSUME NEW t \in Tokens, NEW p, p = tok'[t].parent, p # None
      PROVE  tok'[t].user = tok'[p].user
  <2>1. p \in Tokens /\ tok'[t].user = tok[p].user
    BY <1>1, NewChild DEF ChildOfSameUser
  <2>2. Minted(p)
    <3>1. CASE tok[t].parent = p
      BY <1>1, <3>1 DEF IInv, ParentsRetired, Retired
    <3>2. ASSUME NEW r \in Requests, req[r].op = "refresh", req[r].tok = p
          PROVE  Minted(p)
      BY <3>2, DataKept
    <3>. QED BY <1>1, <3>1, <3>2, NewChild
  <2>. QED BY <2>1, <2>2, TokKept
<1>. QED BY <1>1 DEF ChildOfSameUser

\* Without overlaps, a refresh that found its token live has no predecessor:
\* the first refresh revokes the row before it creates a token.
LEMMA FirstChildStep ==
  ASSUME IInv, OInv, [Next]_vars
  PROVE  FirstChild'
<1>0. TypeOK /\ ChildOfSameUser /\ AloneUnlessOverlapped
  BY DEF IInv, OInv
<1>1. ASSUME NEW r \in Requests, req'[r].op = "refresh",
             req'[r].pc \in {"revoke", "version", "setversion"},
             NEW u, u = req'[r].user, u \notin overlapped',
             NEW t \in Tokens, tok'[t].parent = req'[r].tok
      PROVE  FALSE
  <2>1. HandlerOK(req[r])' /\ u \in Users
    BY <1>1, HandlersStep DEF HandlerOK, Shape, Progress, CreatorShape, Creators
  <2>2. u \in Users \ overlapped' /\ u \in Users \ overlapped /\ Creating(r, u)'
    BY <1>1, <2>1, OverlappedGrows DEF Creating, Creators
  <2>3. CASE /\ Creating(r, u)
             /\ req'[r] = req[r] \/ (Step(r) /\ Arc(req[r], req'[r]))
    <3>1. req[r].op = "refresh" /\ req[r].tok = req'[r].tok /\ req[r].user = u
      BY <1>1, <2>3 DEF Arc
    <3>2. \A x \in Tokens : tok[x].parent # req[r].tok
      <4>1. CASE req[r].pc \in {"revoke", "version", "setversion"}
        BY <2>2, <3>1, <4>1 DEF OInv, FirstChild
      <4>2. CASE req[r].pc = "select" /\ row[req[r].tok] = "live"
        <5>1. req[r].tok # None
          BY <3>1, RequestFacts, NoneAssumption DEF HandlerOK, CreatorShape
        <5>. QED BY <4>2, <5>1 DEF IInv, ParentsRetired, Retired
      <4>. QED BY <1>1, <2>3, <4>1, <4>2 DEF Arc
    <3>3. req'[r].tok # None
      BY <3>1, RequestFacts, NoneAssumption DEF HandlerOK, CreatorShape
    <3>4. PICK x \in Requests :
            /\ req[x].op = "refresh" /\ req[x].tok = req'[r].tok
            /\ req[x].user = tok[req'[r].tok].user
            /\ \E v \in Nat : Mint(x, v)
      BY <1>0, <1>1, <3>1, <3>2, <3>3, NewChild
    <3>5. req[x].user = u
      BY <3>1, <3>4, RequestFacts DEF HandlerOK, CreatorShape
    <3>6. x = r
      BY <1>0, <2>2, <2>3, <3>4, <3>5 DEF AloneUnlessOverlapped, Creating, Creators
    <3>7. req'[r].pc = "count"
      <4>1. PICK y : Move(r, [req[r] EXCEPT !.pc = "count", !.new = y])
        BY <3>4, <3>6 DEF Mint
      <4>2. req'[r] = [req[r] EXCEPT !.pc = "count", !.new = y]
        BY <1>0, <4>1, MoveAlone
      <4>. QED BY <4>2, RequestFacts DEF RequestState
    <3>. QED BY <1>1, <3>7
  <2>. QED BY <1>1, <2>2, <2>3, CreatorBefore
<1>. QED BY <1>1 DEF FirstChild

\* Without overlaps, no step gives a token a second child.
LEMMA NoForkStep ==
  ASSUME IInv, OInv, [Next]_vars
  PROVE  NoFork'
<1>0. TypeOK /\ ChildOfSameUser /\ NoFork /\ FirstChild /\ overlapped \subseteq overlapped'
  BY OverlappedGrows DEF IInv, OInv
<1>1. ASSUME NEW t1 \in Tokens, NEW t2 \in Tokens, NEW p, p # None,
             p = tok'[t1].parent, p = tok'[t2].parent,
             tok'[t1].user \notin overlapped'
      PROVE  t1 = t2
  <2> DEFINE Old(t) == /\ tok[t].parent = p /\ tok'[t].user = tok[t].user
                       /\ t \notin Fresh
             New(t, r) == /\ req[r].op = "refresh" /\ req[r].tok = p
                          /\ req[r].pc \in {"version", "setversion"}
                          /\ req[r].user = tok[p].user
                          /\ tok'[t].user = tok[p].user
                          /\ t \in Fresh /\ \E v \in Nat : Mint(r, v)
  <2>1. /\ p \in Tokens
        /\ Old(t1) \/ \E r \in Requests : New(t1, r)
        /\ Old(t2) \/ \E r \in Requests : New(t2, r)
    <3>1. ASSUME NEW t \in Tokens, tok'[t].parent = p
          PROVE  p \in Tokens /\ (Old(t) \/ \E r \in Requests : New(t, r))
      BY <1>0, <1>1, <3>1, NewChild
    <3>. QED BY <1>1, <3>1
  <2>2. CASE Old(t1) /\ Old(t2)
    BY <1>0, <1>1, <2>2 DEF NoFork
  <2>3. ASSUME NEW t \in {t1, t2}, NEW s \in {t1, t2}, Old(t),
               NEW r \in Requests, New(s, r)
        PROVE  FALSE
    <3>1. tok'[s].user = tok'[t1].user
      <4>1. tok'[t].user = tok[p].user
        BY <1>0, <1>1, <2>3 DEF ChildOfSameUser
      <4>. QED BY <2>3, <4>1
    <3>2. req[r].user \notin overlapped
      BY <1>0, <1>1, <2>3, <3>1
    <3>. QED BY <1>0, <2>3, <3>2 DEF FirstChild
  <2>4. ASSUME NEW r1 \in Requests, NEW r2 \in Requests, New(t1, r1), New(t2, r2)
        PROVE  t1 = t2
    <3>1. PICK f \in Fresh : \A x \in Tokens \ {f} : tok'[x] = tok[x]
      BY <2>4, MintEffect
    <3>2. req[r1].user # None
      BY <2>4, RequestFacts, NoneAssumption DEF HandlerOK, CreatorShape, Creators
    <3>3. \A t \in {t1, t2} : tok'[t] # tok[t]
      BY <2>4, <3>2 DEF Fresh
    <3>. QED BY <3>1, <3>3
  <2>. QED BY <2>1, <2>2, <2>3, <2>4
<1>. QED BY <1>1 DEF NoFork

\* Every step keeps the invariant of the users without overlaps.
LEMMA NextOInv ==
  ASSUME IInv, OInv, [Next]_vars
  PROVE  OInv'
<1>1. /\ AloneUnlessOverlapped /\ SessionCap /\ RoomLeft /\ ChildOfSameUser
  BY DEF OInv
<1>2. AloneUnlessOverlapped'
  BY <1>1, AloneStep
<1>3. SessionCap' /\ RoomLeft'
  BY <1>1, CapStep, RoomStep
<1>4. FirstChild' /\ ChildOfSameUser' /\ NoFork'
  BY <1>1, FirstChildStep, SameUserStep, NoForkStep
<1>. QED BY <1>2, <1>3, <1>4 DEF OInv

\* With no session and no request there is room for everybody.
LEMMA InitOInv == Init => OInv
<1>. SUFFICES ASSUME Init PROVE OInv
  OBVIOUS
<1>1. \A u \in Users : Live(u) = {}
  BY DEF Init, Live
<1>2. SessionCap
  BY <1>1, FS_EmptySet, LimitAssumption DEF SessionCap
<1>3. AloneUnlessOverlapped /\ RoomLeft /\ FirstChild
  BY DEF Init, Idle, AloneUnlessOverlapped, RoomLeft, FirstChild, Creating, Creators
<1>4. NoFork /\ ChildOfSameUser
  BY DEF Init, Blank, NoFork, ChildOfSameUser
<1>. QED BY <1>2, <1>3, <1>4 DEF OInv

\* The invariant of the users whose logins and refreshes never overlap.
THEOREM Alone == Spec => []OInv
<1>1. Init => OInv
  BY InitOInv
<1>2. IInv /\ OInv /\ [Next]_vars => OInv'
  BY NextOInv
<1>. QED BY <1>1, <1>2, Invariant, PTL DEF Spec

\* A user whose logins and refreshes never overlap never has more sessions
\* than the limit, whatever fails and whoever logs out meanwhile.
THEOREM SessionCapSafe == Spec => []SessionCap
<1>1. OInv => SessionCap
  BY DEF OInv
<1>. QED BY <1>1, Alone, PTL

-----------------------------------------------------------------------------
(* Logout of all devices *)

\* How a handler comes to end all sessions of a user: past both halves of the
\* check of the access token it was sent.
LEMMA LogoutArc ==
  ASSUME IInv, NEW r \in Requests, Step(r),
         req'[r].pc \in {"authversion", "snapshot", "sweep", "bump"}
  PROVE  /\ req'[r].user = req[r].user /\ req'[r].acc = req[r].acc
         /\ \/ req[r].pc = "auth" /\ req'[r].pc = "authversion"
            \/ /\ req[r].pc = "authversion" /\ req'[r].pc = "snapshot"
               /\ AccessCurrent(req[r].acc)
            \/ req[r].pc \in {"snapshot", "sweep"} /\ req'[r].pc \in {"sweep", "bump"}
<1> DEFINE q == req[r]
           W == {"authversion", "snapshot", "sweep", "bump"}
<1>0. q \in RequestState /\ TypeOK
  BY RequestFacts DEF IInv
<1>f. Finish(r) \/ Reject(r) => req'[r].pc \notin W
  BY <1>0, FinishAlone DEF Idle
<1>m. ASSUME NEW v \in Nat, Mint(r, v) PROVE req'[r].pc \notin W
  <2>1. PICK t \in Fresh : Move(r, [q EXCEPT !.pc = "count", !.new = t])
    BY <1>m, MintEffect
  <2>2. req'[r] = [q EXCEPT !.pc = "count", !.new = t]
    BY <1>0, <2>1, MoveAlone
  <2>. QED BY <1>0, <2>2 DEF RequestState
<1>1. CASE ReadVersion(r)
  <2>1. version[q.user] \in Nat
    BY <1>0, <1>1, FieldTypes DEF ReadVersion, TypeOK
  <2>. QED BY <1>0, <1>m, <1>1, <2>1, GotoFields DEF ReadVersion
<1>2. CASE SetVersion(r)
  BY <1>m, <1>2 DEF SetVersion
<1>3. CASE Count(r) \/ Evict(r) \/ Insert(r)
  BY <1>0, <1>3, GotoFields DEF Count, Evict, Insert
<1>4. CASE SelectOldest(r)
  <2>1. ASSUME NEW t, Move(r, [q EXCEPT !.pc = "evict", !.victim = t])
        PROVE  req'[r].pc \notin W
    <3>1. req'[r] = [q EXCEPT !.pc = "evict", !.victim = t]
      BY <1>0, <2>1, MoveAlone
    <3>. QED BY <1>0, <3>1 DEF RequestState
  <2>2. Goto(r, "failed") => req'[r].pc \notin W
    BY <1>0, GotoFields
  <2>. QED BY <1>4, <2>1, <2>2 DEF SelectOldest
<1>5. CASE Commit(r) \/ Failed(r) \/ Bump(r)
  BY <1>f, <1>5 DEF Commit, Failed, Bump
<1>6. CASE Deny(r) \/ RevokeSelect(r)
  BY <1>0, <1>f, <1>6, GotoFields DEF Deny, RevokeSelect
<1>7. CASE RefreshLoad(r) \/ Find(r) \/ Revoke(r)
  <2>1. ASSUME NEW o, Move(r, [q EXCEPT !.op = o, !.pc = "select"])
        PROVE  req'[r].pc \notin W
    <3>1. req'[r] = [q EXCEPT !.op = o, !.pc = "select"]
      BY <1>0, <2>1, MoveAlone
    <3>. QED BY <1>0, <3>1 DEF RequestState
  <2>2. CASE Move(r, [q EXCEPT !.pc = "version", !.began = now])
    <3>1. req'[r] = [q EXCEPT !.pc = "version", !.began = now]
      BY <1>0, <2>2, MoveAlone
    <3>. QED BY <1>0, <3>1 DEF RequestState
  <2>3. ASSUME NEW o, Move(r, [q EXCEPT !.pc = "select", !.op = o])
        PROVE  req'[r].pc \notin W
    <3>1. req'[r] = [q EXCEPT !.pc = "select", !.op = o]
      BY <1>0, <2>3, MoveAlone
    <3>. QED BY <1>0, <3>1 DEF RequestState
  <2>4. Goto(r, "deny") => req'[r].pc \notin W
    BY <1>0, GotoFields
  <2>5. req'[r].pc \notin W
    <3>1. CASE RefreshLoad(r)
      BY <1>f, <2>1, <2>4, <3>1 DEF RefreshLoad
    <3>2. CASE Find(r)
      BY <1>f, <2>3, <3>2 DEF Find
    <3>3. CASE Revoke(r)
      BY <1>f, <2>2, <2>4, <3>3 DEF Revoke
    <3>. QED BY <1>7, <3>1, <3>2, <3>3
  <2>. QED BY <2>5
<1>8. CASE Auth(r) \/ AuthVersion(r) \/ Sweep(r)
  BY <1>0, <1>f, <1>8, GotoFields DEF Auth, AuthVersion, Sweep
<1>9. CASE Snapshot(r)
  <2>1. req'[r] = [q EXCEPT !.pc = "sweep", !.seen = Live(q.user)]
    BY <1>0, <1>9, MoveAlone DEF Snapshot
  <2>. QED BY <1>0, <1>9, <2>1 DEF RequestState, Snapshot
<1>. QED
  BY <1>1, <1>2, <1>3, <1>4, <1>5, <1>6, <1>7, <1>8, <1>9 DEF Step

\* A handler that is at one of these awaits after a step was there before, or
\* came there by its own step, or has just started.
LEMMA CameBy ==
  ASSUME IInv, [Next]_vars, NEW r \in Requests,
         req'[r].pc \in {"setversion", "auth", "authversion", "snapshot", "sweep",
                         "bump"}
  PROVE  \/ req'[r] = req[r]
         \/ Step(r)
         \/ \E t \in issued : req'[r].pc = "auth" /\ req'[r].acc = t
                              /\ req'[r].user = tok[t].user
<1>0. TypeOK
  BY DEF IInv
<1>1. CASE req' = req \/ \E x \in Requests : x # r /\ OthersStay(x)
  BY <1>1 DEF OthersStay
<1>2. ~Abort(r)
  BY <1>0, FinishAlone DEF Abort, Idle
<1>3. ASSUME NEW u, LoginBegin(r, u) \/ OAuthBegin(r, u) PROVE FALSE
  BY <1>0, <1>3, LoginBegun
<1>4. ASSUME NEW t, RefreshBegin(r, t) PROVE FALSE
  BY <1>0, <1>4, RefreshBegun
<1>5. ASSUME NEW t, NEW s, NEW op, LogoutBegin(r, op, t, s)
      PROVE  /\ t \in issued /\ req'[r].pc = "auth" /\ req'[r].acc = t
             /\ req'[r].user = tok[t].user
  BY <1>0, <1>5, LogoutBegun DEF LogoutBegin
<1>. QED BY <1>0, <1>1, <1>2, <1>3, <1>4, <1>5, WhoMoves, OneMoves

\* Users whose version was set back are remembered.
LEMMA RewoundGrows ==
  ASSUME [Next]_vars
  PROVE  rewound \subseteq rewound'
BY Changes DEF SetVersion

\* A version key that is there stays, and only a login that found no key can
\* make it smaller: that user is remembered.
LEMMA VersionStep ==
  ASSUME IInv, [Next]_vars, NEW u \in Users
  PROVE  /\ version'[u] \in Nat
         /\ version[u] >= 1 => version'[u] >= 1
         /\ u \notin rewound' => version[u] <= version'[u]
<1>0. version[u] \in Nat
  BY DEF IInv, TypeOK
<1>1. ASSUME NEW r \in Requests, Bump(r)
      PROVE  version'[u] \in {version[u], version[u] + 1}
  BY <1>1 DEF Bump, IInv, TypeOK
<1>2. ASSUME NEW r \in Requests, SetVersion(r)
      PROVE  /\ version'[u] \in {version[u], 1}
             /\ version'[u] # version[u] /\ version[u] > 1 => u \in rewound'
  BY <1>2 DEF SetVersion, IInv, TypeOK
<1>. QED BY <1>0, <1>1, <1>2, Changes

\* An access token is created with the version its user has from then on.
LEMMA NewVersion ==
  ASSUME IInv, [Next]_vars, NEW t \in Tokens, ~Minted(t), Minted(t)'
  PROVE  tok'[t].user \in Users /\ tok'[t].version = version'[tok'[t].user]
<1>1. ASSUME NEW r \in Requests, NEW v \in Nat, Mint(r, v)
      PROVE  tok'[t].user = req[r].user /\ tok'[t].version = v
  <2>1. PICK x \in Fresh :
          /\ tok'[x] = [user |-> req[r].user, version |-> v,
                        exp |-> now + AccessTTL, till |-> 0,
                        created |-> req[r].began, parent |-> req[r].tok]
          /\ \A y \in Tokens \ {x} : tok'[y] = tok[y]
    BY <1>1, MintEffect
  <2>. QED BY <2>1 DEF Minted
<1>2. ASSUME NEW r \in Requests, ReadVersion(r)
      PROVE  tok'[t].user \in Users /\ tok'[t].version = version'[tok'[t].user]
  <2>1. req[r].user \in Users /\ version[req[r].user] \in Nat
    BY <1>2, FieldTypes DEF ReadVersion, IInv, TypeOK
  <2>. QED BY <1>1, <1>2, <2>1 DEF ReadVersion, Minted
<1>3. ASSUME NEW r \in Requests, SetVersion(r)
      PROVE  tok'[t].user \in Users /\ tok'[t].version = version'[tok'[t].user]
  <2>1. req[r].user \in Users
    BY <1>3, FieldTypes DEF SetVersion
  <2>2. tok'[t].user = req[r].user /\ tok'[t].version = 1
    BY <1>1, <1>3 DEF SetVersion
  <2>. QED BY <1>3, <2>1, <2>2 DEF SetVersion, IInv, TypeOK
<1>4. ASSUME NEW r \in Requests, Insert(r) PROVE FALSE
  <2>1. req[r].new # t
    BY <1>4, NewMinted DEF Insert, HasNew
  <2>. QED BY <1>4, <2>1 DEF Insert, IInv, TypeOK, Minted
<1>. QED BY <1>2, <1>3, <1>4, Changes DEF Minted

\* Who is past the check of the access token acts for a user with a version.
LEMMA VersionThereStep ==
  ASSUME IInv, PresentsOwn, VersionThere, [Next]_vars
  PROVE  PresentsOwn' /\ VersionThere'
<1>1. ASSUME NEW r \in Requests, req'[r].pc \in {"auth", "authversion"}
      PROVE  tok'[req'[r].acc].user # None /\ req'[r].user = tok'[req'[r].acc].user
  <2>1. ASSUME NEW t \in Tokens, Minted(t), req'[r].acc = t,
               req'[r].user = tok[t].user
        PROVE  tok'[req'[r].acc].user # None /\ req'[r].user = tok'[req'[r].acc].user
    BY <2>1, TokKept DEF Minted
  <2>2. ASSUME NEW t \in issued PROVE t \in Tokens /\ Minted(t)
    BY DEF IInv, KnownTokens, TypeOK
  <2>3. ASSUME req[r].pc \in {"auth", "authversion"}
        PROVE  /\ req[r].acc \in Tokens /\ Minted(req[r].acc)
               /\ req[r].user = tok[req[r].acc].user
    BY <2>3 DEF PresentsOwn, IInv, Shape, RevokerShape
  <2>4. CASE Step(r) /\ req'[r].pc = "authversion"
    <3>1. req'[r].user = req[r].user /\ req'[r].acc = req[r].acc /\ req[r].pc = "auth"
      BY <2>4, LogoutArc
    <3>. QED BY <2>1, <2>3, <3>1
  <2>5. CASE Step(r) /\ req'[r].pc = "auth"
    BY <2>5, StepArc DEF Arc, Switch, Idle
  <2>. QED BY <1>1, <2>1, <2>2, <2>3, <2>4, <2>5, CameBy
<1>2. ASSUME NEW r \in Requests, req'[r].pc \in {"snapshot", "sweep", "bump"}
      PROVE  req'[r].user \in Users /\ version'[req'[r].user] >= 1
  <2>1. ASSUME NEW u \in Users, version[u] >= 1, req'[r].user = u
        PROVE  req'[r].user \in Users /\ version'[req'[r].user] >= 1
    BY <2>1, VersionStep
  <2>2. CASE req'[r] = req[r]
    BY <1>2, <2>1, <2>2 DEF VersionThere
  <2>3. CASE Step(r) /\ req[r].pc \in {"snapshot", "sweep"}
    BY <1>2, <2>1, <2>3, LogoutArc DEF VersionThere
  <2>4. CASE Step(r) /\ req[r].pc \notin {"snapshot", "sweep"}
    <3>1. /\ req[r].pc = "authversion" /\ req'[r].user = req[r].user
          /\ AccessCurrent(req[r].acc)
      BY <1>2, <2>4, LogoutArc
    <3>2. /\ req[r].acc \in Tokens /\ Minted(req[r].acc)
          /\ req[r].user = tok[req[r].acc].user
      BY <3>1 DEF PresentsOwn, IInv, Shape, RevokerShape
    <3>3. req[r].user \in Users
      BY <3>2 DEF Minted, IInv, TypeOK, TokenInfo
    <3>4. version[req[r].user] \in Nat /\ version[req[r].user] # 0
      BY <3>1, <3>2, <3>3 DEF AccessCurrent, IInv, TypeOK
    <3>. QED BY <2>1, <3>1, <3>3, <3>4
  <2>. QED BY <1>2, <2>2, <2>3, <2>4, CameBy
<1>. QED BY <1>1, <1>2 DEF PresentsOwn, VersionThere, Minted

\* Nobody but another login or refresh of the user makes a key that was found
\* absent appear: an absent key lets no logout of all devices in.
LEMMA AbsentStep ==
  ASSUME IInv, AloneUnlessOverlapped, VersionThere, AbsentStill, [Next]_vars
  PROVE  AbsentStill'
<1>1. ASSUME NEW r \in Requests, req'[r].pc = "setversion",
             req'[r].user \notin overlapped'
      PROVE  version'[req'[r].user] = 0
  <2>0. req'[r].user \notin overlapped
    BY <1>1, OverlappedGrows
  <2>1. CASE req'[r] = req[r]
    <3> DEFINE u == req[r].user
    <3>1. u \in Users /\ Creating(r, u) /\ version[u] = 0
      BY <1>1, <2>0, <2>1, FieldTypes
        DEF AbsentStill, Creating, IInv, Shape, CreatorShape, HasRotated
    <3>2. ASSUME NEW x \in Requests, SetVersion(x) PROVE version'[u] = version[u]
      <4>1. CASE x = r
        <5>1. Step(r)
          BY <3>2, <4>1 DEF Step
        <5>. QED BY <1>1, <2>1, <5>1, StepArc DEF Arc, Switch, Idle
      <4>2. CASE x # r
        <5>1. Creating(x, req[x].user)
          BY <3>2 DEF SetVersion, Creating, IInv, Shape, CreatorShape, HasRotated
        <5>2. req[x].user # u
          BY <2>0, <2>1, <3>1, <4>2, <5>1 DEF AloneUnlessOverlapped
        <5>. QED BY <3>1, <3>2, <5>2 DEF SetVersion, IInv, TypeOK
      <4>. QED BY <4>1, <4>2
    <3>3. ASSUME NEW x \in Requests, Bump(x) PROVE version'[u] = version[u]
      <4>1. req[x].user # u
        BY <3>1, <3>3 DEF Bump, VersionThere
      <4>. QED BY <3>1, <3>3, <4>1 DEF Bump, IInv, TypeOK
    <3>. QED BY <2>1, <3>1, <3>2, <3>3, Changes
  <2>2. CASE Step(r)
    <3>1. /\ req[r].pc = "version" /\ version[req[r].user] = 0
          /\ req'[r].user = req[r].user
      BY <1>1, <2>2, StepArc DEF Arc, Switch, Idle
    <3>2. version' = version
      BY <2>2, <3>1
        DEF Step, ReadVersion, SetVersion, Count, SelectOldest, Evict, Insert,
            Commit, Failed, RefreshLoad, Deny, RevokeSelect, Revoke, Auth,
            AuthVersion, Find, Snapshot, Sweep, Bump
    <3>. QED BY <3>1, <3>2
  <2>. QED BY <1>1, <2>1, <2>2, CameBy
<1>. QED BY <1>1 DEF AbsentStill

\* A version is set back only behind another login or refresh of the user.
LEMMA RewoundStep ==
  ASSUME IInv, AbsentStill, rewound \subseteq overlapped, [Next]_vars
  PROVE  rewound' \subseteq overlapped'
<1>1. ASSUME NEW r \in Requests, SetVersion(r)
      PROVE  rewound' \subseteq overlapped
  BY <1>1 DEF SetVersion, AbsentStill
<1>. QED BY <1>1, Changes, OverlappedGrows

\* The versions of the swept sessions stay behind the key of their user, until
\* it is set back.
LEMMA NextVInv ==
  ASSUME IInv, OInv, VInv, [Next]_vars
  PROVE  VInv'
<1>1. /\ VersionThere /\ PresentsOwn /\ AbsentStill /\ VersionsRise /\ SweptBehind
      /\ rewound \subseteq overlapped /\ AloneUnlessOverlapped
  BY DEF VInv, OInv
<1>2. VersionThere' /\ PresentsOwn' /\ AbsentStill' /\ (rewound \subseteq overlapped)'
  BY <1>1, VersionThereStep, AbsentStep, RewoundStep
<1>3. ASSUME NEW t \in Tokens, Minted(t)', tok'[t].user \notin rewound'
      PROVE  tok'[t].version <= version'[tok'[t].user]
  <2>1. CASE Minted(t)
    <3>1. /\ tok[t].user \in Users /\ tok[t].version \in Nat
          /\ version[tok[t].user] \in Nat
      BY <2>1 DEF Minted, IInv, TypeOK, TokenInfo
    <3>2. tok[t].user \notin rewound'
      BY <1>3, <2>1, TokKept
    <3>3. tok[t].version <= version[tok[t].user]
      BY <1>1, <2>1, <3>2, RewoundGrows DEF VersionsRise
    <3>. QED BY <2>1, <3>1, <3>2, <3>3, TokKept, VersionStep
  <2>2. CASE ~Minted(t)
    <3>1. tok'[t].user \in Users /\ tok'[t].version = version'[tok'[t].user]
      BY <1>3, <2>2, NewVersion
    <3>. QED BY <3>1, VersionStep
  <2>. QED BY <2>1, <2>2
<1>4. ASSUME NEW t \in swept'
      PROVE  /\ Minted(t)' /\ row'[t] = "revoked"
             /\ tok'[t].user \notin rewound' =>
                  tok'[t].version < version'[tok'[t].user]
  <2>1. CASE t \in swept
    <3>1. t \in Tokens /\ Minted(t) /\ row[t] = "revoked"
      BY <1>1, <2>1 DEF SweptBehind, IInv, TypeOK
    <3>2. /\ tok[t].user \in Users /\ tok[t].version \in Nat
          /\ version[tok[t].user] \in Nat
      BY <3>1 DEF Minted, IInv, TypeOK, TokenInfo
    <3>3. tok[t].user \notin rewound' => tok[t].version < version[tok[t].user]
      BY <1>1, <2>1, RewoundGrows DEF SweptBehind
    <3>. QED BY <3>1, <3>2, <3>3, TokKept, RowKept, VersionStep
  <2>2. ASSUME NEW r \in Requests, Bump(r), t \in req[r].seen
        PROVE  /\ Minted(t)' /\ row'[t] = "revoked"
               /\ tok'[t].user \notin rewound' =>
                    tok'[t].version < version'[tok'[t].user]
    <3>1. /\ t \in Tokens /\ Minted(t) /\ row[t] = "revoked"
          /\ tok[t].user = req[r].user
      BY <2>2 DEF Bump, IInv, Progress, DoneTo, TypeOK, RequestState
    <3>2. /\ tok[t].user \in Users /\ tok[t].version \in Nat
          /\ version[tok[t].user] \in Nat
      BY <3>1 DEF Minted, IInv, TypeOK, TokenInfo
    <3>3. tok[t].user \notin rewound' => tok[t].version <= version[tok[t].user]
      BY <1>1, <3>1, RewoundGrows DEF VersionsRise
    <3>4. version'[tok[t].user] = version[tok[t].user] + 1
      BY <2>2, <3>1, <3>2 DEF Bump, IInv, TypeOK
    <3>. QED BY <3>1, <3>2, <3>3, <3>4, TokKept, RowKept
  <2>. QED BY <1>4, <2>1, <2>2, Changes DEF Bump
<1>. QED BY <1>2, <1>3, <1>4 DEF VInv, VersionsRise, SweptBehind, Minted

\* After a logout of all devices the sessions it found stay revoked, and their
\* access tokens stay refused unless a login or refresh of the user that found
\* no version key overlapped another one: whether the key is there or not.
THEOREM LogoutAllSafe == Spec => []LogoutAllIsFinal
<1>1. Init => VInv
  BY DEF Init, VInv, VersionThere, PresentsOwn, AbsentStill, VersionsRise,
         SweptBehind, Minted, Blank, Idle
<1>2. IInv /\ OInv /\ VInv /\ [Next]_vars => VInv'
  BY NextVInv
<1>3. IInv /\ VInv => LogoutAllIsFinal
  <2>1. ASSUME IInv, VInv, NEW t \in swept
        PROVE  row[t] = "revoked" /\ (Accepted(t) => tok[t].user \in rewound)
    <3>1. /\ t \in Tokens /\ Minted(t) /\ row[t] = "revoked"
          /\ tok[t].user \notin rewound => tok[t].version < version[tok[t].user]
      BY <2>1 DEF VInv, SweptBehind, IInv, TypeOK
    <3>2. tok[t].user \in Users /\ tok[t].version \in Nat
      BY <2>1, <3>1 DEF Minted, IInv, TypeOK, TokenInfo
    <3>3. version[tok[t].user] \in Nat
      BY <2>1, <3>2 DEF IInv, TypeOK
    <3>. QED BY <3>1, <3>2, <3>3 DEF Accepted, AccessCurrent
  <2>. QED BY <2>1 DEF LogoutAllIsFinal, VInv
<1>. QED BY <1>1, <1>2, <1>3, Invariant, Alone, PTL DEF Spec

-----------------------------------------------------------------------------
(* Overlapping refreshes of one token *)

\* Requests and tokens can be counted.
LEMMA CountsFinite ==
  ASSUME NEW p
  PROVE  /\ IsFiniteSet(Children(p)) /\ Cardinality(Children(p)) \in Nat
         /\ IsFiniteSet(Heirs(p)) /\ Cardinality(Heirs(p)) \in Nat
         /\ Cardinality(Heirs(p)) <= Cardinality(Requests)
         /\ Cardinality(Requests) \in Nat
<1>1. Children(p) \subseteq Tokens /\ Heirs(p) \subseteq Requests
  BY DEF Children, Heirs
<1>. QED BY <1>1, FiniteAssumption, FS_Subset, FS_CardinalityType

\* Whoever becomes an heir has seen the row live.
LEMMA NewHeir ==
  ASSUME IInv, [Next]_vars, NEW p \in Tokens, NEW r \in Heirs(p)', r \notin Heirs(p)
  PROVE  row[p] = "live"
<1>0. TypeOK /\ r \in Requests
  BY DEF IInv, Heirs
<1>1. /\ req'[r].op = "refresh" /\ req'[r].tok = p
      /\ req'[r].pc \in {"revoke", "version", "setversion"}
  BY DEF Heirs
<1>2. req'[r] # req[r]
  BY <1>0, <1>1 DEF Heirs
<1>3. CASE Step(r)
  <2>1. req'[r] # Idle /\ ~Switch(req[r], req'[r])
    BY <1>1 DEF Switch, Idle, Creators
  <2>2. Arc(req[r], req'[r])
    BY <1>0, <1>3, <2>1, StepArc
  <2>. QED BY <1>0, <1>1, <2>2 DEF Arc, Heirs
<1>4. CASE Abort(r)
  BY <1>0, <1>1, <1>4, FinishAlone DEF Abort, Idle
<1>5. ASSUME NEW u \in Users, LoginBegin(r, u) \/ OAuthBegin(r, u) PROVE FALSE
  BY <1>0, <1>1, <1>5, LoginBegun
<1>6. ASSUME NEW t \in Tokens, RefreshBegin(r, t) PROVE FALSE
  BY <1>0, <1>1, <1>6, RefreshBegun
<1>7. ASSUME NEW t \in Tokens, NEW s \in Tokens,
             NEW op \in {"logout", "logout_all", "logout_specific"},
             LogoutBegin(r, op, t, s)
      PROVE  FALSE
  BY <1>0, <1>1, <1>7, LogoutBegun
<1>8. CASE \E x \in Requests : x # r /\ OthersStay(x)
  BY <1>0, <1>2, <1>8 DEF OthersStay
<1>. QED
  BY <1>0, <1>2, <1>3, <1>4, <1>5, <1>6, <1>7, <1>8, WhoMoves, OneMoves

\* A token that appears was created by an heir, who is none any more.
LEMMA ChildByHeir ==
  ASSUME IInv, ChildOfSameUser, [Next]_vars, NEW p \in Tokens,
         NEW t \in Children(p)', t \notin Children(p)
  PROVE  \E r \in Heirs(p) : /\ row[p] = "revoked"
                             /\ r \notin Heirs(p)'
                             /\ Children(p)' \subseteq Children(p) \cup {t}
<1>0. TypeOK /\ t \in Tokens /\ tok'[t].parent = p /\ p # None /\ tok[t].parent # p
  BY NoneAssumption DEF IInv, Children
<1>1. PICK r \in Requests :
        /\ req[r].op = "refresh" /\ req[r].tok = p
        /\ req[r].pc \in {"version", "setversion"}
        /\ req[r].user = tok[p].user /\ tok'[t].user = tok[p].user
        /\ t \in Fresh /\ \E v \in Nat : Mint(r, v)
  BY <1>0, NewChild
<1>2. r \in Heirs(p)
  BY <1>1 DEF Heirs
<1>3. row[p] = "revoked"
  BY <1>1, RequestFacts DEF HandlerOK, DoneTo, HasRotated, Retired
<1>4. r \notin Heirs(p)'
  <2>1. PICK y : Move(r, [req[r] EXCEPT !.pc = "count", !.new = y])
    BY <1>1 DEF Mint
  <2>2. req'[r] = [req[r] EXCEPT !.pc = "count", !.new = y]
    BY <1>0, <2>1, MoveAlone
  <2>3. req'[r].pc = "count"
    BY <2>2, RequestFacts DEF RequestState
  <2>. QED BY <2>3 DEF Heirs
<1>5. Children(p)' \subseteq Children(p) \cup {t}
  <2>1. PICK f \in Fresh : \A x \in Tokens \ {f} : tok'[x] = tok[x]
    BY <1>1, MintEffect
  <2>2. f = t
    BY <1>0, <2>1
  <2>. QED BY <2>1, <2>2 DEF Children
<1>. QED BY <1>2, <1>3, <1>4, <1>5

\* As long as the row is live there are no children, after that there are no new
\* heirs.
LEMMA HeirsStep ==
  ASSUME IInv, ChildOfSameUser, HeirsLeft, [Next]_vars
  PROVE  HeirsLeft'
<1>1. ASSUME NEW p \in Tokens
      PROVE  Cardinality(Children(p)') + Cardinality(Heirs(p)') <= Cardinality(Requests)
  <2> DEFINE C == Children(p)  D == Children(p)'  H == Heirs(p)  I == Heirs(p)'
  <2>1. /\ IsFiniteSet(C) /\ Cardinality(C) \in Nat /\ IsFiniteSet(H) /\ Cardinality(H) \in Nat
        /\ Cardinality(Requests) \in Nat
        /\ Cardinality(C) + Cardinality(H) <= Cardinality(Requests)
    BY CountsFinite DEF HeirsLeft
  <2>2. /\ IsFiniteSet(D) /\ Cardinality(D) \in Nat /\ IsFiniteSet(I) /\ Cardinality(I) \in Nat
        /\ Cardinality(I) <= Cardinality(Requests)
    <3>1. D \subseteq Tokens /\ I \subseteq Requests
      BY DEF Children, Heirs
    <3>. QED BY <3>1, FiniteAssumption, FS_Subset, FS_CardinalityType
  <2>3. CASE ~(I \subseteq H)
    <3>1. row[p] = "live"
      BY <2>3, NewHeir
    <3>2. C = {}
      BY <3>1, NoneAssumption DEF Children, IInv, ParentsRetired, Retired
    <3>3. D = {}
      BY <3>1, <3>2, ChildByHeir
    <3>. QED BY <2>2, <3>3, FS_EmptySet
  <2>4. CASE I \subseteq H /\ D \subseteq C
    <3>1. Cardinality(I) <= Cardinality(H) /\ Cardinality(D) <= Cardinality(C)
      BY <2>1, <2>4, FS_Subset
    <3> HIDE DEF C, D, H, I
    <3>2. Cardinality(D) + Cardinality(I) <= Cardinality(Requests)
      BY <2>1, <2>2, <3>1
    <3>. QED BY <3>2 DEF D, I
  <2>5. CASE I \subseteq H /\ ~(D \subseteq C)
    <3>1. PICK t \in D : t \notin C
      BY <2>5
    <3>2. PICK r \in H : r \notin I /\ D \subseteq C \cup {t}
      BY <3>1, ChildByHeir
    <3> HIDE DEF C, D, H, I
    <3>3. Cardinality(D) <= Cardinality(C) + 1
      <4>1. IsFiniteSet(C \cup {t}) /\ Cardinality(C \cup {t}) = Cardinality(C) + 1
        BY <2>1, <3>1, FS_AddElement
      <4>. QED BY <3>2, <4>1, FS_Subset
    <3>4. Cardinality(I) <= Cardinality(H) - 1
      <4>1. IsFiniteSet(H \ {r}) /\ Cardinality(H \ {r}) = Cardinality(H) - 1
        BY <2>1, <3>2, FS_RemoveElement
      <4>2. I \subseteq H \ {r}
        BY <2>5, <3>2
      <4>. QED BY <4>1, <4>2, FS_Subset
    <3>5. Cardinality(D) + Cardinality(I) <= Cardinality(Requests)
      BY <2>1, <2>2, <3>3, <3>4
    <3>. QED BY <3>5 DEF D, I
  <2>. QED BY <2>3, <2>4, <2>5
<1>. QED BY <1>1 DEF HeirsLeft

\* Without overlaps a token has one child.
LEMMA OneChild ==
  ASSUME NoFork, ChildOfSameUser, NEW p \in Tokens, tok[p].user \notin overlapped
  PROVE  Cardinality(Children(p)) <= 1
<1>1. \A s, t \in Children(p) : s = t
  BY NoneAssumption DEF Children, NoFork, ChildOfSameUser
<1>2. CASE Children(p) = {}
  BY <1>2, FS_EmptySet
<1>3. ASSUME NEW t \in Children(p) PROVE Cardinality(Children(p)) <= 1
  <2>1. Children(p) = {t}
    BY <1>1
  <2>. QED BY <2>1, FS_Singleton
<1>. QED BY <1>2, <1>3

\* A refresh token is exchanged once if the refreshes of its user do not overlap,
\* crashes in the middle of a refresh included, and otherwise at most as often
\* as there are requests at a time, however long they go on.
THEOREM ForksSafe == Spec => []ForksBounded
<1>1. Init => HeirsLeft
  <2>1. ASSUME Init, NEW p \in Tokens
        PROVE  Cardinality(Children(p)) + Cardinality(Heirs(p)) <= Cardinality(Requests)
    <3>1. Children(p) = {} /\ Heirs(p) = {}
      BY <2>1, NoneAssumption DEF Init, Idle, Blank, Children, Heirs
    <3>. QED BY <3>1, FS_EmptySet, FiniteAssumption, FS_CardinalityType
  <2>. QED BY <2>1 DEF HeirsLeft
<1>2. IInv /\ OInv /\ HeirsLeft /\ [Next]_vars => HeirsLeft'
  BY HeirsStep DEF OInv
<1>3. OInv /\ HeirsLeft => ForksBounded
  <2>1. ASSUME OInv, HeirsLeft, NEW p \in Tokens
        PROVE  Cardinality(Children(p)) <=
                 IF tok[p].user \in overlapped THEN Cardinality(Requests) ELSE 1
    <3>1. Cardinality(Children(p)) <= Cardinality(Requests)
      BY <2>1, CountsFinite DEF HeirsLeft
    <3>. QED BY <2>1, <3>1, OneChild DEF OInv
  <2>. QED BY <2>1 DEF ForksBounded, Children
<1>. QED BY <1>1, <1>2, <1>3, Invariant, Alone, PTL DEF Spec

-----------------------------------------------------------------------------
(* The table implements SessionLedger *)

\* A row that is in the table stays there with its parent.
LEMMA OriginKept ==
  ASSUME IInv, [Next]_vars, NEW t \in Tokens, row[t] # "absent"
  PROVE  row'[t] # "absent" /\ tok'[t].parent = tok[t].parent
BY RowKept, TokKept DEF IInv, KnownTokens

\* Revoking live rows is a CloseSessions step of the ledger.
LEMMA CloseStep ==
  ASSUME IInv, [Next]_vars, NEW gone \in SUBSET Tokens,
         \A t \in gone : row[t] = "live",
         row' = [t \in Tokens |-> IF t \in gone THEN "revoked" ELSE row[t]]
  PROVE  Ledger!Next
<1>1. \A t \in Tokens : row'[t] = "absent" <=> row[t] = "absent"
  BY OriginKept
<1>2. [t \in Tokens |-> IF row'[t] = "absent" THEN None ELSE tok'[t].parent]
        = [t \in Tokens |-> IF row[t] = "absent" THEN None ELSE tok[t].parent]
  BY <1>1, OriginKept
<1>3. Ledger!CloseSessions(gone)
  BY <1>2 DEF Ledger!CloseSessions, Ledger!Open
<1>. QED BY <1>3 DEF Ledger!Next

\* The commit of a new row, with or without an eviction, is an OpenSession
\* step of the ledger.
LEMMA OpenStep ==
  ASSUME IInv, [Next]_vars, NEW r \in Requests, Commit(r),
         NEW s, s = req[r].new, NEW p, p = req[r].tok,
         NEW v, v = req[r].victim,
         NEW gone, gone = {t \in Tokens : t = v /\ row[t] = "live"}
  PROVE  Ledger!Next
<1>1. /\ s \in Tokens /\ row[s] = "absent" /\ tok[s].parent = p
      /\ v # None => v \in Tokens /\ row[v] # "absent"
      /\ v \in Tokens \cup {None} /\ p \in Tokens \cup {None}
      /\ p = None \/ row[p] = "revoked"
      /\ row \in [Tokens -> RowStates]
  BY RequestFacts DEF Commit, HandlerOK, CreatorShape, DoneTo, Retired, HasNew,
    HasRotated, Creators, RequestState, IInv, TypeOK
<1>2. row' = [x \in Tokens |-> IF x = s THEN "live"
                               ELSE IF x \in gone THEN "revoked" ELSE row[x]]
  <2>1. \A x \in Tokens : x = v /\ row[x] # "live" => row[x] = "revoked"
    BY <1>1, NoneAssumption DEF RowStates
  <2>. QED BY <1>1, <2>1 DEF Commit
<1>3. tok' = tok
  BY DEF Commit
<1>4. \A x \in Tokens \ {s} : row'[x] = "absent" <=> row[x] = "absent"
  BY <1>1, <1>2
<1>5. [t \in Tokens |-> IF row'[t] = "absent" THEN None ELSE tok'[t].parent]
        = [[t \in Tokens |-> IF row[t] = "absent" THEN None ELSE tok[t].parent]
             EXCEPT ![s] = p]
  BY <1>1, <1>2, <1>3, <1>4
<1>6. gone \subseteq Ledger!Open /\ \A x, y \in gone : x = y
  BY DEF Ledger!Open
<1>7. Ledger!OpenSession(s, p, gone)
  BY <1>1, <1>2, <1>5, <1>6 DEF Ledger!OpenSession
<1>8. s \in Tokens /\ p \in Tokens \cup {None} /\ gone \in SUBSET Tokens
  BY <1>1
<1>. QED BY <1>7, <1>8 DEF Ledger!Next

\* In the ledger nothing that is revoked is opened again.
LEMMA LedgerFinal ==
  ASSUME NEW t \in Tokens, [Ledger!Next]_(Ledger!vars), row[t] = "revoked"
  PROVE  row'[t] = "revoked"
BY DEF Ledger!Next, Ledger!OpenSession, Ledger!CloseSessions, Ledger!vars, Ledger!Open

\* Every step is a step of the ledger or leaves it alone.
LEMMA LedgerStep ==
  ASSUME IInv, [Next]_vars
  PROVE  [Ledger!Next]_(Ledger!vars)
<1>1. CASE row' = row
  <2>1. \A t \in Tokens : row[t] # "absent" => tok'[t].parent = tok[t].parent
    BY OriginKept
  <2>. QED BY <1>1, <2>1 DEF Ledger!vars
<1>2. ASSUME NEW r \in Requests, Commit(r) PROVE Ledger!Next
  BY <1>2, OpenStep
<1>3. ASSUME NEW r \in Requests, Revoke(r) PROVE Ledger!Next
  <2>1. req[r].tok \in Tokens /\ row \in [Tokens -> RowStates]
        /\ row[req[r].tok] # "absent"
    BY <1>3, RequestFacts DEF Revoke, HandlerOK, RevokerShape, IInv, TypeOK
  <2> DEFINE gone == {t \in Tokens : t = req[r].tok /\ row[t] = "live"}
  <2>2. row' = [t \in Tokens |-> IF t \in gone THEN "revoked" ELSE row[t]]
    BY <1>3, <2>1 DEF Revoke, RowStates
  <2>3. gone \in SUBSET Tokens /\ \A t \in gone : row[t] = "live"
    OBVIOUS
  <2> HIDE DEF gone
  <2>. QED BY <2>2, <2>3, CloseStep
<1>4. ASSUME NEW r \in Requests, Sweep(r) PROVE Ledger!Next
  <2>1. /\ row \in [Tokens -> RowStates]
        /\ \A t \in req[r].seen : t \in Tokens /\ row[t] # "absent"
    BY RequestFacts DEF HandlerOK, DoneTo, RequestState, IInv, TypeOK
  <2> DEFINE gone == {t \in Tokens : t \in req[r].seen /\ row[t] = "live"}
  <2>2. row' = [t \in Tokens |-> IF t \in gone THEN "revoked" ELSE row[t]]
    BY <1>4, <2>1 DEF Sweep, RowStates
  <2>3. gone \in SUBSET Tokens /\ \A t \in gone : row[t] = "live"
    OBVIOUS
  <2> HIDE DEF gone
  <2>. QED BY <2>2, <2>3, CloseStep
<1>. QED BY <1>1, <1>2, <1>3, <1>4, Changes

\* The refresh_tokens table, under all interleavings, crashes and late
\* commits of the handlers, behaves as SessionLedger says.
THEOREM LedgerKept == Spec => KeepsLedger
<1>1. Init => Ledger!Init
  BY DEF Init, Ledger!Init
<1>2. IInv /\ [Next]_vars => [Ledger!Next]_(Ledger!vars)
  BY LedgerStep
<1>. QED BY <1>1, <1>2, Invariant, PTL DEF Spec, KeepsLedger, Ledger!Spec

\* What the ledger says of one session: once its row is revoked, by a logout, a
\* refresh or an eviction, no handler that read it before brings it back, and it
\* can never be refreshed again (revoked in app/repository/user.py:97-199).
THEOREM RevokedForGood ==
  ASSUME NEW t \in Tokens
  PROVE  Spec => [](row[t] = "revoked" => [](row[t] = "revoked"))
<1> DEFINE Gone == row[t] = "revoked"
<1>1. Gone /\ [Ledger!Next]_(Ledger!vars) => Gone'
  BY LedgerFinal
<1> HIDE DEF Gone
<1>2. Spec => [](Gone => []Gone)
  BY <1>1, LedgerKept, PTL DEF KeepsLedger, Ledger!Spec
<1>. QED BY <1>2 DEF Gone

-----------------------------------------------------------------------------
(* An eviction takes the oldest session *)

\* The session that a creator without overlap is going to evict stays the oldest
\* of the live ones between the SELECT and the commit.
VictimOldest ==
  \A u \in Users \ overlapped : \A r \in Requests :
    Creating(r, u) /\ req[r].victim # None =>
      \A t \in Live(u) : tok[req[r].victim].created <= tok[t].created

\* created_at of a session is written once.
LEMMA CreatedKept ==
  ASSUME IInv, [Next]_vars, NEW t \in Tokens, Minted(t)
  PROVE  tok'[t].created = tok[t].created
<1>1. ASSUME NEW r \in Requests, NEW v \in Nat, Mint(r, v)
      PROVE  tok'[t] = tok[t]
  BY <1>1, MintEffect DEF Fresh, Minted
<1>2. ASSUME NEW r \in Requests, ReadVersion(r) PROVE tok'[t] = tok[t]
  <2>1. version[req[r].user] \in Nat
    BY <1>2, FieldTypes DEF ReadVersion, IInv, TypeOK
  <2>. QED BY <1>1, <1>2, <2>1 DEF ReadVersion
<1>3. ASSUME NEW r \in Requests, SetVersion(r) PROVE tok'[t] = tok[t]
  BY <1>1, <1>3 DEF SetVersion
<1>4. ASSUME NEW r \in Requests, Insert(r)
      PROVE  tok'[t] = tok[t] \/ \E x : tok'[t] = [tok[t] EXCEPT !.till = x]
  BY <1>4 DEF Insert, IInv, TypeOK
<1>5. \A x : LET k == [tok[t] EXCEPT !.till = x] IN k.created = tok[t].created
  BY DEF IInv, TypeOK, TokenInfo
<1>6. ASSUME NEW r \in Requests, Insert(r) PROVE tok'[t].created = tok[t].created
  BY <1>4, <1>5, <1>6
<1>7. CASE tok' = tok
  BY <1>7
<1>. QED BY <1>2, <1>3, <1>6, <1>7, Changes

\* The SELECT of revoke_oldest_token.
LEMMA OldestSelected ==
  ASSUME IInv, NEW r \in Requests, Step(r), req[r].pc = "oldest", req'[r].pc = "evict"
  PROVE  \A t \in Live(req[r].user) : tok[req'[r].victim].created <= tok[t].created
<1>1. SelectOldest(r)
  BY DEF Step, ReadVersion, SetVersion, Count, Evict, Insert, Commit, Failed, RefreshLoad,
         Deny, RevokeSelect, Revoke, Auth, AuthVersion, Find, Snapshot, Sweep, Bump
<1>2. PICK v \in OldestOf(Live(req[r].user)) : Move(r, [req[r] EXCEPT !.pc = "evict", !.victim = v])
  <2>1. ~Goto(r, "failed")
    BY GotoFields DEF IInv
  <2>. QED BY <1>1, <2>1 DEF SelectOldest
<1>3. req'[r].victim = v
  <2>1. req'[r] = [req[r] EXCEPT !.pc = "evict", !.victim = v]
    BY <1>2, MoveAlone DEF IInv
  <2>. QED BY <2>1, RequestFacts DEF RequestState
<1>. QED BY <1>2, <1>3 DEF OldestOf

\* Only a creator brings a session to life, and it has no rival.
LEMMA OldestStep ==
  ASSUME IInv, AloneUnlessOverlapped, VictimOldest, [Next]_vars
  PROVE  VictimOldest'
<1>0. IInv'
  BY NextIInv
<1>1. ASSUME NEW u \in Users \ overlapped', NEW r \in Requests, Creating(r, u)',
             req'[r].victim # None
      PROVE  \A t \in Live(u)' : tok'[req'[r].victim].created <= tok'[t].created
  <2>0. u \in Users \ overlapped
    BY OverlappedGrows
  <2>1. req'[r].pc \in {"evict", "insert", "commit"} /\ req'[r] \in RequestState
    BY <1>0, <1>1 DEF IInv, TypeOK, Shape, CreatorShape
  <2>2. /\ Creating(r, u)
        /\ req'[r] = req[r] \/ (Step(r) /\ Arc(req[r], req'[r]))
    BY <1>1, <2>1, CreatorBefore
  <2>3. Live(u)' \subseteq Live(u)
    <3>1. ASSUME NEW x \in Requests, Commit(x), Creating(x, u) PROVE FALSE
      <4>1. x = r
        BY <2>0, <2>2, <3>1 DEF AloneUnlessOverlapped
      <4>2. req'[x].pc = "idle"
        BY <3>1, FinishAlone DEF Commit, IInv, Idle
      <4>. QED BY <2>1, <4>1, <4>2
    <3>. QED BY <3>1, LiveStep
  <2>4. \A t \in Live(u) : Minted(t) /\ tok'[t].created = tok[t].created
    BY CreatedKept DEF Live, IInv, KnownTokens
  <2>5. CASE req'[r].victim = req[r].victim
    <3>1. Minted(req[r].victim) /\ req[r].victim \in Tokens
      BY <1>1, <2>2, <2>5, RequestFacts DEF HandlerOK, CreatorShape, RequestState
    <3>2. \A t \in Live(u) : tok[req[r].victim].created <= tok[t].created
      BY <1>1, <2>0, <2>2, <2>5 DEF VictimOldest
    <3>. QED BY <2>3, <2>4, <2>5, <3>1, <3>2, CreatedKept
  <2>6. CASE Step(r) /\ req[r].pc = "oldest" /\ req'[r].pc = "evict" /\ req'[r].victim \in Live(u)
    <3>1. \A t \in Live(u) : tok[req'[r].victim].created <= tok[t].created
      BY <2>2, <2>6, OldestSelected DEF Creating
    <3>. QED BY <2>3, <2>4, <2>6, <3>1
  <2>. QED BY <2>2, <2>5, <2>6 DEF Arc, Creating
<1>. QED BY <1>1 DEF VictimOldest

\* EvictsOldest for any number of tokens and requests: without overlap the session
\* that gives way is still the oldest when the eviction is committed.
THEOREM EvictionFair == Spec => EvictsOldest
<1>1. Init => VictimOldest
  BY DEF Init, Idle, VictimOldest, Creating, Creators
<1>2. IInv /\ OInv /\ VictimOldest /\ [Next]_vars => VictimOldest'
  BY OldestStep DEF OInv
<1>3. Spec => []VictimOldest
  BY <1>1, <1>2, Invariant, Alone, PTL DEF Spec
<1>4. IInv /\ VictimOldest =>
        \A r \in Requests :
          LET u == req[r].user  v == req[r].victim IN
          Commit(r) /\ v # None =>
            /\ tok[v].user = u /\ tok[v].exp <= now + AccessTTL
            /\ u \notin overlapped =>
                 \A t \in Live(u) : tok[v].created <= tok[t].created
  <2>1. ASSUME IInv, VictimOldest, NEW r \in Requests, Commit(r), req[r].victim # None
        PROVE  /\ tok[req[r].victim].user = req[r].user
               /\ tok[req[r].victim].exp <= now + AccessTTL
               /\ req[r].user \notin overlapped =>
                    \A t \in Live(req[r].user) :
                      tok[req[r].victim].created <= tok[t].created
    <3>1. /\ req[r].op \in Creators /\ req[r].user \in Users
          /\ tok[req[r].victim].user = req[r].user
      BY <2>1, RequestFacts DEF Commit, HandlerOK, CreatorShape, HasRotated, HasNew
    <3>2. req[r].victim \in Tokens
      BY <2>1, RequestFacts DEF RequestState
    <3>3. tok[req[r].victim].exp <= now + AccessTTL
      BY <2>1, <3>2 DEF IInv, ExpBounded
    <3>. QED BY <2>1, <3>1, <3>3 DEF VictimOldest, Creating
  <2>. QED BY <2>1
<1>. QED BY <1>3, <1>4, Invariant, PTL DEF EvictsOldest

-----------------------------------------------------------------------------
(* The way of a request *)

\* How many awaits a handler has before it at most.  A refresh blacklists before
\* it revokes, a logout does it last.
StepsLeft(q) ==
  CASE q.pc = "auth" -> 14
    [] q.pc = "authversion" -> 13
    [] q.pc \in {"load", "find", "snapshot"} -> 12
    [] q.pc = "deny" -> IF q.op = "refresh" THEN 11 ELSE 1
    [] q.pc = "sweep" -> 11
    [] q.pc \in {"select", "bump"} -> 10
    [] q.pc = "revoke" -> 9
    [] q.pc = "version" -> 8
    [] q.pc = "setversion" -> 7
    [] q.pc = "count" -> 6
    [] q.pc = "oldest" -> 5
    [] q.pc = "evict" -> 4
    [] q.pc = "insert" -> 3
    [] q.pc = "commit" -> 2
    [] q.pc = "failed" -> 1
    [] OTHER -> 0

\* No handler goes back: each of its steps brings it nearer to its end, whatever
\* the others do meanwhile to the rows and keys it reads.
EveryRequestAdvances ==
  [][\A r \in Requests : req[r].pc # "idle" =>
       \/ req'[r] = req[r]
       \/ StepsLeft(req'[r]) \in 0 .. StepsLeft(req[r]) - 1]_vars

LEMMA IdleIsLast ==
  ASSUME NEW q \in RequestState
  PROVE  /\ StepsLeft(Idle) = 0
         /\ q.pc # "idle" => StepsLeft(q) \in 1 .. 14
<1>1. StepsLeft(Idle) = 0
  BY DEF Idle, StepsLeft
<1>2. q.pc \in Labels
  BY DEF RequestState
<1>. QED BY <1>1, <1>2 DEF StepsLeft, Labels

LEMMA StepIsNearer ==
  ASSUME IInv, NEW r \in Requests, Step(r)
  PROVE  StepsLeft(req'[r]) \in 0 .. StepsLeft(req[r]) - 1
<1> DEFINE q == req[r]
           p == req'[r]
           Nearer == StepsLeft(p) \in 0 .. StepsLeft(q) - 1
<1>0. q \in RequestState /\ TypeOK
  BY RequestFacts DEF IInv
<1>f. (Finish(r) \/ Reject(r)) /\ q.pc # "idle" => Nearer
  BY <1>0, FinishAlone, IdleIsLast
<1>g. ASSUME NEW l, Goto(r, l) PROVE p.pc = l /\ p.op = q.op
  BY <1>0, <1>g, GotoFields
<1>1. CASE ReadVersion(r) \/ SetVersion(r)
  <2>1. ASSUME NEW v, Mint(r, v) PROVE p.pc = "count"
    <3>1. PICK t \in Fresh : p = [q EXCEPT !.pc = "count", !.new = t]
      BY <1>0, <2>1, MoveAlone DEF Mint
    <3>. QED BY <1>0, <3>1 DEF RequestState
  <2>2. \/ q.pc = "version" /\ p.pc \in {"setversion", "count"}
        \/ q.pc = "setversion" /\ p.pc = "count"
    BY <1>1, <1>g, <2>1 DEF ReadVersion, SetVersion
  <2>. QED BY <2>2 DEF StepsLeft
<1>2. CASE Count(r) \/ Evict(r) \/ Insert(r)
  <2>1. \/ q.pc = "count" /\ p.pc \in {"oldest", "insert"}
        \/ q.pc = "evict" /\ p.pc = "insert"
        \/ q.pc = "insert" /\ p.pc = "commit"
    BY <1>2, <1>g DEF Count, Evict, Insert
  <2>. QED BY <2>1 DEF StepsLeft
<1>3. CASE SelectOldest(r)
  <2>1. ASSUME NEW t, Move(r, [q EXCEPT !.pc = "evict", !.victim = t]) PROVE p.pc = "evict"
    <3>1. p = [q EXCEPT !.pc = "evict", !.victim = t]
      BY <1>0, <2>1, MoveAlone
    <3>. QED BY <1>0, <3>1 DEF RequestState
  <2>2. q.pc = "oldest" /\ p.pc \in {"failed", "evict"}
    BY <1>3, <1>g, <2>1 DEF SelectOldest
  <2>. QED BY <2>2 DEF StepsLeft
<1>4. CASE Commit(r) \/ Failed(r) \/ Bump(r)
  BY <1>4, <1>f DEF Commit, Failed, Bump
<1>5. CASE RefreshLoad(r)
  <2>1. ASSUME Move(r, [q EXCEPT !.op = "expire", !.pc = "select"]) PROVE p.pc = "select"
    <3>1. p = [q EXCEPT !.op = "expire", !.pc = "select"]
      BY <1>0, <2>1, MoveAlone
    <3>. QED BY <1>0, <3>1 DEF RequestState
  <2>2. CASE ~Reject(r)
    <3>1. q.pc = "load" /\ p.pc \in {"select", "deny"}
      BY <1>5, <1>g, <2>1, <2>2 DEF RefreshLoad
    <3>. QED BY <3>1 DEF StepsLeft
  <2>. QED BY <1>5, <1>f, <2>2 DEF RefreshLoad
<1>6. CASE Deny(r) \/ RevokeSelect(r)
  <2>1. CASE ~Finish(r) /\ ~Reject(r)
    <3>1. \/ q.pc = "deny" /\ q.op = "refresh" /\ p.pc = "select"
          \/ q.pc = "select" /\ p.pc = "revoke"
      BY <1>6, <1>g, <2>1 DEF Deny, RevokeSelect
    <3>. QED BY <3>1 DEF StepsLeft
  <2>. QED BY <1>6, <1>f, <2>1 DEF Deny, RevokeSelect
<1>7. CASE Revoke(r)
  <2>1. ASSUME NEW n, Move(r, [q EXCEPT !.pc = "version", !.began = n]) PROVE p.pc = "version"
    <3>1. p = [q EXCEPT !.pc = "version", !.began = n]
      BY <1>0, <2>1, MoveAlone
    <3>. QED BY <1>0, <3>1 DEF RequestState
  <2>2. CASE ~Finish(r)
    <3>1. /\ q.pc = "revoke"
          /\ p.pc = "version" \/ (p.pc = "deny" /\ p.op # "refresh")
      BY <1>7, <1>g, <2>1, <2>2 DEF Revoke
    <3>. QED BY <3>1 DEF StepsLeft
  <2>. QED BY <1>7, <1>f, <2>2 DEF Revoke
<1>8. CASE Auth(r) \/ AuthVersion(r)
  <2>1. CASE ~Reject(r)
    <3>1. \/ q.pc = "auth" /\ p.pc = "authversion"
          \/ q.pc = "authversion" /\ p.pc \in {"select", "snapshot", "find"}
      BY <1>8, <1>g, <2>1 DEF Auth, AuthVersion
    <3>. QED BY <3>1 DEF StepsLeft
  <2>. QED BY <1>8, <1>f, <2>1 DEF Auth, AuthVersion
<1>9. CASE Find(r)
  <2>1. ASSUME NEW op, Move(r, [q EXCEPT !.pc = "select", !.op = op]) PROVE p.pc = "select"
    <3>1. p = [q EXCEPT !.pc = "select", !.op = op]
      BY <1>0, <2>1, MoveAlone
    <3>. QED BY <1>0, <3>1 DEF RequestState
  <2>2. CASE ~Reject(r)
    <3>1. q.pc = "find" /\ p.pc = "select"
      BY <1>9, <2>1, <2>2 DEF Find
    <3>. QED BY <3>1 DEF StepsLeft
  <2>. QED BY <1>9, <1>f, <2>2 DEF Find
<1>10. CASE Snapshot(r) \/ Sweep(r)
  <2>1. ASSUME NEW S, Move(r, [q EXCEPT !.pc = "sweep", !.seen = S]) PROVE p.pc = "sweep"
    <3>1. p = [q EXCEPT !.pc = "sweep", !.seen = S]
      BY <1>0, <2>1, MoveAlone
    <3>. QED BY <1>0, <3>1 DEF RequestState
  <2>2. \/ q.pc = "snapshot" /\ p.pc = "sweep"
        \/ q.pc = "sweep" /\ p.pc = "bump"
    BY <1>10, <1>g, <2>1 DEF Snapshot, Sweep
  <2>. QED BY <2>2 DEF StepsLeft
<1>. QED
  BY <1>1, <1>2, <1>3, <1>4, <1>5, <1>6, <1>7, <1>8, <1>9, <1>10 DEF Step

\* What is left of the claim that every request ends is that somebody goes on: the
\* fairness of FairSpec.
THEOREM RequestsAdvance == Spec => EveryRequestAdvances
<1>1. ASSUME IInv, [Next]_vars, NEW r \in Requests, req[r].pc # "idle", req'[r] # req[r]
      PROVE  StepsLeft(req'[r]) \in 0 .. StepsLeft(req[r]) - 1
  <2>1. Step(r) \/ Abort(r)
    <3>1. ASSUME NEW x \in Requests,
                 \/ \E u \in Users : LoginBegin(x, u) \/ OAuthBegin(x, u)
                 \/ \E t \in Tokens : RefreshBegin(x, t)
                 \/ \E t, s \in Tokens :
                      \E op \in {"logout", "logout_all", "logout_specific"} :
                        LogoutBegin(x, op, t, s)
          PROVE  req[x].pc = "idle"
      BY <3>1 DEF LoginBegin, OAuthBegin, RefreshBegin, LogoutBegin, BeginCreator, Begin
    <3>. QED BY <1>1, <3>1, WhoMoves, OneMoves DEF OthersStay, IInv
  <2>2. CASE Abort(r)
    BY <1>1, <2>2, FinishAlone, IdleIsLast, RequestFacts DEF Abort, IInv
  <2>. QED BY <1>1, <2>1, <2>2, StepIsNearer
<1>2. IInv /\ [Next]_vars =>
        [\A r \in Requests : req[r].pc # "idle" =>
           \/ req'[r] = req[r]
           \/ StepsLeft(req'[r]) \in 0 .. StepsLeft(req[r]) - 1]_vars
  BY <1>1
<1>. QED BY <1>2, Invariant, PTL DEF Spec, EveryRequestAdvances

-----------------------------------------------------------------------------
(* Sessions that are revoked and not blacklisted *)

\* The eviction of a session and the logout of all devices write no blacklist
\* entry.  A session that is revoked at a time n, by whatever handler, is
\* nevertheless refused from n + AccessTTL on: no access token of it is made
\* later, and none lives longer.
THEOREM RevokedExpires ==
  ASSUME NEW t \in Tokens, NEW n \in Nat
  PROVE  Spec => []((row[t] = "revoked" /\ now = n) => [](now >= n + AccessTTL => ~Accepted(t)))
<1> DEFINE Ends == Minted(t) /\ tok[t].exp <= n + AccessTTL
<1>1. IInv /\ row[t] = "revoked" /\ now = n => Ends
  BY DEF IInv, KnownTokens, ExpBounded
<1>2. IInv /\ Ends /\ [Next]_vars => Ends'
  BY TokKept
<1>3. IInv /\ Ends => (now >= n + AccessTTL => ~Accepted(t))
  BY TimeAssumption DEF Accepted, AccessUsable, IInv, TypeOK, TokenInfo
<1> HIDE DEF Ends
<1>. QED BY <1>1, <1>2, <1>3, Invariant, PTL DEF Spec

=============================================================================
