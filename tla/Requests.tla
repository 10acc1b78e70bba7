------------------------------ MODULE Requests ------------------------------
(* One worker's way of serving a request: the logging middleware, the check of
   the access token, the database session of get_db with its connection from the
   pool, the response, the background task, the commit, the exception handlers,
   and the start and stop of the application around all of it.

   What the handlers compute is left to the other modules: here a handler ends
   with a response or raises.  An error is answered after the session has been
   rolled back and its connection is back in the pool; a success is answered
   before the commit, and the connection is kept until the body has been sent
   and the background task has ended. *)
EXTENDS Naturals, Sequences, FiniteSets

CONSTANTS
  Slots,      \* bound: requests in flight at the same time
  Kinds,      \* subset of {"health", "json", "stream", "scan"}
  PoolSize,   \* pool_size + max_overflow of the engine
  None

ASSUME PoolAssumption == PoolSize \in Nat
ASSUME KindsAssumption == Kinds \subseteq {"health", "json", "stream", "scan"}
ASSUME SlotsAssumption == IsFiniteSet(Slots)

VARIABLES
  phase,      \* lifespan: "down", "up" or "stopping"
  free,       \* connections that the pool can still hand out
  running,    \* scan_state.status = RUNNING
  req         \* slot -> the request in it

vars == <<phase, free, running, req>>

----------------------------------------------------------------------------
Labels == {"idle", "auth", "query", "work", "body", "task", "scan", "commit",
           "raised", "failed", "finish", "reraised", "done"}
Errors == {"handled", "unhandled"}
Codes == {200, 400, 500}
Logged == Seq(Codes)
ASSUME NoneAssumption == None \notin Codes /\ None # "health"

\* error says whether an exception has a handler inside of the logging middleware;
\* 400 stands for the status of such an answer.
RequestInfo == [pc : Labels, kind : Kinds \cup {None}, holds : BOOLEAN, second : BOOLEAN,
                error : Errors \cup {None}, status : Codes \cup {None},
                early : BOOLEAN, stored : BOOLEAN, finished : Logged]
Idle == [pc |-> "idle", kind |-> None, holds |-> FALSE, second |-> FALSE, error |-> None,
         status |-> None, early |-> FALSE, stored |-> FALSE, finished |-> <<>>]

Init == phase = "down" /\ free = PoolSize /\ running = FALSE /\ req = [r \in Slots |-> Idle]

Ended(r) == req[r].pc \in {"idle", "done"}
At(r, pc) == phase # "down" /\ req[r].pc = pc
Go(r, pc) == req' = [req EXCEPT ![r].pc = pc]

----------------------------------------------------------------------------
(* The lifespan. *)

\* sessionmanager.init raises when the database does not answer, so that the
\* worker does not come up; redismanager.init only logs.
Boot ==
  /\ phase = "down" /\ phase' = "up"
  /\ free' = PoolSize /\ running' = FALSE /\ req' = [r \in Slots |-> Idle]

\* The server stops accepting; the pool is disposed of when the last request has
\* ended.
Stop == phase = "up" /\ phase' = "stopping" /\ UNCHANGED <<free, running, req>>
Close ==
  /\ phase = "stopping" /\ \A r \in Slots : Ended(r)
  /\ phase' = "down" /\ UNCHANGED <<free, running, req>>

\* gunicorn kills a worker; PostgreSQL rolls its transactions back.
Kill ==
  /\ phase # "down" /\ phase' = "down"
  /\ req' = [r \in Slots |-> Idle] /\ UNCHANGED <<free, running>>

----------------------------------------------------------------------------
(* The request on its way in. *)

\* RequestLoggingMiddleware logs request.started for all but the paths it skips.
Arrive(r, k) ==
  /\ phase = "up" /\ Ended(r)
  /\ req' = [req EXCEPT ![r] = [Idle EXCEPT !.pc = "auth", !.kind = k]]
  /\ UNCHANGED <<phase, free, running>>

\* An exception: RetroException, HTTPException and RequestValidationError have
\* handlers of their own, anything else is unhandled.
Raised(r, error) == [req EXCEPT ![r].pc = "raised", ![r].error = error]

\* The health check has neither dependencies nor a session.
Health(r) ==
  /\ At(r, "auth") /\ req[r].kind = "health"
  /\ req' = [req EXCEPT ![r].status = 200, ![r].pc = "finish"]
  /\ UNCHANGED <<phase, free, running>>

\* get_current_user_email and what a handler decides before its first statement:
\* Redis may fail, the request may be refused.
Admit(r) ==
  /\ At(r, "auth") /\ req[r].kind # "health"
  /\ \/ Go(r, "query")
     \/ \E error \in Errors : req' = Raised(r, error)
  /\ UNCHANGED <<phase, free, running>>

\* The first statement takes a connection, or waits for one until the pool's
\* timeout; the database may refuse.
CheckoutOverdrawn(r) ==
  /\ At(r, "query")
  /\ req' = [req EXCEPT ![r].holds = TRUE, ![r].pc = "work"] /\ free' = free - 1
  /\ UNCHANGED <<phase, running>>
Checkout(r) ==
  /\ At(r, "query") /\ free > 0
  /\ \/ req' = [req EXCEPT ![r].holds = TRUE, ![r].pc = "work"] /\ free' = free - 1
     \/ req' = Raised(r, "unhandled") /\ UNCHANGED free
  /\ UNCHANGED <<phase, running>>
PoolTimeout(r) ==
  /\ At(r, "query") /\ free = 0
  /\ req' = Raised(r, "unhandled")
  /\ UNCHANGED <<phase, free, running>>

InHandler(r) == At(r, "query") \/ At(r, "work")

\* revoke_refresh_token and its like commit in the middle of the handler, which
\* gives the connection back; the next statement takes one again.
CommitEarly(r) ==
  /\ At(r, "work") /\ req[r].kind = "json" /\ ~req[r].early
  /\ free' = free + 1
  /\ req' = [req EXCEPT ![r].early = TRUE, ![r].holds = FALSE, ![r].pc = "query"]
  /\ UNCHANGED <<phase, running>>

\* The handler raises, as POST /music/scan does when a scan runs.
Refuse(r) ==
  /\ InHandler(r)
  /\ \E error \in Errors : req' = Raised(r, error)
  /\ UNCHANGED <<phase, free, running>>

\* The handler returns and http.response.start is sent.  Streams and scans have
\* asked the database before; others need not.
Respond(r) ==
  /\ InHandler(r) /\ (req[r].kind # "json" => At(r, "work"))
  /\ req[r].kind = "scan" => ~running
  /\ running' = (running \/ req[r].kind = "scan")
  /\ req' = [req EXCEPT ![r].status = 200,
                        ![r].pc = CASE req[r].kind = "stream" -> "body"
                                    [] req[r].kind = "scan" -> "task"
                                    [] OTHER -> "commit"]
  /\ UNCHANGED <<phase, free>>

----------------------------------------------------------------------------
(* Behind the response. *)

\* The last chunk of a stream, at the pace of its client.
BodySent(r) == At(r, "body") /\ Go(r, "commit") /\ UNCHANGED <<phase, free, running>>

\* session.close() gives the connection back, if a statement has taken one.
Returned(q) == IF q.holds THEN free + 1 ELSE free

\* The client goes away: the task is cancelled and the session closed.
DisconnectKeeps(r) ==
  /\ At(r, "body") /\ Go(r, "finish") /\ UNCHANGED <<phase, free, running>>
Disconnect(r) ==
  /\ At(r, "body")
  /\ free' = Returned(req[r])
  /\ req' = [req EXCEPT ![r].holds = FALSE, ![r].pc = "finish"]
  /\ UNCHANGED <<phase, running>>

\* run_scan opens a session of its own while the one of the request is open: it
\* needs a second connection.  Only its regular end sets the status back.
ScanBegin(r) ==
  /\ At(r, "task") /\ free > 0
  /\ free' = free - 1
  /\ req' = [req EXCEPT ![r].second = TRUE, ![r].pc = "scan"]
  /\ UNCHANGED <<phase, running>>
ScanWaits(r) == FALSE
ScanTimeout(r) ==
  /\ At(r, "task") /\ free = 0
  /\ req' = Raised(r, "unhandled")
  /\ UNCHANGED <<phase, free, running>>
ScanEnd(r) ==
  /\ At(r, "scan")
  /\ free' = free + 1
  /\ \/ req' = [req EXCEPT ![r].second = FALSE, ![r].pc = "commit"] /\ running' = FALSE
     \/ req' = [Raised(r, "unhandled") EXCEPT ![r].second = FALSE] /\ UNCHANGED running
  /\ UNCHANGED phase

\* get_db after the response: commit and close; a commit that fails is rolled
\* back and its exception goes on to the middleware.
Commit(r) ==
  /\ At(r, "commit")
  /\ \/ /\ free' = Returned(req[r])
        /\ req' = [req EXCEPT ![r] = [@ EXCEPT !.holds = FALSE, !.stored = TRUE, !.pc = "finish"]]
     \/ req' = Raised(r, "unhandled") /\ UNCHANGED free
  /\ UNCHANGED <<phase, running>>

\* get_db when something was raised: rollback, close, and on with the exception.
Rollback(r) ==
  /\ At(r, "raised")
  /\ free' = Returned(req[r])
  /\ req' = [req EXCEPT ![r].holds = FALSE, ![r].pc = "failed"]
  /\ UNCHANGED <<phase, running>>

\* The exception handlers: a 4xx is answered inside of the logging middleware.
\* Nothing is answered twice.
Handle(r) ==
  /\ At(r, "failed")
  /\ req' = [req EXCEPT ![r].pc = "finish",
               ![r].status = IF @ = None /\ req[r].error = "handled" THEN 400 ELSE @]
  /\ UNCHANGED <<phase, free, running>>

\* request.finished, with the status of the response that has started, or 500.
FinishAsSuccess(r) ==
  /\ At(r, "finish")
  /\ req' = [req EXCEPT
       ![r].finished = IF req[r].kind = "health" THEN @
                       ELSE Append(@, IF req[r].status = None THEN 200 ELSE req[r].status),
       ![r].pc = IF req[r].status = None THEN "reraised" ELSE "done"]
  /\ UNCHANGED <<phase, free, running>>
Finish(r) ==
  LET q == req[r]
      sent == IF q.status = None THEN 500 ELSE q.status
  IN  /\ At(r, "finish")
      /\ req' = [req EXCEPT ![r] = [q EXCEPT
           !.finished = IF q.kind = "health" THEN q.finished ELSE Append(q.finished, sent),
           !.error = None, !.early = FALSE,
           !.pc = IF q.status = None THEN "reraised" ELSE "done"]]
      /\ UNCHANGED <<phase, free, running>>

\* ServerErrorMiddleware, outermost: the handler of Exception answers with 500.
ServerError(r) ==
  /\ At(r, "reraised")
  /\ req' = [req EXCEPT ![r] = [@ EXCEPT !.status = 500, !.pc = "done"]]
  /\ UNCHANGED <<phase, free, running>>

Lifespan == Boot \/ Stop \/ Close \/ Kill
\* What a slot does by itself; the body goes at the pace of the client.
Step(r) ==
  \/ Health(r) \/ Admit(r) \/ Checkout(r) \/ PoolTimeout(r) \/ CommitEarly(r) \/ Refuse(r)
  \/ Respond(r) \/ ScanBegin(r) \/ ScanTimeout(r) \/ ScanEnd(r) \/ Commit(r) \/ Rollback(r)
  \/ Handle(r) \/ Finish(r) \/ ServerError(r)
Client(r) == (\E k \in Kinds : Arrive(r, k)) \/ BodySent(r) \/ Disconnect(r)
Next == Lifespan \/ \E r \in Slots : Step(r) \/ Client(r)

Spec == Init /\ [][Next]_vars
\* The event loop goes on with every request; no client and no operator has to.
FairSpec == Spec /\ \A r \in Slots : WF_vars(Step(r))

----------------------------------------------------------------------------
(* Properties. *)

\* Every variable keeps its type, and a worker that is down serves nothing.
TypeOK ==
  /\ phase \in {"down", "up", "stopping"}
  /\ free \in 0..PoolSize /\ running \in BOOLEAN
  /\ req \in [Slots -> RequestInfo]
  /\ phase = "down" => \A r \in Slots : Ended(r)

Holders == {r \in Slots : req[r].holds}
Seconds == {r \in Slots : req[r].second}

\* No connection is lost or handed out twice: what the pool lacks is held by the
\* requests that have asked the database and have not ended, and by the scan; an
\* error is answered only when the connection is back.
PoolAccounted ==
  phase # "down" =>
    /\ free + Cardinality(Holders) + Cardinality(Seconds) = PoolSize
    /\ \A r \in Slots :
         /\ req[r].holds => req[r].pc \in {"work", "body", "task", "scan", "commit", "raised"}
         /\ req[r].second <=> req[r].pc = "scan"

\* What is said of a request that has ended is true: it was answered, it has one
\* request.finished with the status that was sent, unless it asked for the health
\* check, and what get_db committed was answered with success.
OutcomeTrue ==
  \A r \in Slots : req[r].pc = "done" =>
    /\ req[r].status # None
    /\ req[r].finished = IF req[r].kind = "health" THEN <<>> ELSE <<req[r].status>>
    /\ req[r].stored => req[r].status = 200

\* What is seen of the requests from outside of the worker.
Replies == [r \in Slots |-> req[r].status]
Logs == [r \in Slots |-> req[r].finished]
Stored == {r \in Slots : req[r].stored}
Quiet == {r \in Slots : req[r].kind = "health"}
Over == {r \in Slots : Ended(r)}

Exchange == INSTANCE HttpExchange
  WITH reply <- Replies, log <- Logs, stored <- Stored, quiet <- Quiet, over <- Over

\* The layers of the application implement the exchange: whatever fails at
\* which of them, before or behind the response, a request is answered at most
\* once, get_db commits only behind a success, and the one request.finished
\* agrees with the answer, also where the answer comes after it.
KeepsExchange == Exchange!Spec

\* Every request ends, whatever streams hold the pool and however slow their
\* clients are: whoever waits for a connection is freed by the timeout, the scan
\* that holds one and needs a second one included.  A stream gets at least as far
\* as its body.
EveryoneEnds ==
  \A r \in Slots : ~Ended(r) ~> Ended(r) \/ At(r, "body")

=============================================================================
