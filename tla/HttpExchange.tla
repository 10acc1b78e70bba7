---------------------------- MODULE HttpExchange ----------------------------
(***************************************************************************)
(* What a client and a reader of the log may rely on, with sessions, pool, *)
(* tasks, exceptions and their handlers left out: a request is answered    *)
(* once, its session is committed only behind a success, and the log says  *)
(* once, and rightly, how it ended.                                        *)
(***************************************************************************)
EXTENDS Sequences

CONSTANTS Slots, None

VARIABLES
  reply,   \* the status that was sent to the client of each slot, or None
  log,     \* the statuses that the log has for it
  stored,  \* the slots whose session get_db has committed
  quiet,   \* the slots of which the log says nothing
  over     \* the slots that are done with

vars == <<reply, log, stored, quiet, over>>

Init ==
  /\ reply = [r \in Slots |-> None] /\ log = [r \in Slots |-> <<>>]
  /\ stored = {} /\ quiet = {} /\ over = Slots

Unanswered(r) == r \notin over /\ log[r] = <<>> /\ reply[r] = None
Answered(r) == r \notin over /\ log[r] = <<>> /\ reply[r] # None

Ask(r) ==
  /\ r \in over
  /\ over' = over \ {r}
  /\ reply' = [reply EXCEPT ![r] = None]
  /\ log' = [log EXCEPT ![r] = <<>>]
  /\ stored' = stored \ {r}
  /\ quiet' \in {quiet \ {r}, quiet \cup {r}}

Answer(r) ==
  /\ Unanswered(r)
  /\ \E code \in {200, 400} : reply' = [reply EXCEPT ![r] = code]
  /\ UNCHANGED <<log, stored, quiet, over>>

\* Its session is committed, behind the response.
Store(r) ==
  /\ Answered(r) /\ reply[r] = 200
  /\ stored' = stored \cup {r}
  /\ UNCHANGED <<reply, log, quiet, over>>

\* The end of a request that was answered, whatever has failed since.
End(r) ==
  /\ Answered(r)
  /\ log' = [log EXCEPT ![r] = IF r \in quiet THEN <<>> ELSE <<reply[r]>>]
  /\ over' = over \cup {r}
  /\ UNCHANGED <<reply, stored, quiet>>

\* One that failed is logged first, and answered by whoever is left to do it.
Fail(r) ==
  /\ Unanswered(r) /\ r \notin quiet
  /\ log' = [log EXCEPT ![r] = <<500>>]
  /\ UNCHANGED <<reply, stored, quiet, over>>

Apologise(r) ==
  /\ r \notin over /\ reply[r] = None
  /\ r \in quiet \/ log[r] = <<500>>
  /\ reply' = [reply EXCEPT ![r] = 500]
  /\ over' = over \cup {r}
  /\ UNCHANGED <<log, stored, quiet>>

\* The worker dies or starts.
Reset == Init'

Next ==
  \/ \E r \in Slots :
       Ask(r) \/ Answer(r) \/ Store(r) \/ End(r) \/ Fail(r) \/ Apologise(r)
  \/ Reset

Spec == Init /\ [][Next]_vars

=============================================================================
