--------------------------- MODULE RequestsProofs ---------------------------
(* Proofs about Requests, for any pool and any finite number of slots. *)
EXTENDS Requests, FiniteSetTheorems, SequenceTheorems, TLAPS

\* What holds of a request at each of its steps.
SlotOK(q) ==
  /\ q.holds => q.pc \in {"work", "body", "task", "scan", "commit", "raised"}
  /\ q.pc = "work" => q.holds
  /\ q.second <=> q.pc = "scan"
  /\ q.pc \in {"auth", "query", "work"} => q.status = None
  /\ q.pc \in {"body", "task", "scan", "commit"} => q.status = 200
  /\ q.stored => q.pc \in {"finish", "done"} /\ q.status = 200
  /\ q.pc \notin {"reraised", "done"} => q.finished = <<>>
  /\ q.pc = "reraised" => /\ q.status = None
                          /\ q.finished = IF q.kind = "health" THEN <<>> ELSE <<500>>
  /\ q.pc = "done" => /\ q.status # None
                      /\ q.finished = IF q.kind = "health" THEN <<>> ELSE <<q.status>>

PoolInv == TypeOK /\ PoolAccounted /\ \A r \in Slots : SlotOK(req[r])

----------------------------------------------------------------------------
(* One slot changes. *)

One(b) == IF b THEN 1 ELSE 0

\* The counts follow the slot.
LEMMA CountsFollow ==
  ASSUME req \in [Slots -> RequestInfo], req' \in [Slots -> RequestInfo], NEW r \in Slots,
         \A o \in Slots \ {r} : req'[o] = req[o]
  PROVE  /\ Cardinality(Holders) \in Nat /\ Cardinality(Seconds) \in Nat
         /\ Cardinality(Holders') \in Nat /\ Cardinality(Seconds') \in Nat
         /\ Cardinality(Holders') + One(req[r].holds) = Cardinality(Holders) + One(req'[r].holds)
         /\ Cardinality(Seconds') + One(req[r].second) = Cardinality(Seconds) + One(req'[r].second)
<1>1. /\ Holders \subseteq Slots /\ Holders' \subseteq Slots
      /\ Seconds \subseteq Slots /\ Seconds' \subseteq Slots
  BY DEF Holders, Seconds
<1>2. /\ IsFiniteSet(Holders) /\ IsFiniteSet(Holders')
      /\ IsFiniteSet(Seconds) /\ IsFiniteSet(Seconds')
  BY <1>1, SlotsAssumption, FS_Subset
<1>3. \A S, T : IsFiniteSet(S) /\ r \notin S /\ T = S \cup {r} => Cardinality(T) = Cardinality(S) + 1
  BY FS_AddElement
<1>4. /\ Cardinality(Holders) \in Nat /\ Cardinality(Holders') \in Nat
      /\ Cardinality(Seconds) \in Nat /\ Cardinality(Seconds') \in Nat
  BY <1>2, FS_CardinalityType
<1>5. Cardinality(Holders') + One(req[r].holds) = Cardinality(Holders) + One(req'[r].holds)
  <2>1. CASE req[r].holds = req'[r].holds
    <3>1. Holders' = Holders
      BY <2>1 DEF Holders
    <3> QED BY <1>4, <2>1, <3>1 DEF One
  <2>2. CASE req[r].holds /\ ~req'[r].holds
    <3>1. r \notin Holders' /\ Holders = Holders' \cup {r}
      BY <2>2 DEF Holders
    <3>2. Cardinality(Holders) = Cardinality(Holders') + 1
      BY <1>2, <1>3, <3>1
    <3> QED BY <1>4, <2>2, <3>2 DEF One
  <2>3. CASE ~req[r].holds /\ req'[r].holds
    <3>1. r \notin Holders /\ Holders' = Holders \cup {r}
      BY <2>3 DEF Holders
    <3>2. Cardinality(Holders') = Cardinality(Holders) + 1
      BY <1>2, <1>3, <3>1
    <3> QED BY <1>4, <2>3, <3>2 DEF One
  <2>4. req[r].holds \in BOOLEAN /\ req'[r].holds \in BOOLEAN
    BY DEF RequestInfo
  <2> QED BY <2>1, <2>2, <2>3, <2>4
<1>6. Cardinality(Seconds') + One(req[r].second) = Cardinality(Seconds) + One(req'[r].second)
  <2>1. CASE req[r].second = req'[r].second
    <3>1. Seconds' = Seconds
      BY <2>1 DEF Seconds
    <3> QED BY <1>4, <2>1, <3>1 DEF One
  <2>2. CASE req[r].second /\ ~req'[r].second
    <3>1. r \notin Seconds' /\ Seconds = Seconds' \cup {r}
      BY <2>2 DEF Seconds
    <3>2. Cardinality(Seconds) = Cardinality(Seconds') + 1
      BY <1>2, <1>3, <3>1
    <3> QED BY <1>4, <2>2, <3>2 DEF One
  <2>3. CASE ~req[r].second /\ req'[r].second
    <3>1. r \notin Seconds /\ Seconds' = Seconds \cup {r}
      BY <2>3 DEF Seconds
    <3>2. Cardinality(Seconds') = Cardinality(Seconds) + 1
      BY <1>2, <1>3, <3>1
    <3> QED BY <1>4, <2>3, <3>2 DEF One
  <2>4. req[r].second \in BOOLEAN /\ req'[r].second \in BOOLEAN
    BY DEF RequestInfo
  <2> QED BY <2>1, <2>2, <2>3, <2>4
<1> QED BY <1>4, <1>5, <1>6

\* A step of one slot that keeps the account of its connections.
LEMMA OneSlot ==
  ASSUME PoolInv, NEW r \in Slots, phase # "down", phase' = phase, running' \in BOOLEAN,
         req' \in [Slots -> RequestInfo], \A o \in Slots \ {r} : req'[o] = req[o],
         SlotOK(req'[r]), free' \in Nat,
         free' + One(req'[r].holds) + One(req'[r].second)
           = free + One(req[r].holds) + One(req[r].second)
  PROVE  PoolInv'
<1>1. /\ req \in [Slots -> RequestInfo] /\ free \in Nat
      /\ free + Cardinality(Holders) + Cardinality(Seconds) = PoolSize
  BY PoolAssumption DEF PoolInv, TypeOK, PoolAccounted
<1>2. /\ One(req[r].holds) \in Nat /\ One(req[r].second) \in Nat
      /\ One(req'[r].holds) \in Nat /\ One(req'[r].second) \in Nat
  BY DEF One
<1>3. /\ free' + Cardinality(Holders') + Cardinality(Seconds') = PoolSize /\ free' <= PoolSize
  <2> HIDE DEF Holders, Seconds
  <2> QED BY <1>1, <1>2, CountsFollow, PoolAssumption
<1>4. \A o \in Slots : SlotOK(req'[o])
  BY DEF PoolInv
<1>5. \A o \in Slots : SlotOK(req[o])'
  BY <1>4 DEF SlotOK
<1>6. TypeOK'
  BY <1>3, PoolAssumption DEF PoolInv, TypeOK
<1>7. PoolAccounted'
  BY <1>3, <1>4 DEF PoolAccounted, SlotOK
<1> QED BY <1>5, <1>6, <1>7 DEF PoolInv

\* The same for a step that leaves the connections alone.
LEMMA OneSlotHolds ==
  ASSUME PoolInv, NEW r \in Slots, phase # "down", phase' = phase, running' \in BOOLEAN,
         req' \in [Slots -> RequestInfo], \A o \in Slots \ {r} : req'[o] = req[o],
         SlotOK(req'[r]), free' = free,
         req'[r].holds = req[r].holds, req'[r].second = req[r].second
  PROVE  PoolInv'
<1>1. free \in Nat
  BY PoolAssumption DEF PoolInv, TypeOK
<1>2. One(req[r].holds) \in Nat /\ One(req[r].second) \in Nat
  BY DEF One
<1>3. free' + One(req'[r].holds) + One(req'[r].second) = free + One(req[r].holds) + One(req[r].second)
  BY <1>1, <1>2
<1> QED BY <1>1, <1>3, OneSlot

LEMMA RaisedSlot ==
  ASSUME PoolInv, NEW r \in Slots, phase # "down", UNCHANGED <<phase, free>>, running' \in BOOLEAN,
         req[r].pc \in {"auth", "query", "work", "task", "commit"},
         NEW error \in Errors, req' = Raised(r, error)
  PROVE  PoolInv'
<1>1. req \in [Slots -> RequestInfo] /\ SlotOK(req[r]) /\ req[r] \in RequestInfo
  BY DEF PoolInv, TypeOK
<1>2. req' \in [Slots -> RequestInfo] /\ \A o \in Slots \ {r} : req'[o] = req[o]
  <2>1. \A o \in Slots \ {r} : req'[o] = req[o]
    BY <1>1 DEF Raised
  <2> DEFINE p == [req[r] EXCEPT !.pc = "raised"]
             q == [p EXCEPT !.error = error]
  <2>2. p \in RequestInfo
    <3>1. "raised" \in Labels
      BY DEF Labels
    <3> QED BY <1>1, <3>1 DEF RequestInfo
  <2>3. q \in RequestInfo
    <3> HIDE DEF p
    <3> QED BY <2>2 DEF RequestInfo
  <2>4. req' = [req EXCEPT ![r] = q]
    BY <1>1 DEF Raised
  <2> HIDE DEF q
  <2> QED BY <1>1, <2>1, <2>3, <2>4
<1>3. /\ req'[r].pc = "raised" /\ req'[r].holds = req[r].holds /\ req'[r].second = req[r].second
      /\ req'[r].stored = req[r].stored /\ req'[r].finished = req[r].finished
  BY <1>1 DEF Raised, RequestInfo
<1>4. SlotOK(req'[r])
  BY <1>1, <1>3 DEF SlotOK
<1> QED BY <1>2, <1>3, <1>4, OneSlotHolds

LEMMA IdleFields ==
  /\ Idle \in RequestInfo /\ Idle.pc = "idle" /\ Idle.status = None /\ Idle.finished = <<>>
  /\ ~Idle.holds /\ ~Idle.second /\ ~Idle.stored
<1>1. "idle" \in Labels /\ <<>> \in Logged
  BY DEF Labels, Logged
<1> QED BY <1>1 DEF Idle, RequestInfo

LEMMA ArriveStep ==
  ASSUME PoolInv, NEW r \in Slots, NEW k \in Kinds, Arrive(r, k)
  PROVE  PoolInv'
<1> DEFINE q == [Idle EXCEPT !.pc = "auth", !.kind = k]
<1>1. req \in [Slots -> RequestInfo] /\ SlotOK(req[r]) /\ req[r] \in RequestInfo
  BY DEF PoolInv, TypeOK
<1>2. Idle \in RequestInfo /\ Idle.status = None /\ Idle.finished = <<>> /\ ~Idle.holds
      /\ ~Idle.second /\ ~Idle.stored
  BY IdleFields
<1>3. /\ q \in RequestInfo /\ q.pc = "auth" /\ q.status = None /\ q.finished = <<>>
      /\ ~q.holds /\ ~q.second /\ ~q.stored
  <2> DEFINE p == [Idle EXCEPT !.pc = "auth"]
  <2>1. /\ p \in RequestInfo /\ p.pc = "auth" /\ p.status = None /\ p.finished = <<>>
        /\ ~p.holds /\ ~p.second /\ ~p.stored
    <3>1. "auth" \in Labels
      BY DEF Labels
    <3> QED BY <1>2, <3>1 DEF RequestInfo
  <2>2. q = [p EXCEPT !.kind = k]
    OBVIOUS
  <2> HIDE DEF p, q
  <2> QED BY <2>1, <2>2 DEF RequestInfo
<1>4. req' = [req EXCEPT ![r] = q] /\ UNCHANGED <<phase, free, running>> /\ phase = "up"
      /\ req[r].pc \in {"idle", "done"}
  BY DEF Arrive, Ended
<1> HIDE DEF q
<1>5. SlotOK(q)
  BY <1>3 DEF SlotOK
<1>6. req' \in [Slots -> RequestInfo] /\ req'[r] = q /\ \A o \in Slots \ {r} : req'[o] = req[o]
  BY <1>1, <1>3, <1>4
<1>7. q.holds = req[r].holds /\ q.second = req[r].second
  BY <1>1, <1>3, <1>4 DEF SlotOK, RequestInfo
<1>8. running' \in BOOLEAN
  BY <1>4 DEF PoolInv, TypeOK
<1> QED BY <1>4, <1>5, <1>6, <1>7, <1>8, OneSlotHolds

LEMMA HealthStep ==
  ASSUME PoolInv, NEW r \in Slots, Health(r)
  PROVE  PoolInv'
<1>1. /\ req \in [Slots -> RequestInfo] /\ SlotOK(req[r]) /\ req[r] \in RequestInfo
      /\ phase # "down" /\ UNCHANGED <<phase, free, running>> /\ running' \in BOOLEAN
      /\ req[r].pc = "auth"
  BY DEF PoolInv, TypeOK, Health, At
<1>2. req' \in [Slots -> RequestInfo] /\ \A o \in Slots \ {r} : req'[o] = req[o]
  BY <1>1 DEF Health, RequestInfo
<1>3. /\ req'[r].pc = "finish" /\ req'[r].holds = req[r].holds /\ req'[r].second = req[r].second
      /\ req'[r].stored = req[r].stored /\ req'[r].finished = req[r].finished
      /\ req'[r].status = 200
  BY <1>1 DEF Health, RequestInfo
<1>4. SlotOK(req'[r])
  BY <1>1, <1>3 DEF SlotOK
<1> QED BY <1>1, <1>2, <1>3, <1>4, OneSlotHolds

\* A step that moves the label only.
LEMMA GoStep ==
  ASSUME PoolInv, NEW r \in Slots, phase # "down", UNCHANGED <<phase, free, running>>,
         \/ Go(r, "query") /\ req[r].pc = "auth"
         \/ Go(r, "commit") /\ req[r].pc = "body"
  PROVE  PoolInv'
<1>1. /\ req \in [Slots -> RequestInfo] /\ SlotOK(req[r]) /\ req[r] \in RequestInfo
      /\ running' \in BOOLEAN
  BY DEF PoolInv, TypeOK
<1>2. req' \in [Slots -> RequestInfo] /\ \A o \in Slots \ {r} : req'[o] = req[o]
  <2> DEFINE q(l) == [req[r] EXCEPT !.pc = l]
  <2>0. "query" \in Labels /\ "commit" \in Labels
    BY DEF Labels
  <2>1. q("query") \in RequestInfo /\ q("commit") \in RequestInfo
    BY <1>1, <2>0 DEF RequestInfo
  <2>2. req' = [req EXCEPT ![r] = q("query")] \/ req' = [req EXCEPT ![r] = q("commit")]
    BY DEF Go
  <2> HIDE DEF q
  <2> QED BY <1>1, <2>1, <2>2
<1>3. /\ req'[r].pc = IF req[r].pc = "auth" THEN "query" ELSE "commit"
      /\ req'[r].holds = req[r].holds /\ req'[r].second = req[r].second
      /\ req'[r].stored = req[r].stored /\ req'[r].finished = req[r].finished
      /\ req'[r].status = req[r].status
  BY <1>1 DEF Go, RequestInfo
<1>4. SlotOK(req'[r])
  BY <1>1, <1>3 DEF SlotOK
<1> QED BY <1>1, <1>2, <1>3, <1>4, OneSlotHolds

LEMMA AdmitStep ==
  ASSUME PoolInv, NEW r \in Slots, Admit(r)
  PROVE  PoolInv'
<1>1. UNCHANGED <<phase, free, running>> /\ phase # "down" /\ req[r].pc = "auth" /\ running' \in BOOLEAN
  BY DEF Admit, At, PoolInv, TypeOK
<1>2. CASE Go(r, "query")
  BY <1>1, <1>2, GoStep
<1>3. ASSUME NEW error \in Errors, req' = Raised(r, error) PROVE PoolInv'
  BY <1>1, <1>3, RaisedSlot
<1> QED BY <1>2, <1>3 DEF Admit

LEMMA CheckoutStep ==
  ASSUME PoolInv, NEW r \in Slots, Checkout(r)
  PROVE  PoolInv'
<1>1. /\ req \in [Slots -> RequestInfo] /\ SlotOK(req[r]) /\ req[r] \in RequestInfo
      /\ phase # "down" /\ UNCHANGED <<phase, running>> /\ running' \in BOOLEAN
      /\ req[r].pc = "query" /\ free > 0 /\ free \in Nat
  BY PoolAssumption DEF PoolInv, TypeOK, Checkout, At
<1>2. CASE req' = Raised(r, "unhandled") /\ UNCHANGED free
  BY <1>1, <1>2, RaisedSlot DEF Errors
<1>3. CASE req' = [req EXCEPT ![r].holds = TRUE, ![r].pc = "work"] /\ free' = free - 1
  <2>1. req' \in [Slots -> RequestInfo] /\ \A o \in Slots \ {r} : req'[o] = req[o]
    <3> DEFINE q == [req[r] EXCEPT !.holds = TRUE, !.pc = "work"]
    <3>1. q \in RequestInfo
      <4>1. "work" \in Labels
        BY DEF Labels
      <4> QED BY <1>1, <4>1 DEF RequestInfo
    <3>2. req' = [req EXCEPT ![r] = q]
      BY <1>3
    <3> HIDE DEF q
    <3> QED BY <1>1, <3>1, <3>2
  <2>2. /\ req'[r].pc = "work" /\ req'[r].holds /\ req'[r].second = req[r].second
        /\ req'[r].stored = req[r].stored /\ req'[r].finished = req[r].finished
        /\ req'[r].status = req[r].status
    BY <1>1, <1>3 DEF RequestInfo
  <2>3. SlotOK(req'[r])
    BY <1>1, <2>2 DEF SlotOK
  <2>4. ~req[r].holds /\ ~req[r].second
    BY <1>1 DEF SlotOK
  <2>5. free' \in Nat /\ free' + One(req'[r].holds) + One(req'[r].second)
                           = free + One(req[r].holds) + One(req[r].second)
    BY <1>1, <1>3, <2>2, <2>4 DEF One
  <2> QED BY <1>1, <2>1, <2>3, <2>5, OneSlot
<1> QED BY <1>2, <1>3 DEF Checkout

LEMMA RefuseStep ==
  ASSUME PoolInv, NEW r \in Slots, Refuse(r) \/ PoolTimeout(r) \/ ScanTimeout(r)
  PROVE  PoolInv'
<1>1. /\ phase # "down" /\ UNCHANGED <<phase, free, running>> /\ running' \in BOOLEAN
      /\ req[r].pc \in {"query", "work", "task"}
      /\ \E error \in Errors : req' = Raised(r, error)
  BY DEF PoolInv, TypeOK, Refuse, PoolTimeout, ScanTimeout, InHandler, At, Errors
<1> QED BY <1>1, RaisedSlot

LEMMA CommitEarlyStep ==
  ASSUME PoolInv, NEW r \in Slots, CommitEarly(r)
  PROVE  PoolInv'
<1>1. /\ req \in [Slots -> RequestInfo] /\ SlotOK(req[r]) /\ req[r] \in RequestInfo
      /\ phase # "down" /\ UNCHANGED <<phase, running>> /\ running' \in BOOLEAN
      /\ req[r].pc = "work" /\ free \in Nat /\ free' = free + 1
      /\ req' = [req EXCEPT ![r].early = TRUE, ![r].holds = FALSE, ![r].pc = "query"]
  BY PoolAssumption DEF PoolInv, TypeOK, CommitEarly, At
<1>2. req' \in [Slots -> RequestInfo] /\ \A o \in Slots \ {r} : req'[o] = req[o]
  BY <1>1 DEF RequestInfo
<1>3. /\ req'[r].pc = "query" /\ ~req'[r].holds /\ req'[r].second = req[r].second
      /\ req'[r].stored = req[r].stored /\ req'[r].finished = req[r].finished
      /\ req'[r].status = req[r].status
  BY <1>1 DEF RequestInfo
<1>4. SlotOK(req'[r]) /\ ~req[r].second /\ req[r].holds
  BY <1>1, <1>3 DEF SlotOK
<1>5. free' \in Nat /\ free' + One(req'[r].holds) + One(req'[r].second)
                         = free + One(req[r].holds) + One(req[r].second)
  BY <1>1, <1>3, <1>4 DEF One
<1> QED BY <1>1, <1>2, <1>4, <1>5, OneSlot

LEMMA RespondStep ==
  ASSUME PoolInv, NEW r \in Slots, Respond(r)
  PROVE  PoolInv'
<1> DEFINE l == CASE req[r].kind = "stream" -> "body" [] req[r].kind = "scan" -> "task"
                  [] OTHER -> "commit"
           q == [req[r] EXCEPT !.status = 200, !.pc = l]
<1>1. /\ req \in [Slots -> RequestInfo] /\ SlotOK(req[r]) /\ req[r] \in RequestInfo
      /\ phase # "down" /\ UNCHANGED <<phase, free>> /\ running' \in BOOLEAN
      /\ req[r].pc \in {"query", "work"}
  BY DEF PoolInv, TypeOK, Respond, InHandler, At
<1>2. l \in {"body", "task", "commit"} /\ l \in Labels /\ 200 \in Codes
  BY DEF Labels, Codes
<1>3. req' = [req EXCEPT ![r] = q]
  BY DEF Respond
<1> HIDE DEF l
<1>4. /\ q \in RequestInfo /\ q.pc = l /\ q.status = 200 /\ q.holds = req[r].holds
      /\ q.second = req[r].second /\ q.stored = req[r].stored /\ q.finished = req[r].finished
  BY <1>1, <1>2 DEF RequestInfo
<1> HIDE DEF q
<1>5. SlotOK(q)
  BY <1>1, <1>2, <1>4 DEF SlotOK
<1>6. req' \in [Slots -> RequestInfo] /\ req'[r] = q /\ \A o \in Slots \ {r} : req'[o] = req[o]
  BY <1>1, <1>3, <1>4
<1> QED BY <1>1, <1>4, <1>5, <1>6, OneSlotHolds

LEMMA HandleStep ==
  ASSUME PoolInv, NEW r \in Slots, Handle(r)
  PROVE  PoolInv'
<1> DEFINE c == IF req[r].status = None /\ req[r].error = "handled" THEN 400 ELSE req[r].status
           q == [req[r] EXCEPT !.pc = "finish", !.status = c]
<1>1. /\ req \in [Slots -> RequestInfo] /\ SlotOK(req[r]) /\ req[r] \in RequestInfo
      /\ phase # "down" /\ UNCHANGED <<phase, free, running>> /\ running' \in BOOLEAN
      /\ req[r].pc = "failed"
  BY DEF PoolInv, TypeOK, Handle, At
<1>2. c \in Codes \cup {None} /\ "finish" \in Labels
  BY <1>1 DEF Codes, Labels, RequestInfo
<1>3. req' = [req EXCEPT ![r] = q]
  BY DEF Handle
<1> HIDE DEF c
<1>4. /\ q \in RequestInfo /\ q.pc = "finish" /\ q.holds = req[r].holds
      /\ q.second = req[r].second /\ q.stored = req[r].stored /\ q.finished = req[r].finished
  BY <1>1, <1>2 DEF RequestInfo
<1> HIDE DEF q
<1>5. SlotOK(q)
  BY <1>1, <1>4 DEF SlotOK
<1>6. req' \in [Slots -> RequestInfo] /\ req'[r] = q /\ \A o \in Slots \ {r} : req'[o] = req[o]
  BY <1>1, <1>3, <1>4
<1> QED BY <1>1, <1>4, <1>5, <1>6, OneSlotHolds

LEMMA FinishStep ==
  ASSUME PoolInv, NEW r \in Slots, Finish(r)
  PROVE  PoolInv'
<1> DEFINE s == req[r].status
           l == IF s = None THEN "reraised" ELSE "done"
           c == IF s = None THEN 500 ELSE s
           f == IF req[r].kind = "health" THEN req[r].finished ELSE Append(req[r].finished, c)
           p == [req[r] EXCEPT !.finished = f]
           p2 == [p EXCEPT !.error = None]
           p3 == [p2 EXCEPT !.early = FALSE]
           q == [p3 EXCEPT !.pc = l]
<1>1. /\ req \in [Slots -> RequestInfo] /\ SlotOK(req[r]) /\ req[r] \in RequestInfo
      /\ phase # "down" /\ UNCHANGED <<phase, free, running>> /\ running' \in BOOLEAN
      /\ req[r].pc = "finish"
  BY DEF PoolInv, TypeOK, Finish, At
<1>2. /\ c \in Codes /\ l \in Labels /\ l \in {"reraised", "done"}
      /\ req[r].finished = <<>> /\ s \in Codes \cup {None}
  BY <1>1 DEF Codes, Labels, RequestInfo, SlotOK
<1>3. f \in Logged /\ f = IF req[r].kind = "health" THEN <<>> ELSE <<c>>
  <2> HIDE DEF c
  <2> QED BY <1>2 DEF Logged
<1>4. req' = [req EXCEPT ![r] = q]
  <2> DEFINE v == [req[r] EXCEPT !.finished = f, !.error = None, !.early = FALSE, !.pc = l]
  <2>1. req' = [req EXCEPT ![r] = v]
    BY DEF Finish
  <2>2. v = q
    <3> HIDE DEF f, l
    <3> QED OBVIOUS
  <2> HIDE DEF v, q
  <2> QED BY <2>1, <2>2
<1> HIDE DEF l, f
<1>5. /\ p \in RequestInfo /\ p.finished = f /\ p.holds = req[r].holds /\ p.kind = req[r].kind
      /\ p.second = req[r].second /\ p.stored = req[r].stored /\ p.status = s
  <2> DEFINE v == req[r]
  <2>1. v \in RequestInfo
    BY <1>1
  <2> HIDE DEF v
  <2>2. p = [v EXCEPT !.finished = f]
    BY DEF v
  <2> HIDE DEF p
  <2>3. /\ p \in RequestInfo /\ p.finished = f /\ p.holds = v.holds /\ p.kind = v.kind
        /\ p.second = v.second /\ p.stored = v.stored /\ p.status = v.status
    BY <1>3, <2>1, <2>2 DEF RequestInfo
  <2> QED BY <2>3 DEF v
<1> HIDE DEF p
<1>9. /\ p2 \in RequestInfo /\ p2.finished = f /\ p2.holds = req[r].holds /\ p2.kind = req[r].kind
      /\ p2.second = req[r].second /\ p2.stored = req[r].stored /\ p2.status = s
  BY <1>5 DEF RequestInfo
<1> HIDE DEF p2
<1>10. /\ p3 \in RequestInfo /\ p3.finished = f /\ p3.holds = req[r].holds /\ p3.kind = req[r].kind
       /\ p3.second = req[r].second /\ p3.stored = req[r].stored /\ p3.status = s
  BY <1>9 DEF RequestInfo
<1> HIDE DEF p3
<1>6. /\ q \in RequestInfo /\ q.pc = l /\ q.finished = f /\ q.holds = req[r].holds
      /\ q.kind = req[r].kind /\ q.second = req[r].second /\ q.stored = req[r].stored
      /\ q.status = s
  BY <1>2, <1>10 DEF RequestInfo
<1> HIDE DEF q
<1>7. req' \in [Slots -> RequestInfo] /\ req'[r] = q /\ \A o \in Slots \ {r} : req'[o] = req[o]
  BY <1>1, <1>4, <1>6
<1>8. SlotOK(q)
  <2>1. CASE s = None
    <3>1. ~q.stored /\ ~q.holds /\ ~q.second
      BY <1>1, <1>6, <2>1, NoneAssumption DEF SlotOK, Codes, RequestInfo
    <3> QED BY <1>3, <1>6, <2>1, <3>1 DEF SlotOK, l
  <2>2. CASE s # None
    <3>1. ~q.holds /\ ~q.second /\ (q.stored => s = 200)
      BY <1>1, <1>6 DEF SlotOK, RequestInfo
    <3> QED BY <1>3, <1>6, <2>2, <3>1 DEF SlotOK, l
  <2> QED BY <2>1, <2>2
<1> QED BY <1>1, <1>6, <1>7, <1>8, OneSlotHolds

LEMMA ServerErrorStep ==
  ASSUME PoolInv, NEW r \in Slots, ServerError(r)
  PROVE  PoolInv'
<1> DEFINE p == [req[r] EXCEPT !.status = 500]
           q == [p EXCEPT !.pc = "done"]
<1>1. /\ req \in [Slots -> RequestInfo] /\ SlotOK(req[r]) /\ req[r] \in RequestInfo
      /\ phase # "down" /\ UNCHANGED <<phase, free, running>> /\ running' \in BOOLEAN
      /\ req[r].pc = "reraised"
  BY DEF PoolInv, TypeOK, ServerError, At
<1>2. 500 \in Codes /\ "done" \in Labels /\ None # 500
  BY NoneAssumption DEF Codes, Labels
<1>3. req' = [req EXCEPT ![r] = q]
  BY <1>1 DEF ServerError
<1>9. /\ p \in RequestInfo /\ p.holds = req[r].holds /\ p.kind = req[r].kind
      /\ p.second = req[r].second /\ p.stored = req[r].stored /\ p.finished = req[r].finished
      /\ p.status = 500
  <2> DEFINE v == req[r]
  <2>1. v \in RequestInfo
    BY <1>1
  <2> HIDE DEF v
  <2>2. p = [v EXCEPT !.status = 500]
    BY DEF v
  <2> QED BY <1>2, <2>1, <2>2 DEF RequestInfo
<1> HIDE DEF p
<1>4. /\ q \in RequestInfo /\ q.pc = "done" /\ q.holds = req[r].holds /\ q.kind = req[r].kind
      /\ q.second = req[r].second /\ q.stored = req[r].stored /\ q.finished = req[r].finished
      /\ q.status = 500
  BY <1>2, <1>9 DEF RequestInfo
<1> HIDE DEF q
<1>5. SlotOK(q)
  BY <1>1, <1>2, <1>4 DEF SlotOK
<1>6. req' \in [Slots -> RequestInfo] /\ req'[r] = q /\ \A o \in Slots \ {r} : req'[o] = req[o]
  BY <1>1, <1>3, <1>4
<1> QED BY <1>1, <1>4, <1>5, <1>6, OneSlotHolds

\* The session is closed: its connection is back in the pool.
LEMMA ReturnStep ==
  ASSUME PoolInv, NEW r \in Slots, phase # "down", phase' = phase, running' = running,
         free' = Returned(req[r]), NEW l \in {"finish", "failed"}, NEW stored \in BOOLEAN,
         stored => l = "finish" /\ req[r].status = 200,
         req[r].pc \in {"body", "commit", "raised"},
         \/ req' = [req EXCEPT ![r].holds = FALSE, ![r].pc = l] /\ ~stored
         \/ req' = [req EXCEPT ![r] = [@ EXCEPT !.holds = FALSE, !.stored = TRUE, !.pc = l]] /\ stored
  PROVE  PoolInv'
<1>1. /\ req \in [Slots -> RequestInfo] /\ SlotOK(req[r]) /\ req[r] \in RequestInfo
      /\ free \in Nat /\ running' \in BOOLEAN
  BY PoolAssumption DEF PoolInv, TypeOK
<1>2. l \in Labels
  BY DEF Labels
<1>3. /\ req' \in [Slots -> RequestInfo] /\ \A o \in Slots \ {r} : req'[o] = req[o]
      /\ req'[r].pc = l /\ ~req'[r].holds /\ req'[r].second = req[r].second
      /\ req'[r].stored => stored
      /\ req'[r].finished = req[r].finished /\ req'[r].status = req[r].status
  <2>1. CASE req' = [req EXCEPT ![r].holds = FALSE, ![r].pc = l]
    <3> DEFINE q == [req[r] EXCEPT !.holds = FALSE, !.pc = l]
    <3>1. /\ q \in RequestInfo /\ q.pc = l /\ ~q.holds /\ q.second = req[r].second /\ ~q.stored
          /\ q.finished = req[r].finished /\ q.status = req[r].status
      <4>1. ~req[r].stored
        BY <1>1 DEF SlotOK
      <4> QED BY <1>1, <1>2, <4>1 DEF RequestInfo
    <3>2. req' = [req EXCEPT ![r] = q]
      BY <2>1
    <3> HIDE DEF q
    <3> QED BY <1>1, <3>1, <3>2
  <2>2. CASE req' = [req EXCEPT ![r] = [@ EXCEPT !.holds = FALSE, !.stored = TRUE, !.pc = l]] /\ stored
    <3> DEFINE q == [req[r] EXCEPT !.holds = FALSE, !.stored = TRUE, !.pc = l]
    <3>1. /\ q \in RequestInfo /\ q.pc = l /\ ~q.holds /\ q.second = req[r].second
          /\ q.finished = req[r].finished /\ q.status = req[r].status
      BY <1>1, <1>2 DEF RequestInfo
    <3>2. req' = [req EXCEPT ![r] = q]
      BY <2>2
    <3> HIDE DEF q
    <3> QED BY <1>1, <2>2, <3>1, <3>2
  <2> QED BY <2>1, <2>2
<1>4. SlotOK(req'[r]) /\ ~req[r].second /\ ~req'[r].second
  BY <1>1, <1>3 DEF SlotOK
<1>5. free' \in Nat /\ free' + One(req'[r].holds) + One(req'[r].second)
                         = free + One(req[r].holds) + One(req[r].second)
  BY <1>1, <1>3, <1>4 DEF One, Returned
<1> QED BY <1>1, <1>3, <1>4, <1>5, OneSlot

LEMMA CommitStep ==
  ASSUME PoolInv, NEW r \in Slots, Commit(r)
  PROVE  PoolInv'
<1>1. /\ phase # "down" /\ UNCHANGED <<phase, running>> /\ running' \in BOOLEAN
      /\ req[r].pc = "commit" /\ req[r].status = 200
  BY DEF PoolInv, TypeOK, Commit, At, SlotOK
<1>2. CASE req' = Raised(r, "unhandled") /\ UNCHANGED free
  BY <1>1, <1>2, RaisedSlot DEF Errors
<1>3. CASE /\ free' = Returned(req[r])
           /\ req' = [req EXCEPT ![r] = [@ EXCEPT !.holds = FALSE, !.stored = TRUE, !.pc = "finish"]]
  BY <1>1, <1>3, ReturnStep
<1> QED BY <1>2, <1>3 DEF Commit

LEMMA RollbackStep ==
  ASSUME PoolInv, NEW r \in Slots, Rollback(r) \/ Disconnect(r)
  PROVE  PoolInv'
<1>1. CASE Rollback(r)
  BY <1>1, ReturnStep DEF Rollback, At
<1>2. CASE Disconnect(r)
  BY <1>2, ReturnStep DEF Disconnect, At
<1> QED BY <1>1, <1>2

LEMMA ScanBeginStep ==
  ASSUME PoolInv, NEW r \in Slots, ScanBegin(r)
  PROVE  PoolInv'
<1> DEFINE q == [req[r] EXCEPT !.second = TRUE, !.pc = "scan"]
<1>1. /\ req \in [Slots -> RequestInfo] /\ SlotOK(req[r]) /\ req[r] \in RequestInfo
      /\ phase # "down" /\ UNCHANGED <<phase, running>> /\ running' \in BOOLEAN
      /\ req[r].pc = "task" /\ free > 0 /\ free \in Nat /\ free' = free - 1
  BY PoolAssumption DEF PoolInv, TypeOK, ScanBegin, At
<1>2. "scan" \in Labels
  BY DEF Labels
<1>3. req' = [req EXCEPT ![r] = q]
  BY DEF ScanBegin
<1>4. /\ q \in RequestInfo /\ q.pc = "scan" /\ q.holds = req[r].holds /\ q.second
      /\ q.stored = req[r].stored /\ q.finished = req[r].finished /\ q.status = req[r].status
  BY <1>1, <1>2 DEF RequestInfo
<1> HIDE DEF q
<1>5. SlotOK(q) /\ ~req[r].second
  BY <1>1, <1>4 DEF SlotOK
<1>6. req' \in [Slots -> RequestInfo] /\ req'[r] = q /\ \A o \in Slots \ {r} : req'[o] = req[o]
  BY <1>1, <1>3, <1>4
<1>7. free' \in Nat /\ free' + One(req'[r].holds) + One(req'[r].second)
                         = free + One(req[r].holds) + One(req[r].second)
  BY <1>1, <1>4, <1>5, <1>6 DEF One
<1> QED BY <1>1, <1>5, <1>6, <1>7, OneSlot

LEMMA ScanEndStep ==
  ASSUME PoolInv, NEW r \in Slots, ScanEnd(r)
  PROVE  PoolInv'
<1> DEFINE p == [req[r] EXCEPT !.second = FALSE, !.pc = "commit"]
           e == [req[r] EXCEPT !.pc = "raised", !.error = "unhandled"]
           u == [e EXCEPT !.second = FALSE]
<1>1. /\ req \in [Slots -> RequestInfo] /\ SlotOK(req[r]) /\ req[r] \in RequestInfo
      /\ phase # "down" /\ UNCHANGED phase /\ running' \in BOOLEAN
      /\ req[r].pc = "scan" /\ free \in Nat /\ free' = free + 1
  <2>1. phase # "down" /\ phase' = phase /\ req[r].pc = "scan" /\ free' = free + 1
        /\ (running' = FALSE \/ running' = running)
    BY DEF ScanEnd, At
  <2>2. req \in [Slots -> RequestInfo] /\ SlotOK(req[r]) /\ running \in BOOLEAN /\ free \in Nat
    BY PoolAssumption DEF PoolInv, TypeOK
  <2> QED BY <2>1, <2>2
<1>2. "commit" \in Labels /\ "raised" \in Labels /\ "unhandled" \in Errors
  BY DEF Labels, Errors
<1>3. /\ p \in RequestInfo /\ p.pc = "commit" /\ p.holds = req[r].holds /\ ~p.second
      /\ p.stored = req[r].stored /\ p.finished = req[r].finished /\ p.status = req[r].status
  BY <1>1, <1>2 DEF RequestInfo
<1>4. /\ e \in RequestInfo /\ e.pc = "raised" /\ e.holds = req[r].holds
      /\ e.stored = req[r].stored /\ e.finished = req[r].finished /\ e.status = req[r].status
  BY <1>1, <1>2 DEF RequestInfo
<1>5. req' = [req EXCEPT ![r] = p] \/ req' = [req EXCEPT ![r] = u]
  BY DEF ScanEnd, Raised
<1> HIDE DEF e, p
<1>6. /\ u \in RequestInfo /\ u.pc = "raised" /\ u.holds = req[r].holds /\ ~u.second
      /\ u.stored = req[r].stored /\ u.finished = req[r].finished /\ u.status = req[r].status
  BY <1>4 DEF RequestInfo
<1> HIDE DEF u
<1>7. SlotOK(p) /\ SlotOK(u) /\ req[r].second
  BY <1>1, <1>3, <1>6 DEF SlotOK
<1>8. req' \in [Slots -> RequestInfo] /\ req'[r] \in {p, u} /\ \A o \in Slots \ {r} : req'[o] = req[o]
  BY <1>1, <1>3, <1>5, <1>6
<1>9. free' \in Nat /\ free' + One(req'[r].holds) + One(req'[r].second)
                         = free + One(req[r].holds) + One(req[r].second)
  BY <1>1, <1>3, <1>6, <1>7, <1>8 DEF One
<1> QED BY <1>1, <1>7, <1>8, <1>9, OneSlot

----------------------------------------------------------------------------
(* The lifespan, and the theorems. *)

\* A worker that serves nothing.
LEMMA AllIdle ==
  ASSUME req = [r \in Slots |-> Idle]
  PROVE  /\ req \in [Slots -> RequestInfo] /\ \A r \in Slots : SlotOK(req[r]) /\ Ended(r)
         /\ Cardinality(Holders) = 0 /\ Cardinality(Seconds) = 0
<1>1. Holders = {} /\ Seconds = {}
  BY IdleFields DEF Holders, Seconds
<1> QED BY <1>1, IdleFields, FS_EmptySet DEF SlotOK, Ended

LEMMA LifespanStep ==
  ASSUME PoolInv, Lifespan
  PROVE  PoolInv'
<1>1. CASE Boot \/ Kill
  <2>1. req' = [r \in Slots |-> Idle] /\ phase' \in {"up", "down"} /\ running' \in BOOLEAN
        /\ free' \in 0..PoolSize /\ (phase' # "down" => free' = PoolSize)
    <3>1. PoolSize \in 0..PoolSize
      BY PoolAssumption
    <3> QED BY <1>1, <3>1 DEF PoolInv, TypeOK, Boot, Kill
  <2>2. \A r \in Slots : req'[r] = Idle
    BY <2>1
  <2>3. Holders' = {} /\ Seconds' = {}
    BY <2>2, IdleFields DEF Holders, Seconds
  <2>4. Cardinality(Holders') = 0 /\ Cardinality(Seconds') = 0
    BY <2>3, FS_EmptySet
  <2>5. TypeOK'
    BY <2>1, <2>2, IdleFields DEF TypeOK, Ended
  <2>6. \A r \in Slots : SlotOK(req[r])'
    BY <2>2, IdleFields DEF SlotOK
  <2>7. PoolAccounted'
    BY <2>1, <2>2, <2>4, IdleFields, PoolAssumption DEF PoolAccounted
  <2> QED BY <2>5, <2>6, <2>7 DEF PoolInv
<1>2. CASE Stop \/ Close
  <2>1. UNCHANGED <<free, running, req>> /\ phase # "down" /\ phase' \in {"stopping", "down"}
        /\ (phase' = "down" => \A r \in Slots : Ended(r))
    BY <1>2 DEF Stop, Close
  <2>2. TypeOK'
    BY <2>1 DEF PoolInv, TypeOK, Ended
  <2>3. PoolAccounted'
    BY <2>1 DEF PoolInv, PoolAccounted, Holders, Seconds
  <2> QED BY <2>1, <2>2, <2>3 DEF PoolInv, SlotOK
<1> QED BY <1>1, <1>2 DEF Lifespan

LEMMA InitRequests == Init => PoolInv
<1> SUFFICES ASSUME Init PROVE PoolInv
  OBVIOUS
<1>1. TypeOK
  <2>1. PoolSize \in 0..PoolSize
    BY PoolAssumption
  <2>2. req \in [Slots -> RequestInfo] /\ \A r \in Slots : Ended(r)
    BY AllIdle DEF Init
  <2> QED BY <2>1, <2>2 DEF Init, TypeOK
<1>2. PoolAccounted
  BY DEF Init, PoolAccounted
<1> QED BY <1>1, <1>2, AllIdle DEF Init, PoolInv

LEMMA NextRequests == PoolInv /\ [Next]_vars => PoolInv'
<1> SUFFICES ASSUME PoolInv, [Next]_vars PROVE PoolInv'
  OBVIOUS
<1>1. ASSUME NEW r \in Slots, Step(r) PROVE PoolInv'
  BY <1>1, HealthStep, AdmitStep, CheckoutStep, RefuseStep, CommitEarlyStep, RespondStep,
     ScanBeginStep, ScanEndStep, CommitStep, RollbackStep, HandleStep, FinishStep,
     ServerErrorStep DEF Step
<1>2. ASSUME NEW r \in Slots, Client(r) PROVE PoolInv'
  <2>1. ASSUME BodySent(r) PROVE PoolInv'
    BY <2>1, GoStep DEF BodySent, At
  <2> QED BY <1>2, <2>1, ArriveStep, RollbackStep DEF Client
<1>3. CASE UNCHANGED vars
  BY <1>3 DEF vars, PoolInv, TypeOK, Ended, PoolAccounted, Holders, Seconds, SlotOK
<1> QED BY <1>1, <1>2, <1>3, LifespanStep DEF Next

LEMMA RequestsAlways == Spec => []PoolInv
<1>1. Init => PoolInv
  BY InitRequests
<1>2. PoolInv /\ [Next]_vars => PoolInv'
  BY NextRequests
<1> QED BY <1>1, <1>2, PTL DEF Spec

\* TypeOK for any pool and any requests at once: the pool never hands out more
\* than it has, and the engine is disposed of when nobody uses it.
THEOREM RequestsTypes == Spec => []TypeOK
<1>1. PoolInv => TypeOK
  BY DEF PoolInv
<1> QED BY <1>1, RequestsAlways, PTL

\* PoolAccounted for any pool: whatever fails, times out or is cancelled, every
\* connection is in the pool or with a request that will give it back.
THEOREM PoolSafe == Spec => []PoolAccounted
<1>1. PoolInv => PoolAccounted
  BY DEF PoolInv
<1> QED BY <1>1, RequestsAlways, PTL

\* OutcomeTrue for any requests at once: the layers of exception handling agree
\* on what was answered, also for failures behind the response.
THEOREM OutcomesTrue == Spec => []OutcomeTrue
<1>1. PoolInv => OutcomeTrue
  BY DEF PoolInv, OutcomeTrue, SlotOK
<1> QED BY <1>1, RequestsAlways, PTL

----------------------------------------------------------------------------
(* The exchange that is seen from outside. *)

Sight == <<Replies, Logs, Stored, Quiet, Over>>

\* What is seen of a slot changes, and nothing of the others.
LEMMA OnlyOneSeen ==
  ASSUME NEW r \in Slots, \A o \in Slots \ {r} : req'[o] = req[o]
  PROVE  /\ Replies' = [Replies EXCEPT ![r] = req'[r].status]
         /\ Logs' = [Logs EXCEPT ![r] = req'[r].finished]
         /\ Stored' = (IF req'[r].stored THEN Stored \cup {r} ELSE Stored \ {r})
         /\ Quiet' = (IF req'[r].kind = "health" THEN Quiet \cup {r} ELSE Quiet \ {r})
         /\ Over' = (IF req'[r].pc \in {"idle", "done"} THEN Over \cup {r} ELSE Over \ {r})
         /\ Replies[r] = req[r].status /\ Logs[r] = req[r].finished
         /\ (r \in Stored <=> req[r].stored) /\ (r \in Quiet <=> req[r].kind = "health")
         /\ (r \in Over <=> req[r].pc \in {"idle", "done"})
<1>1. /\ Replies' = [Replies EXCEPT ![r] = req'[r].status]
      /\ Logs' = [Logs EXCEPT ![r] = req'[r].finished]
  BY DEF Replies, Logs
<1>2. Stored' = (IF req'[r].stored THEN Stored \cup {r} ELSE Stored \ {r})
  BY DEF Stored
<1>3. Quiet' = (IF req'[r].kind = "health" THEN Quiet \cup {r} ELSE Quiet \ {r})
  BY DEF Quiet
<1>4. Over' = (IF req'[r].pc \in {"idle", "done"} THEN Over \cup {r} ELSE Over \ {r})
  BY DEF Over, Ended
<1> QED BY <1>1, <1>2, <1>3, <1>4 DEF Replies, Logs, Stored, Quiet, Over, Ended

SameFor(q, p) ==
  /\ q.status = p.status /\ q.finished = p.finished
  /\ q.stored <=> p.stored
  /\ q.kind = p.kind
  /\ q.pc \in {"idle", "done"} <=> p.pc \in {"idle", "done"}

\* Most steps are inside of the worker.
LEMMA Unseen ==
  ASSUME req \in [Slots -> RequestInfo], req' \in [Slots -> RequestInfo],
         \A r \in Slots : SameFor(req'[r], req[r])
  PROVE  UNCHANGED Sight
BY DEF Sight, Replies, Logs, Stored, Quiet, Over, Ended, SameFor

\* Every step of a slot is seen as one step of the exchange, or not at all.
LEMMA SlotSeen ==
  ASSUME PoolInv, PoolInv', NEW r \in Slots, Step(r) \/ Client(r)
  PROVE  Exchange!Next \/ UNCHANGED Sight
<1>1. /\ req \in [Slots -> RequestInfo] /\ req[r] \in RequestInfo /\ SlotOK(req[r])
      /\ req' \in [Slots -> RequestInfo] /\ req'[r] \in RequestInfo
  BY DEF PoolInv, TypeOK
<1>2. \A o \in Slots \ {r} : req'[o] = req[o]
  BY <1>1 DEF Step, Client, Health, Admit, Checkout, PoolTimeout, CommitEarly, Refuse, Respond,
    ScanBegin, ScanTimeout, ScanEnd, Commit, Rollback, Handle, Finish, ServerError, BodySent,
    Disconnect, Arrive, Go, Raised
<1>3. ASSUME SameFor(req'[r], req[r]) PROVE UNCHANGED Sight
  <2>1. \A o \in Slots : SameFor(req'[o], req[o])
    BY <1>2, <1>3 DEF SameFor
  <2> QED BY <1>1, <2>1, Unseen
<1>4. ASSUME NEW error, req' = Raised(r, error), ~Ended(r) PROVE SameFor(req'[r], req[r])
  BY <1>1, <1>4 DEF Raised, RequestInfo, SameFor, Ended
<1>5. CASE \E k \in Kinds : Arrive(r, k)
  <2>1. PICK k \in Kinds : Arrive(r, k)
    BY <1>5
  <2>2. req[r].pc \in {"idle", "done"} /\ req'[r] = [Idle EXCEPT !.pc = "auth", !.kind = k]
    BY <1>1, <2>1 DEF Arrive, Ended
  <2>3. /\ req'[r].pc = "auth" /\ req'[r].kind = k /\ req'[r].status = None
        /\ ~req'[r].stored /\ req'[r].finished = <<>>
    BY <2>2 DEF Idle
  <2>4. Exchange!Ask(r)
    BY <1>2, <2>2, <2>3, OnlyOneSeen DEF Exchange!Ask
  <2> QED BY <2>4 DEF Exchange!Next
<1>6. CASE Health(r) \/ Respond(r)
  <2>1. /\ req[r].pc \in {"auth", "query", "work"} /\ req[r].status = None /\ req[r].finished = <<>>
        /\ req'[r].pc \notin {"idle", "done"} /\ req'[r].status = 200
        /\ req'[r].finished = <<>> /\ req'[r].kind = req[r].kind
        /\ req'[r].stored = req[r].stored
    <3>1. CASE Health(r)
      BY <1>1, <3>1 DEF Health, At, SlotOK, RequestInfo
    <3>2. CASE Respond(r)
      BY <1>1, <3>2 DEF Respond, InHandler, At, SlotOK, RequestInfo
    <3> QED BY <1>6, <3>1, <3>2
  <2>2. Logs' = Logs /\ Stored' = Stored /\ Quiet' = Quiet /\ Over' = Over
    BY <1>2, <2>1 DEF Logs, Stored, Quiet, Over, Ended
  <2>3. Exchange!Answer(r)
    BY <1>2, <2>1, <2>2, OnlyOneSeen DEF Exchange!Answer, Exchange!Unanswered
  <2> QED BY <2>3 DEF Exchange!Next
<1>7. CASE \/ Admit(r) \/ Checkout(r) \/ PoolTimeout(r) \/ CommitEarly(r) \/ Refuse(r)
           \/ ScanTimeout(r) \/ Rollback(r) \/ BodySent(r) \/ Disconnect(r)
  <2>1. SameFor(req'[r], req[r])
    <3>1. CASE Admit(r) \/ Refuse(r) \/ PoolTimeout(r) \/ ScanTimeout(r)
      BY <1>1, <1>4, <3>1 DEF Admit, Refuse, PoolTimeout, ScanTimeout, InHandler, At, Ended, Go,
        SameFor, RequestInfo
    <3>2. CASE Checkout(r)
      BY <1>1, <1>4, <3>2 DEF Checkout, At, Ended, SameFor, RequestInfo
    <3>3. CASE CommitEarly(r) \/ Rollback(r)
      BY <1>1, <3>3 DEF CommitEarly, Rollback, At, SameFor, RequestInfo
    <3>4. CASE BodySent(r) \/ Disconnect(r)
      BY <1>1, <3>4 DEF BodySent, Disconnect, At, Go, SameFor, RequestInfo
    <3> QED BY <1>7, <3>1, <3>2, <3>3, <3>4
  <2> QED BY <1>3, <2>1
<1>8. CASE ScanBegin(r) \/ ScanEnd(r)
  <2>1. SameFor(req'[r], req[r])
    <3>1. CASE ScanBegin(r)
      BY <1>1, <3>1 DEF ScanBegin, At, SameFor, RequestInfo
    <3>2. CASE ScanEnd(r)
      BY <1>1, <3>2 DEF ScanEnd, Raised, At, SameFor, RequestInfo
    <3> QED BY <1>8, <3>1, <3>2
  <2> QED BY <1>3, <2>1
<1>9. CASE Commit(r)
  <2>1. req[r].pc = "commit" /\ req[r].status = 200 /\ req[r].finished = <<>>
    BY <1>1, <1>9 DEF Commit, At, SlotOK
  <2>2. CASE req' = Raised(r, "unhandled")
    BY <1>3, <1>4, <2>1, <2>2 DEF Ended
  <2>3. CASE req' = [req EXCEPT ![r] = [@ EXCEPT !.holds = FALSE, !.stored = TRUE, !.pc = "finish"]]
    <3>1. /\ req'[r].pc = "finish" /\ req'[r].kind = req[r].kind /\ req'[r].status = 200
          /\ req'[r].stored /\ req'[r].finished = <<>>
      BY <1>1, <2>1, <2>3 DEF RequestInfo
    <3>2. Replies' = Replies /\ Logs' = Logs /\ Quiet' = Quiet /\ Over' = Over
      BY <1>2, <2>1, <3>1 DEF Replies, Logs, Quiet, Over, Ended
    <3>3. Exchange!Store(r)
      BY <1>2, <2>1, <3>1, <3>2, OnlyOneSeen, NoneAssumption
         DEF Exchange!Store, Exchange!Answered, Codes
    <3> QED BY <3>3 DEF Exchange!Next
  <2> QED BY <1>9, <2>2, <2>3 DEF Commit
<1>10. CASE Handle(r)
  <2>1. req[r].pc = "failed" /\ req[r].finished = <<>>
    BY <1>1, <1>10 DEF Handle, At, SlotOK
  <2>2. CASE req[r].status = None /\ req[r].error = "handled"
    <3>1. /\ req'[r].pc = "finish" /\ req'[r].kind = req[r].kind /\ req'[r].status = 400
          /\ req'[r].stored = req[r].stored /\ req'[r].finished = <<>>
      BY <1>1, <1>10, <2>1, <2>2 DEF Handle, RequestInfo
    <3>2. Logs' = Logs /\ Stored' = Stored /\ Quiet' = Quiet /\ Over' = Over
      BY <1>2, <2>1, <3>1 DEF Logs, Stored, Quiet, Over, Ended
    <3>3. Exchange!Answer(r)
      BY <1>2, <2>1, <2>2, <3>1, <3>2, OnlyOneSeen DEF Exchange!Answer, Exchange!Unanswered
    <3> QED BY <3>3 DEF Exchange!Next
  <2>3. CASE ~(req[r].status = None /\ req[r].error = "handled")
    <3>1. SameFor(req'[r], req[r])
      BY <1>1, <1>10, <2>1, <2>3 DEF Handle, SameFor, RequestInfo
    <3> QED BY <1>3, <3>1
  <2> QED BY <2>2, <2>3
<1>11. CASE Finish(r)
  <2>1. req[r].pc = "finish" /\ req[r].finished = <<>>
    BY <1>1, <1>11 DEF Finish, At, SlotOK
  <2>2. \A c : Append(<<>>, c) = <<c>>
    OBVIOUS
  <2>3. /\ req'[r].kind = req[r].kind /\ req'[r].status = req[r].status
        /\ req'[r].stored = req[r].stored
        /\ req'[r].pc = IF req[r].status = None THEN "reraised" ELSE "done"
        /\ req'[r].finished =
             IF req[r].kind = "health" THEN <<>>
             ELSE <<IF req[r].status = None THEN 500 ELSE req[r].status>>
    BY <1>1, <1>11, <2>1, <2>2 DEF Finish, RequestInfo
  <2>4. Replies' = Replies /\ Stored' = Stored /\ Quiet' = Quiet
    BY <1>2, <2>3 DEF Replies, Stored, Quiet
  <2>5. CASE req[r].status # None
    <3>1. Exchange!End(r)
      BY <1>2, <2>1, <2>3, <2>4, <2>5, OnlyOneSeen DEF Exchange!End, Exchange!Answered
    <3> QED BY <3>1 DEF Exchange!Next
  <2>6. CASE req[r].status = None /\ req[r].kind # "health"
    <3>1. Over' = Over
      BY <1>2, <2>1, <2>3, <2>6 DEF Over, Ended
    <3>2. req'[r].finished = <<500>>
      BY <2>3, <2>6
    <3>3. Exchange!Fail(r)
      BY <1>2, <2>1, <2>4, <2>6, <3>1, <3>2, OnlyOneSeen DEF Exchange!Fail, Exchange!Unanswered
    <3> QED BY <3>3 DEF Exchange!Next
  <2>7. CASE req[r].status = None /\ req[r].kind = "health"
    <3>1. SameFor(req'[r], req[r])
      BY <2>1, <2>3, <2>7 DEF SameFor
    <3> QED BY <1>3, <3>1
  <2> QED BY <2>5, <2>6, <2>7
<1>12. CASE ServerError(r)
  <2>1. /\ req[r].pc = "reraised" /\ req[r].status = None
        /\ req[r].finished = IF req[r].kind = "health" THEN <<>> ELSE <<500>>
    BY <1>1, <1>12 DEF ServerError, At, SlotOK
  <2>2. req'[r] = [req[r] EXCEPT !.status = 500, !.pc = "done"]
    BY <1>1, <1>12 DEF ServerError
  <2>3. /\ req'[r].pc = "done" /\ req'[r].kind = req[r].kind /\ req'[r].status = 500
        /\ req'[r].stored = req[r].stored /\ req'[r].finished = req[r].finished
    BY <1>1, <2>2 DEF RequestInfo
  <2>4. Logs' = Logs /\ Stored' = Stored /\ Quiet' = Quiet
    BY <1>2, <2>3 DEF Logs, Stored, Quiet
  <2>5. Exchange!Apologise(r)
    BY <1>2, <2>1, <2>3, <2>4, OnlyOneSeen DEF Exchange!Apologise
  <2> QED BY <2>5 DEF Exchange!Next
<1> QED BY <1>5, <1>6, <1>7, <1>8, <1>9, <1>10, <1>11, <1>12 DEF Step, Client

\* KeepsExchange for any pool and any requests at once: the session of get_db,
\* the exception handlers, the logging middleware and ServerErrorMiddleware
\* together implement the exchange that a client and a reader of the log see.
THEOREM ExchangeKept == Spec => KeepsExchange
<1>1. Idle.kind # "health"
  BY NoneAssumption DEF Idle
<1>2. ASSUME Init PROVE Exchange!Init
  BY <1>1, <1>2, IdleFields
     DEF Init, Exchange!Init, Replies, Logs, Stored, Quiet, Over, Ended
<1>3. ASSUME PoolInv, PoolInv', [Next]_vars PROVE Exchange!Next \/ UNCHANGED Sight
  <2>1. CASE Boot \/ Kill
    <3>1. \A r \in Slots : req'[r] = Idle
      BY <2>1 DEF Boot, Kill
    <3>2. Exchange!Reset
      BY <1>1, <3>1, IdleFields
         DEF Exchange!Reset, Exchange!Init, Replies, Logs, Stored, Quiet, Over, Ended
    <3> QED BY <3>2 DEF Exchange!Next
  <2>2. CASE Stop \/ Close \/ UNCHANGED vars
    BY <2>2 DEF Stop, Close, vars, Sight, Replies, Logs, Stored, Quiet, Over, Ended
  <2> QED BY <1>3, <2>1, <2>2, SlotSeen DEF Next, Lifespan
<1>4. PoolInv /\ PoolInv' /\ [Next]_vars => [Exchange!Next]_(Exchange!vars)
  BY <1>3 DEF Sight, Exchange!vars
<1> QED BY <1>2, <1>4, RequestsAlways, PTL DEF Spec, KeepsExchange, Exchange!Spec

----------------------------------------------------------------------------
(* The way of a request. *)

\* How many steps a request has left at most; early: the handler has committed
\* already, which it does once.
StepsLeft(q) ==
  CASE q.pc = "auth" -> 12
    [] q.pc = "query" -> IF q.early THEN 9 ELSE 11
    [] q.pc = "work" -> IF q.early THEN 8 ELSE 10
    [] q.pc = "task" -> 7
    [] q.pc \in {"body", "scan"} -> 6
    [] q.pc = "commit" -> 5
    [] q.pc = "raised" -> 4
    [] q.pc = "failed" -> 3
    [] q.pc = "finish" -> 2
    [] q.pc = "reraised" -> 1
    [] OTHER -> 0

\* No request ever goes back: each of its steps, and of its client's, brings it
\* nearer to its end, whatever the others do.
EveryoneAdvances ==
  [][\A r \in Slots : ~Ended(r) =>
       \/ req'[r] = req[r]
       \/ req'[r] = Idle
       \/ StepsLeft(req'[r]) \in 0 .. StepsLeft(req[r]) - 1]_vars

LEMMA Onward ==
  ASSUME PoolInv, NEW r \in Slots, Step(r) \/ BodySent(r) \/ Disconnect(r)
  PROVE  /\ StepsLeft(req'[r]) \in 0 .. StepsLeft(req[r]) - 1
         /\ \A o \in Slots \ {r} : req'[o] = req[o]
<1>1. req \in [Slots -> RequestInfo] /\ req[r] \in RequestInfo
  BY DEF PoolInv, TypeOK
<1>2. \A o \in Slots \ {r} : req'[o] = req[o]
  BY <1>1 DEF Step, Health, Admit, Checkout, PoolTimeout, CommitEarly, Refuse, Respond, ScanBegin,
    ScanTimeout, ScanEnd, Commit, Rollback, Handle, Finish, ServerError, BodySent, Disconnect, Go,
    Raised
<1>3. ASSUME NEW error, req' = Raised(r, error) PROVE req'[r].pc = "raised"
  BY <1>1, <1>3 DEF Raised, RequestInfo
<1>4. ASSUME NEW l, Go(r, l) PROVE req'[r].pc = l /\ req'[r].early = req[r].early
  BY <1>1, <1>4 DEF Go, RequestInfo
<1>5. CASE Health(r) \/ Admit(r)
  <2>1. req[r].pc = "auth" /\ req'[r].pc \in {"finish", "raised", "query"}
    BY <1>1, <1>3, <1>4, <1>5 DEF Health, Admit, At, RequestInfo
  <2> QED BY <1>2, <2>1 DEF StepsLeft
<1>6. CASE Checkout(r) \/ PoolTimeout(r) \/ Refuse(r) \/ Respond(r)
  <2>1. /\ req[r].pc \in {"query", "work"}
        /\ \/ req'[r].pc \in {"raised", "body", "task", "commit"}
           \/ req[r].pc = "query" /\ req'[r].pc = "work" /\ req'[r].early = req[r].early
    BY <1>1, <1>3, <1>6 DEF Checkout, PoolTimeout, Refuse, Respond, InHandler, At, RequestInfo
  <2> QED BY <1>2, <2>1 DEF StepsLeft
<1>7. CASE CommitEarly(r)
  <2>1. req[r].pc = "work" /\ ~req[r].early /\ req'[r].pc = "query" /\ req'[r].early
    BY <1>1, <1>7 DEF CommitEarly, At, RequestInfo
  <2> QED BY <1>2, <2>1 DEF StepsLeft
<1>8. CASE ScanBegin(r) \/ ScanTimeout(r) \/ ScanEnd(r)
  <2>1. \/ req[r].pc = "task" /\ req'[r].pc \in {"scan", "raised"}
        \/ req[r].pc = "scan" /\ req'[r].pc \in {"commit", "raised"}
    <3>1. CASE ScanBegin(r) \/ ScanTimeout(r)
      BY <1>1, <1>3, <3>1 DEF ScanBegin, ScanTimeout, At, RequestInfo
    <3>2. CASE ScanEnd(r)
      BY <1>1, <3>2 DEF ScanEnd, At, Raised, RequestInfo
    <3> QED BY <1>8, <3>1, <3>2
  <2> QED BY <1>2, <2>1 DEF StepsLeft
<1>9. CASE BodySent(r) \/ Disconnect(r) \/ Commit(r)
  <2>1. \/ req[r].pc = "body" /\ req'[r].pc \in {"commit", "finish"}
        \/ req[r].pc = "commit" /\ req'[r].pc \in {"finish", "raised"}
    <3>1. CASE BodySent(r) \/ Disconnect(r)
      BY <1>1, <1>4, <3>1 DEF BodySent, Disconnect, At, RequestInfo
    <3>2. CASE Commit(r)
      BY <1>1, <1>3, <3>2 DEF Commit, At, RequestInfo
    <3> QED BY <1>9, <3>1, <3>2
  <2> QED BY <1>2, <2>1 DEF StepsLeft
<1>10. CASE Rollback(r) \/ Handle(r) \/ Finish(r) \/ ServerError(r)
  <2>1. \/ req[r].pc = "raised" /\ req'[r].pc = "failed"
        \/ req[r].pc = "failed" /\ req'[r].pc = "finish"
        \/ req[r].pc = "finish" /\ req'[r].pc \in {"reraised", "done"}
        \/ req[r].pc = "reraised" /\ req'[r].pc = "done"
    <3>1. CASE Rollback(r) \/ Handle(r)
      BY <1>1, <3>1 DEF Rollback, Handle, At, RequestInfo
    <3>2. CASE Finish(r)
      BY <1>1, <3>2 DEF Finish, At
    <3>3. CASE ServerError(r)
      BY <1>1, <3>3 DEF ServerError, At
    <3> QED BY <1>10, <3>1, <3>2, <3>3
  <2> QED BY <1>2, <2>1 DEF StepsLeft
<1> QED BY <1>5, <1>6, <1>7, <1>8, <1>9, <1>10 DEF Step

\* What is left of the claim that every request ends is that somebody goes on:
\* the fairness of FairSpec.
THEOREM RequestsAdvance == Spec => EveryoneAdvances
<1>1. ASSUME PoolInv, [Next]_vars, NEW r \in Slots, ~Ended(r)
      PROVE  \/ req'[r] = req[r]
             \/ req'[r] = Idle
             \/ StepsLeft(req'[r]) \in 0 .. StepsLeft(req[r]) - 1
  <2>1. CASE Lifespan
    BY <1>1, <2>1 DEF Lifespan, Boot, Stop, Close, Kill
  <2>2. ASSUME NEW o \in Slots, Step(o) \/ BodySent(o) \/ Disconnect(o)
        PROVE  \/ req'[r] = req[r]
               \/ StepsLeft(req'[r]) \in 0 .. StepsLeft(req[r]) - 1
    BY <1>1, <2>2, Onward
  <2>3. ASSUME NEW o \in Slots, NEW k \in Kinds, Arrive(o, k)
        PROVE  req'[r] = req[r]
    BY <1>1, <2>3 DEF Arrive, Ended, PoolInv, TypeOK
  <2>4. CASE UNCHANGED vars
    BY <2>4 DEF vars
  <2> QED BY <1>1, <2>1, <2>2, <2>3, <2>4 DEF Next, Client
<1>2. PoolInv /\ [Next]_vars =>
        [\A r \in Slots : ~Ended(r) =>
           \/ req'[r] = req[r]
           \/ req'[r] = Idle
           \/ StepsLeft(req'[r]) \in 0 .. StepsLeft(req[r]) - 1]_vars
  BY <1>1
<1> QED BY <1>2, RequestsAlways, PTL DEF Spec, EveryoneAdvances

=============================================================================
