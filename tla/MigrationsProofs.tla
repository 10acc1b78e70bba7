-------------------------- MODULE MigrationsProofs --------------------------
(* Proofs about Migrations, for any owners, any tables that the service writes
   to and any number of rows.  What the scripts do to a schema are recursions
   over fixed data (Straight, FoldLeft), which TLC evaluates (SoundHere): its
   result, ScriptsSound, is the hypothesis here.  What remains is proved: that runs
   in either direction, rollbacks, lost connections and the writes of the
   service in between keep schema, revision, rows and constraints together. *)
EXTENDS Migrations, TLAPS

\* The run is on its way from the committed revision to its target, with a schema
\* of the revision it has got to.  A table that it has not locked has no more
\* unique columns than it had: what the service may write there fits both.
RunOK ==
  run # None =>
    /\ run = [to |-> run.to, schema |-> run.schema, locked |-> run.locked]
    /\ run.to \in 0..Latest /\ run.schema.rev \in 0..Latest /\ run.to # db.rev
    /\ run.schema \in Variants(run.schema.rev)
    /\ IF Up THEN db.rev <= run.schema.rev /\ run.schema.rev <= run.to
             ELSE run.to <= run.schema.rev /\ run.schema.rev <= db.rev
    /\ Up => db.tables \subseteq run.schema.tables
    /\ \A t \in Tables \ run.locked :
         KeyColumn(t) \in Uniques(run.schema.keys) => KeyColumn(t) \in Uniques(db.keys)
    /\ Twice \cap Uniques(run.schema.keys) = {}

\* The committed schema is one of its revision, there are rows in its tables only,
\* and they keep its constraints.
MigrationsInv ==
  /\ rows \in [Tables -> [Owners -> Nat]]
  /\ db.rev \in 0..Latest /\ db \in Variants(db.rev)
  /\ \A t \in Tables \ db.tables : rows[t] = NoRows[t]
  /\ Twice \cap Uniques(db.keys) = {}
  /\ RunOK

-----------------------------------------------------------------------------
(* Revisions *)

LEMMA LatestNat == Latest \in Nat
BY DEF Latest, Revisions

\* All forms of the schema of a revision agree in what the proofs use.
LEMMA FormsAgree ==
  ASSUME ScriptsSound, NEW n \in 0..Latest, NEW s \in Variants(n)
  PROVE  /\ SchemaAt(s, n) /\ s # None /\ s.rev = n
         /\ s.tables = Straight[n].tables /\ s.keys = Straight[n].keys
<1>1. s # None /\ SchemaAt(s, n)
  BY DEF ScriptsSound, SoundAt
<1>. QED BY <1>1 DEF SchemaAt

-----------------------------------------------------------------------------
(* Rows *)

LEMMA KeyOf == \A t : KeyColumn(t)[1] = t
BY DEF KeyColumn

\* Rows that were there before, or the new row of InsertRow.
LEMMA FewerRows ==
  ASSUME rows \in [Tables -> [Owners -> Nat]], rows' \in [Tables -> [Owners -> Nat]],
         \A t \in Tables : \A o \in Owners : rows'[t][o] <= rows[t][o]
  PROVE  Twice' \subseteq Twice
BY DEF Twice

LEMMA TwiceFull ==
  ASSUME rows \in [Tables -> [Owners -> Nat]], NEW col \in Twice
  PROVE  col[1] \in Full /\ col = KeyColumn(col[1]) /\ col[1] \in Tables
<1>1. PICK t \in Tables : col = KeyColumn(t) /\ \E o \in Owners : rows[t][o] > 1
  BY DEF Twice
<1>. QED BY <1>1, KeyOf DEF Full

\* Only committed tables have rows.
LEMMA FullCommitted ==
  ASSUME MigrationsInv
  PROVE  Full \subseteq db.tables
BY DEF MigrationsInv, Full, NoRows

\* An upgrade has not dropped a table with rows.
LEMMA FullInRun ==
  ASSUME MigrationsInv, run # None, Up
  PROVE  Full \subseteq run.schema.tables
BY FullCommitted DEF MigrationsInv, RunOK

-----------------------------------------------------------------------------
(* The next script *)

\* Where a run is on its way.
LEMMA OnItsWay ==
  ASSUME MigrationsInv, run # None
  PROVE  /\ db.rev \in 0..Latest /\ run.to \in 0..Latest /\ run.schema.rev \in 0..Latest
         /\ run.to # db.rev /\ run.schema \in Variants(run.schema.rev)
         /\ Up => db.rev <= run.schema.rev /\ run.schema.rev <= run.to
         /\ ~Up => run.to <= run.schema.rev /\ run.schema.rev <= db.rev
BY DEF MigrationsInv, RunOK

\* Where the next script of a run leads and what it is known to do.
LEMMA UpScript ==
  ASSUME ScriptsSound, MigrationsInv, run # None, run.schema.rev # run.to, Up,
         NEW n, n = run.schema.rev, NEW m, m = n + 1
  PROVE  /\ n \in 0..Latest /\ m \in 1..Latest /\ m <= run.to /\ m - 1 = n
         /\ Script(n, Up) = Revisions[m].up
         /\ Step(run.schema, Up) \in Variants(m)
         /\ UniqueSafely(Straight[n], Straight[m], Script(n, Up))
         /\ OnlyTheseWant(m)
<1>1. n \in 0..Latest /\ m \in 1..Latest /\ m <= run.to /\ m - 1 = n
  BY LatestNat, OnItsWay
<1>2. /\ Reversible(m) /\ OnlyTheseWant(m)
      /\ UniqueSafely(Straight[m - 1], Straight[m], Revisions[m].up)
  BY <1>1, LatestNat DEF ScriptsSound, SoundAt
<1>3. Script(n, Up) = Revisions[m].up
  BY DEF Script
<1>4. run.schema \in Variants(n)
  BY OnItsWay
<1>5. Up = TRUE
  BY DEF Up
<1>6. Step(run.schema, TRUE) \in Variants(m)
  BY <1>1, <1>2, <1>4 DEF Reversible
<1>. QED BY <1>1, <1>2, <1>3, <1>5, <1>6

LEMMA DownScript ==
  ASSUME ScriptsSound, MigrationsInv, run # None, run.schema.rev # run.to, ~Up,
         NEW n, n = run.schema.rev
  PROVE  /\ n \in 1..Latest /\ n - 1 \in 0..Latest /\ run.to <= n - 1
         /\ Script(n, Up) = Revisions[n].down
         /\ IF Revisions[n] \in {R546440ad0daf, R86d89f474879}
            THEN Step(run.schema, Up) = None
            ELSE Step(run.schema, Up) # None /\ Step(run.schema, Up) \in Variants(n - 1)
         /\ UniqueSafely(Straight[n], Straight[n - 1], Script(n, Up))
         /\ OnlyTheseWant(n)
<1>1. n \in 1..Latest /\ n - 1 \in 0..Latest /\ run.to <= n - 1
  BY LatestNat, OnItsWay
<1>2. /\ Reversible(n) /\ OnlyTheseWant(n)
      /\ UniqueSafely(Straight[n], Straight[n - 1], Revisions[n].down)
  BY <1>1, LatestNat DEF ScriptsSound, SoundAt
<1>3. Script(n, Up) = Revisions[n].down
  BY DEF Script
<1>4. run.schema \in Variants(n)
  BY DEF MigrationsInv, RunOK
<1>5. Up = FALSE
  BY DEF Up
<1>6. \A s \in Variants(n - 1) : s # None
  BY <1>1, LatestNat DEF ScriptsSound, SoundAt
<1>. QED BY <1>1, <1>2, <1>3, <1>4, <1>5, <1>6 DEF Reversible

-----------------------------------------------------------------------------
(* Invariance *)

LEMMA InitInv == ScriptsSound /\ Init => MigrationsInv
<1>. SUFFICES ASSUME ScriptsSound, Init PROVE MigrationsInv
  OBVIOUS
<1>1. Twice = {}
  BY DEF Init, NoRows, Twice
<1>2. db.rev \in 0..Latest /\ db \in Variants(db.rev)
  BY LatestNat DEF Init, Empty, ScriptsSound, SoundAt
<1>. QED BY <1>1, <1>2 DEF Init, NoRows, MigrationsInv, RunOK

\* A value that comes to be there twice is one that no constraint forbids, in
\* the schema that is committed and in the one of the run.
LEMMA InsertKeeps ==
  ASSUME MigrationsInv, NEW t \in Tables, NEW o \in Owners, InsertRow(t, o)
  PROVE  MigrationsInv'
<1>1. rows' \in [Tables -> [Owners -> Nat]]
  BY DEF MigrationsInv, InsertRow
<1>2. Twice' \subseteq Twice \cup {KeyColumn(t)}
  BY DEF MigrationsInv, InsertRow, Twice
<1>3. KeyColumn(t) \in Twice' \ Twice => rows[t][o] > 0
  <2>1. ASSUME KeyColumn(t) \in Twice', rows[t][o] = 0 PROVE KeyColumn(t) \in Twice
    <3>1. PICK u \in Tables : KeyColumn(t) = KeyColumn(u) /\ \E p \in Owners : rows'[u][p] > 1
      BY <2>1 DEF Twice
    <3>2. u = t
      BY <3>1, KeyOf
    <3>. QED BY <2>1, <3>1, <3>2 DEF MigrationsInv, InsertRow, Twice
  <2>. QED BY <2>1 DEF MigrationsInv
<1>4. Twice' \cap Uniques(db.keys) = {}
  BY <1>2, <1>3 DEF MigrationsInv, InsertRow
<1>5. run # None => Twice' \cap Uniques(run.schema.keys) = {}
  BY <1>2, <1>3 DEF MigrationsInv, RunOK, InsertRow, Writable
<1>6. \A u \in Tables \ db.tables : rows'[u] = NoRows[u]
  BY DEF MigrationsInv, InsertRow, Writable
<1>7. db' = db /\ run' = run
  BY DEF InsertRow
<1>. QED BY <1>1, <1>4, <1>5, <1>6, <1>7 DEF MigrationsInv, RunOK, Up

LEMMA DeleteKeeps ==
  ASSUME MigrationsInv, NEW t \in Tables, NEW o \in Owners, DeleteRow(t, o)
  PROVE  MigrationsInv'
<1>1. /\ rows' \in [Tables -> [Owners -> Nat]]
      /\ \A u \in Tables : \A p \in Owners : rows'[u][p] <= rows[u][p]
  BY DEF MigrationsInv, DeleteRow
<1>2. Twice' \subseteq Twice
  BY <1>1, FewerRows DEF MigrationsInv
<1>3. \A u \in Tables \ db.tables : rows'[u] = NoRows[u]
  BY DEF MigrationsInv, DeleteRow, Writable
<1>4. db' = db /\ run' = run
  BY DEF DeleteRow
<1>. QED BY <1>1, <1>2, <1>3, <1>4 DEF MigrationsInv, RunOK, Up

LEMMA StartKeeps ==
  ASSUME ScriptsSound, MigrationsInv, NEW to \in 0..Latest, Start(to)
  PROVE  MigrationsInv'
<1>1. run' = [to |-> to, schema |-> db, locked |-> {}] /\ to # db.rev /\ db' = db /\ rows' = rows
  BY DEF Start
<1>2. Twice' = Twice
  BY <1>1 DEF Twice
<1>3. db.rev \in Nat /\ to \in Nat
  BY LatestNat DEF MigrationsInv
<1>4. RunOK'
  BY <1>1, <1>2, <1>3 DEF MigrationsInv, RunOK, Up
<1>. QED BY <1>1, <1>2, <1>4 DEF MigrationsInv

\* What a script makes unique it has locked, and it has looked at the rows.
LEMMA UniqueStep ==
  ASSUME ScriptsSound, MigrationsInv, run # None, ~Blocked,
         NEW n \in 0..Latest, NEW m \in 0..Latest, n = run.schema.rev,
         NEW s \in Variants(m), UniqueSafely(Straight[n], Straight[m], Script(n, Up))
  PROVE  /\ Twice \cap Uniques(s.keys) = {}
         /\ \A t \in Tables \ (run.locked \cup Touched(Script(n, Up))) :
              KeyColumn(t) \in Uniques(s.keys) => KeyColumn(t) \in Uniques(db.keys)
<1>1. s.keys = Straight[m].keys /\ run.schema.keys = Straight[n].keys
  BY FormsAgree, OnItsWay
<1>2. /\ Uniques(s.keys) \subseteq Uniques(run.schema.keys) \cup WantsUnique(Script(n, Up))
      /\ \A col \in WantsUnique(Script(n, Up)) : col[1] \in Touched(Script(n, Up))
  BY <1>1 DEF UniqueSafely
<1>3. Twice \cap WantsUnique(Script(n, Up)) = {}
  BY DEF Blocked
<1>4. /\ Twice \cap Uniques(run.schema.keys) = {}
      /\ \A t \in Tables \ run.locked :
           KeyColumn(t) \in Uniques(run.schema.keys) => KeyColumn(t) \in Uniques(db.keys)
  BY DEF MigrationsInv, RunOK
<1>. QED BY <1>2, <1>3, <1>4, KeyOf

LEMMA MigrateKeeps ==
  ASSUME ScriptsSound, MigrationsInv, Migrate
  PROVE  MigrationsInv'
<1> DEFINE n == run.schema.rev
           s == Step(run.schema, Up)
           m == IF Up THEN n + 1 ELSE n - 1
<1>1. run # None /\ n # run.to /\ db' = db /\ rows' = rows
  BY DEF Migrate
<1>2. Twice' = Twice
  BY <1>1 DEF Twice
<1>3. CASE Blocked \/ s = None
  <2>1. run' = None
    BY <1>3 DEF Migrate
  <2>. QED BY <1>1, <1>2, <2>1 DEF MigrationsInv, RunOK
<1>4. CASE ~Blocked /\ s # None
  <2>1. run' = [to |-> run.to, schema |-> s, locked |-> run.locked \cup Touched(Script(n, Up))]
    <3>1. run = [to |-> run.to, schema |-> run.schema, locked |-> run.locked]
      BY <1>1 DEF MigrationsInv, RunOK
    <3>. QED BY <1>4, <3>1 DEF Migrate
  <2>2. /\ m \in 0..Latest /\ n \in 0..Latest /\ s \in Variants(m)
        /\ UniqueSafely(Straight[n], Straight[m], Script(n, Up))
        /\ Up => Straight[n].tables \subseteq Straight[m].tables
        /\ IF Up THEN db.rev <= m /\ m <= run.to ELSE run.to <= m /\ m <= db.rev
    <3>1. CASE Up
      <4>1. m = n + 1
        BY <3>1
      <4> HIDE DEF m
      <4>2. /\ n \in 0..Latest /\ m \in 1..Latest /\ m <= run.to /\ s \in Variants(m)
            /\ UniqueSafely(Straight[n], Straight[m], Script(n, Up))
        BY <1>1, <3>1, <4>1, UpScript
      <4>5. Straight[n].tables \subseteq Straight[m].tables
        <5>1. Reversible(m) /\ m - 1 = n
          BY <4>1, <4>2, LatestNat DEF ScriptsSound, SoundAt
        <5>. QED BY <5>1 DEF Reversible
      <4>3. db.rev \in 0..Latest /\ db.rev <= n
        BY <1>1, <3>1, OnItsWay
      <4>4. m \in 0..Latest /\ db.rev <= m
        BY <4>1, <4>2, <4>3, LatestNat
      <4>. QED BY <3>1, <4>2, <4>4, <4>5 DEF m
    <3>2. CASE ~Up
      BY <1>1, <1>4, <3>2, DownScript, OnItsWay, LatestNat
    <3>. QED BY <3>1, <3>2
  <2>3. s.rev = m
    BY <2>2, FormsAgree
  <2>4. Up' <=> Up
    BY <1>1, <2>1 DEF Up
  <2>5. Up => db.tables \subseteq s.tables
    <3>1. CASE Up
      <4>1. Straight[n].tables \subseteq Straight[m].tables
        BY <2>2, <3>1
      <4>2. s.tables = Straight[m].tables /\ run.schema.tables = Straight[n].tables
        BY <1>1, <2>2, FormsAgree, OnItsWay
      <4>3. db.tables \subseteq run.schema.tables
        BY <1>1, <3>1 DEF MigrationsInv, RunOK
      <4>. QED BY <4>1, <4>2, <4>3
    <3>. QED BY <3>1
  <2>6. /\ Twice \cap Uniques(s.keys) = {}
        /\ \A t \in Tables \ (run.locked \cup Touched(Script(n, Up))) :
             KeyColumn(t) \in Uniques(s.keys) => KeyColumn(t) \in Uniques(db.keys)
    BY <1>1, <1>4, <2>2, UniqueStep
  <2>7. RunOK'
    <3>1. run.to \in 0..Latest /\ run.to # db.rev
      BY <1>1, OnItsWay
    <3> HIDE DEF n, s, m
    <3>2. /\ run'.to = run.to /\ run'.schema = s
          /\ run'.locked = run.locked \cup Touched(Script(n, Up))
      BY <2>1
    <3>. QED BY <1>1, <1>2, <2>1, <2>2, <2>3, <2>4, <2>5, <2>6, <3>1, <3>2 DEF RunOK
  <2>. QED BY <1>1, <1>2, <2>7 DEF MigrationsInv
<1>. QED BY <1>3, <1>4

LEMMA CommitKeeps ==
  ASSUME ScriptsSound, MigrationsInv, Commit
  PROVE  MigrationsInv'
<1>1. /\ run # None /\ db' = run.schema /\ run' = None
      /\ rows' = [t \in Tables |-> IF t \in db'.tables THEN rows[t] ELSE NoRows[t]]
  BY DEF Commit
<1>2. /\ rows' \in [Tables -> [Owners -> Nat]]
      /\ \A t \in Tables : \A o \in Owners : rows'[t][o] <= rows[t][o]
  BY <1>1 DEF MigrationsInv, NoRows
<1>3. Twice' \subseteq Twice
  BY <1>2, FewerRows DEF MigrationsInv
<1>4. db'.rev \in 0..Latest /\ db' \in Variants(db'.rev)
  BY <1>1, OnItsWay
<1>5. Twice' \cap Uniques(db'.keys) = {}
  BY <1>1, <1>3 DEF MigrationsInv, RunOK
<1>. QED BY <1>1, <1>2, <1>4, <1>5 DEF MigrationsInv, RunOK, NoRows

LEMMA StepKeeps == ScriptsSound /\ MigrationsInv /\ [Next]_vars => MigrationsInv'
<1>. SUFFICES ASSUME ScriptsSound, MigrationsInv, [Next]_vars PROVE MigrationsInv'
  OBVIOUS
<1>1. CASE UNCHANGED vars
  BY <1>1 DEF vars, MigrationsInv, RunOK, Up, Twice
<1>2. CASE Break
  <2>1. db' = db /\ rows' = rows /\ run' = None
    BY <1>2 DEF Break
  <2>. QED BY <2>1 DEF MigrationsInv, RunOK, Twice
<1>3. CASE \E t \in Tables, o \in Owners : InsertRow(t, o) \/ DeleteRow(t, o)
  BY <1>3, InsertKeeps, DeleteKeeps
<1>4. CASE Migrate \/ Commit \/ \E to \in 0..Latest : Start(to)
  BY <1>4, MigrateKeeps, CommitKeeps, StartKeeps
<1>. QED BY <1>1, <1>2, <1>3, <1>4 DEF Next, Run

-----------------------------------------------------------------------------
(* Theorems *)

THEOREM MigrationsSafe == ASSUME ScriptsSound PROVE Spec => []MigrationsInv
<1>1. Init => MigrationsInv
  BY InitInv
<1>2. MigrationsInv /\ [Next]_vars => MigrationsInv'
  BY StepKeeps
<1>. QED BY <1>1, <1>2, PTL DEF Spec

\* The schema depends on alembic_version alone, whichever way up and down it was
\* reached, whatever failed on the way and whatever the service wrote meanwhile;
\* the last one has the columns of the models, one NOT NULL less and one unique
\* column more.
THEOREM SchemaKept == ASSUME ScriptsSound PROVE Spec => []SchemaOfRevision
<1>1. MigrationsInv => SchemaOfRevision
  BY FormsAgree, LatestNat DEF MigrationsInv, SchemaOfRevision, ScriptsSound, SoundAt
<1>. QED BY <1>1, MigrationsSafe, PTL

\* On the last schema no user has a second row in refresh_tokens, revoked or not:
\* the constraint of 546440ad0daf refuses the INSERT of a second login.
THEOREM OneSessionRow ==
  ASSUME ScriptsSound
  PROVE  Spec => [](db.rev = Latest => \A o \in Owners : rows["refresh_tokens"][o] <= 1)
<1>1. MigrationsInv =>
        (db.rev = Latest => \A o \in Owners : rows["refresh_tokens"][o] <= 1)
  <2>. SUFFICES ASSUME MigrationsInv, db.rev = Latest, NEW o \in Owners
                PROVE  rows["refresh_tokens"][o] <= 1
    OBVIOUS
  <2>1. AgainstModels(db)
    BY LatestNat DEF MigrationsInv, ScriptsSound, SoundAt
  <2>2. KeyColumn("refresh_tokens") \notin Twice
    BY <2>1 DEF MigrationsInv, AgainstModels, KeyColumn
  <2>. QED BY <2>2 DEF MigrationsInv, Twice, Tables
<1>. QED BY <1>1, MigrationsSafe, PTL

\* A script that adds columns names their table.
LEMMA ScriptsDiffer == Rad5018d5d6b5 \notin {R546440ad0daf, R38b998f89bb2}
<1>1. \A t, names, kind : AddColumns(t, names, kind).table = t
  BY DEF AddColumns, NoChange
<1>2. /\ R546440ad0daf.up[1].table = "refresh_tokens"
      /\ R38b998f89bb2.up[1].table = "refresh_tokens"
      /\ Rad5018d5d6b5.up[1].table = "playback_state"
  BY <1>1 DEF R546440ad0daf, R38b998f89bb2, Rad5018d5d6b5
<1>. QED BY <1>2

\* Rows stop the four named upgrades and nothing else does; the two scripts that
\* drop a constraint without a name are the only ones that cannot be undone.
LEMMA UpFails ==
  ASSUME ScriptsSound, MigrationsInv, run # None, run.schema.rev # run.to, Up,
         NEW m, m = run.schema.rev + 1
  PROVE  (Blocked \/ Step(run.schema, Up) = None) <=>
           \/ Revisions[m] \in {R546440ad0daf, R38b998f89bb2} /\ "refresh_tokens" \in Full
           \/ Revisions[m] = Rad5018d5d6b5 /\ "playback_state" \in Full
           \/ Revisions[m] = R86d89f474879 /\ <<"playback_state", "user_id">> \in Twice
<1> DEFINE n == run.schema.rev
           cs == Script(n, Up)
           r == Revisions[m]
<1>1. /\ n \in 0..Latest /\ m \in 1..Latest /\ m - 1 = n /\ cs = r.up
      /\ Step(run.schema, Up) \in Variants(m) /\ OnlyTheseWant(m)
  BY UpScript
<1>2. Step(run.schema, Up) # None
  <2>1. m \in 0..Latest
    BY <1>1, LatestNat
  <2>. QED BY <1>1, <2>1, FormsAgree
<1>3. /\ run.schema.tables = Straight[n].tables /\ run.schema.keys = Straight[n].keys
  BY <1>1, FormsAgree, OnItsWay
<1>4. Full \subseteq Straight[n].tables
  BY <1>3, FullInRun
<1>5. WantsEmpty(cs) \cap Straight[n].tables =
        IF r \in {R546440ad0daf, R38b998f89bb2} THEN {"refresh_tokens"}
        ELSE IF r = Rad5018d5d6b5 THEN {"playback_state"} ELSE {}
  BY <1>1 DEF OnlyTheseWant
<1>6. NewlyUnique(Straight[n], cs, Straight[n].tables) =
        IF r = R86d89f474879 THEN {<<"playback_state", "user_id">>} ELSE {}
  BY <1>1 DEF OnlyTheseWant
<1>7. WantsUnique(cs) \cap Twice = NewlyUnique(Straight[n], cs, Straight[n].tables) \cap Twice
  <2>1. Twice \cap Uniques(Straight[n].keys) = {}
    BY <1>3 DEF MigrationsInv, RunOK
  <2>2. \A col \in Twice : col[1] \in Straight[n].tables /\ col = KeyColumn(col[1])
    BY <1>4, TwiceFull DEF MigrationsInv
  <2>. QED BY <2>1, <2>2 DEF NewlyUnique
<1>8. Blocked <=> WantsEmpty(cs) \cap Full # {} \/ WantsUnique(cs) \cap Twice # {}
  BY DEF Blocked
<1> HIDE DEF n, cs, r
<1>9. WantsEmpty(cs) \cap Full # {} <=>
        \/ r \in {R546440ad0daf, R38b998f89bb2} /\ "refresh_tokens" \in Full
        \/ r = Rad5018d5d6b5 /\ "playback_state" \in Full
  <2>1. WantsEmpty(cs) \cap Full = (WantsEmpty(cs) \cap Straight[n].tables) \cap Full
    BY <1>4
  <2>2. ~(r \in {R546440ad0daf, R38b998f89bb2} /\ r = Rad5018d5d6b5)
    BY ScriptsDiffer
  <2>. QED BY <1>5, <2>1, <2>2
<1>10. WantsUnique(cs) \cap Twice # {} <=>
         r = R86d89f474879 /\ <<"playback_state", "user_id">> \in Twice
  BY <1>6, <1>7
<1>. QED BY <1>2, <1>8, <1>9, <1>10 DEF r

LEMMA DownFails ==
  ASSUME ScriptsSound, MigrationsInv, run # None, run.schema.rev # run.to, ~Up
  PROVE  (Blocked \/ Step(run.schema, Up) = None) <=>
           Revisions[run.schema.rev] \in {R546440ad0daf, R86d89f474879}
<1> DEFINE n == run.schema.rev
           cs == Script(n, Up)
<1>1. /\ n \in 1..Latest /\ n \in 0..Latest /\ cs = Revisions[n].down /\ OnlyTheseWant(n)
      /\ Step(run.schema, Up) = None <=> Revisions[n] \in {R546440ad0daf, R86d89f474879}
  BY DownScript, OnItsWay
<1>2. run.schema.keys = Straight[n].keys
  BY <1>1, FormsAgree, OnItsWay
<1>3. WantsEmpty(cs) = {} /\ NewlyUnique(Straight[n], cs, Tables) = {}
  BY <1>1 DEF OnlyTheseWant
<1>4. WantsUnique(cs) \cap Twice = {}
  <2>1. Twice \cap Uniques(Straight[n].keys) = {}
    BY <1>2 DEF MigrationsInv, RunOK
  <2>2. \A col \in Twice : col[1] \in Tables /\ col = KeyColumn(col[1])
    BY TwiceFull DEF MigrationsInv
  <2>. QED BY <1>3, <2>1, <2>2 DEF NewlyUnique
<1>5. ~Blocked
  BY <1>3, <1>4 DEF Blocked
<1>. QED BY <1>1, <1>5

THEOREM FailuresKnown == ASSUME ScriptsSound PROVE Spec => []OnlyRowsBlock
<1>1. MigrationsInv => OnlyRowsBlock
  BY UpFails, DownFails DEF OnlyRowsBlock
<1>. QED BY <1>1, MigrationsSafe, PTL

=============================================================================
