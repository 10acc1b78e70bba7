----------------------------- MODULE Migrations -----------------------------
(* The alembic scripts (src/alembic/versions) as data and alembic's run of them
   (src/alembic/env.py): every revision is a pair of sequences of DDL
   statements, an upgrade or downgrade walks from the stored revision to its
   target in ONE transaction, and the service goes on writing to the tables the
   transaction has not locked.  PostgreSQL names the unique constraints that a
   script leaves unnamed; a statement fails on rows it cannot serve, and then
   the whole run is rolled back.

   A column is a pair <<table, name>>.  Columns that no statement can fail on
   (id, created_at, updated_at) and plain indexes are left out. *)
EXTENDS Naturals, Sequences, FiniteSets, Functions, SequencesExt, TLC

CONSTANTS
  Owners,     \* values of the column a table's rows can repeat: e-mail or user_id
  Busy,       \* tables the service writes to during the run of TLC
  MaxRows,    \* bound: rows of one owner in one table
  None

ASSUME RowsAssumption == MaxRows \in Nat \ {0}

----------------------------------------------------------------------------
(* DDL statements.  A statement is a record of what it takes away and adds. *)

NoChange == [table |-> None, create |-> FALSE, drop |-> FALSE, add |-> <<>>, alter |-> <<>>,
             gone |-> {}, key |-> {}, unkey |-> {}, type |-> {}, untype |-> {}]

\* A column is "required" (NOT NULL, no default), "filled" (NOT NULL with a
\* server default) or "null".
Columns(t, names, kind) == [c \in {t} \X names |-> kind]

\* A unique constraint is a triple <<table, column, n>>: PostgreSQL's name for it
\* is table_column_key with n behind it if n > 0; n = None where a script passes
\* None as the name.
CreateTable(t, required, null, keys) ==
  [NoChange EXCEPT !.table = t, !.create = TRUE, !.key = {<<t, k, 0>> : k \in keys},
                   !.add = Columns(t, required, "required") @@ Columns(t, null, "null")]
DropTable(t) == [NoChange EXCEPT !.table = t, !.drop = TRUE]
AddColumns(t, names, kind) == [NoChange EXCEPT !.table = t, !.add = Columns(t, names, kind)]
AlterColumn(t, name, kind) == [NoChange EXCEPT !.table = t, !.alter = Columns(t, {name}, kind)]
DropColumns(t, names) == [NoChange EXCEPT !.table = t, !.gone = {t} \X names]
AddUnique(t, col, n) == [NoChange EXCEPT !.table = t, !.key = {<<t, col, n>>}]
DropUnique(t, col, n) == [NoChange EXCEPT !.table = t, !.unkey = {<<t, col, n>>}]
CreateType(e) == [NoChange EXCEPT !.type = {e}]
DropType(e) == [NoChange EXCEPT !.untype = {e}]

----------------------------------------------------------------------------
(* The scripts, in the order of their down_revision. *)

R05de4ef56609 == \* users
  [up |-> <<CreateTable("users", {"email", "name", "password"}, {},
                        {"email"})>>,
   down |-> <<DropTable("users")>>]

Ree24ff43a825 == \* refresh_tokens
  [up |-> <<CreateTable("refresh_tokens", {"refresh_token", "user_id", "revoked"}, {},
                        {"refresh_token", "user_id"})>>,
   down |-> <<DropTable("refresh_tokens")>>]

R83c6c0e93b90 == \* the token need not be unique
  [up |-> <<DropUnique("refresh_tokens", "refresh_token", 0)>>,
   down |-> <<AddUnique("refresh_tokens", "refresh_token", 0)>>]

R546440ad0daf == \* valid_till, and once more a unique user_id, without a name
  [up |-> <<AddColumns("refresh_tokens", {"valid_till"}, "required"),
            AddUnique("refresh_tokens", "user_id", None)>>,
   down |-> <<DropUnique("refresh_tokens", "user_id", None),
              DropColumns("refresh_tokens", {"valid_till"})>>]

R3d54e2e917ad == [up |-> <<>>, down |-> <<>>]

R896b4c9ea330 == \* "Drop unique for user id"
  [up |-> <<DropUnique("refresh_tokens", "user_id", 0)>>,
   down |-> <<AddUnique("refresh_tokens", "user_id", 0)>>]

R38b998f89bb2 ==
  [up |-> <<AddColumns("refresh_tokens", {"jti"}, "required")>>,
   down |-> <<DropColumns("refresh_tokens", {"jti"})>>]

Rf45258b44048 == \* a name in two parts, and the provider
  [up |-> <<CreateType("providertype"),
            AddColumns("users", {"provider_type"}, "filled"),
            AddColumns("users", {"first_name"}, "filled"),
            AddColumns("users", {"last_name"}, "filled"),
            DropColumns("users", {"name"})>>,
   down |-> <<AddColumns("users", {"name"}, "filled"),
              DropColumns("users", {"last_name"}),
              DropColumns("users", {"first_name"}),
              DropColumns("users", {"provider_type"}),
              DropType("providertype")>>]

R344bb7dac495 == [up |-> <<>>, down |-> <<>>]

\* One column for album_id and the twenty tags, which may all be NULL and which
\* no other script names.
Tags == {"tags"}

Rbdad0ad6cd15 == \* the catalogue
  [up |-> <<CreateTable("albums", {"name"}, {}, {}),
            CreateTable("artists", {"name"}, {}, {"name"}),
            CreateTable("album_artists", {"album_id", "artist_id"}, {}, {}),
            CreateTable("tracks", {"title", "duration_secs", "file_path", "file_name",
                                   "file_extension", "raw_metadata"}, Tags,
                        {"file_path"}),
            CreateTable("track_artists", {"track_id", "artist_id"}, {}, {}),
            CreateTable("track_composers", {"track_id", "artist_id"}, {}, {})>>,
   down |-> <<DropTable("track_composers"), DropTable("track_artists"), DropTable("tracks"),
              DropTable("album_artists"), DropTable("artists"), DropTable("albums")>>]

Rceb0475b998c ==
  [up |-> <<AddColumns("tracks", {"cover_path"}, "null")>>,
   down |-> <<DropColumns("tracks", {"cover_path"})>>]

R234b6fa583f1 ==
  [up |-> <<AddColumns("tracks", {"file_mtime"}, "null")>>,
   down |-> <<DropColumns("tracks", {"file_mtime"})>>]

\* The time zone of file_mtime: its nullability stays.
R9d3418ea8d27 ==
  [up |-> <<AlterColumn("tracks", "file_mtime", "null")>>,
   down |-> <<AlterColumn("tracks", "file_mtime", "null")>>]

R8d8818601ac1TypesFirst ==
  [up |-> <<CreateType("userrole"), CreateType("accountstatus"),
            AddColumns("users", {"role", "acc_status"}, "filled")>>,
   down |-> <<DropType("accountstatus"), DropType("userrole"),
              DropColumns("users", {"role", "acc_status"})>>]
R8d8818601ac1 == \* the defaults are for the rows that exist and are taken away again
  [up |-> <<CreateType("userrole"), CreateType("accountstatus"),
            AddColumns("users", {"role"}, "filled"),
            AddColumns("users", {"acc_status"}, "filled"),
            AlterColumn("users", "role", "required"),
            AlterColumn("users", "acc_status", "required")>>,
   down |-> <<DropColumns("users", {"acc_status"}), DropColumns("users", {"role"}),
              DropType("accountstatus"), DropType("userrole")>>]

R673f6b71224aKeepsTable ==
  [up |-> <<CreateTable("playback_state", {"user_id", "progress"}, {}, {})>>, down |-> <<>>]
R673f6b71224a ==
  [up |-> <<CreateTable("playback_state", {"user_id", "progress"}, {}, {})>>,
   down |-> <<DropTable("playback_state")>>]

Rad5018d5d6b5 ==
  [up |-> <<AddColumns("playback_state", {"track_id"}, "required")>>,
   down |-> <<DropColumns("playback_state", {"track_id"})>>]

R86d89f474879 == \* a unique user_id, without a name
  [up |-> <<AddUnique("playback_state", "user_id", None)>>,
   down |-> <<DropUnique("playback_state", "user_id", None)>>]

R26b4189fad10 ==
  [up |-> <<AddColumns("refresh_tokens", {"device_name", "user_agent", "ip_address"}, "null")>>,
   down |-> <<DropColumns("refresh_tokens", {"ip_address", "user_agent", "device_name"})>>]

Rcebe2cd71040WrongTable ==
  [up |-> <<AddColumns("users", {"access_jti"}, "null")>>,
   down |-> <<DropColumns("users", {"access_jti"})>>]
Rcebe2cd71040 ==
  [up |-> <<AddColumns("refresh_tokens", {"access_jti"}, "null")>>,
   down |-> <<DropColumns("refresh_tokens", {"access_jti"})>>]

Revisions == <<R05de4ef56609, Ree24ff43a825, R83c6c0e93b90, R546440ad0daf, R3d54e2e917ad,
               R896b4c9ea330, R38b998f89bb2, Rf45258b44048, R344bb7dac495, Rbdad0ad6cd15,
               Rceb0475b998c, R234b6fa583f1, R9d3418ea8d27, R8d8818601ac1, R673f6b71224a,
               Rad5018d5d6b5, R86d89f474879, R26b4189fad10, Rcebe2cd71040>>
Latest == Len(Revisions)

\* The foreign keys of the catalogue, the only ones of the schema.
References == {"album_artists"} \X {"albums", "artists"} \cup {<<"tracks", "albums">>}
                \cup {"track_artists", "track_composers"} \X {"tracks", "artists"}
\* The enum type of a column, if it has one.
EnumOf(c) == IF c = <<"users", "provider_type">> THEN {"providertype"}
             ELSE IF c = <<"users", "role">> THEN {"userrole"}
             ELSE IF c = <<"users", "acc_status">> THEN {"accountstatus"} ELSE {}

\* What the code's models declare: the columns that are NOT NULL, the ones that
\* may be NULL, and the columns that are unique by themselves.
ModelRequired ==
  {"users"} \X {"email", "provider_type", "first_name", "last_name", "password", "role",
                "acc_status"}
    \cup {"refresh_tokens"} \X {"refresh_token", "valid_till", "user_id", "jti", "revoked",
                                "access_jti"}
    \cup {"playback_state"} \X {"user_id", "progress", "track_id"}
    \cup {"albums", "artists"} \X {"name"} \cup {"album_artists"} \X {"album_id", "artist_id"}
    \cup {"track_artists", "track_composers"} \X {"track_id", "artist_id"}
    \cup {"tracks"} \X {"title", "duration_secs", "file_path", "file_name", "file_extension",
                        "raw_metadata"}
ModelNull == {"refresh_tokens"} \X {"device_name", "user_agent", "ip_address"}
               \cup {"tracks"} \X (Tags \cup {"cover_path", "file_mtime"})
ModelUnique == {<<"users", "email">>, <<"artists", "name">>, <<"tracks", "file_path">>,
                <<"playback_state", "user_id">>}

----------------------------------------------------------------------------
(* Statements on a schema, which is None in a run that has failed. *)

Empty == [rev |-> 0, tables |-> {}, cols |-> <<>>, keys |-> {}, types |-> {}]

\* PostgreSQL accepts the statement, but for the rows it may meet.
Fits(s, c) ==
  /\ IF c.create THEN /\ c.table \notin s.tables
                      /\ \A r \in References : r[1] = c.table => r[2] \in s.tables
                 ELSE c.table \in s.tables \cup {None}
  /\ c.drop => \A t \in s.tables : <<t, c.table>> \notin References
  /\ DOMAIN c.add \cap DOMAIN s.cols = {}
  /\ \A col \in DOMAIN c.add : EnumOf(col) \subseteq s.types
  /\ DOMAIN c.alter \cup c.gone \subseteq DOMAIN s.cols
  /\ c.key \cap s.keys = {} /\ c.unkey \subseteq s.keys
  /\ \A e \in c.untype, col \in DOMAIN s.cols : e \notin EnumOf(col)

\* PostgreSQL's choice for a constraint without a name: the first one not taken.
Named(s, k) ==
  IF k[3] = None
  THEN <<k[1], k[2], CHOOSE n \in 0..Cardinality(s.keys) :
           /\ <<k[1], k[2], n>> \notin s.keys
           /\ \A m \in 0..(n - 1) : <<k[1], k[2], m>> \in s.keys>>
  ELSE k

Change(s, c) ==
  LET gone == c.gone \cup {col \in DOMAIN s.cols : c.drop /\ col[1] = c.table}
      cols == c.add @@ c.alter @@ s.cols
  IN  [s EXCEPT
         !.tables = IF c.create THEN @ \cup {c.table} ELSE IF c.drop THEN @ \ {c.table} ELSE @,
         !.cols = Restrict(cols, DOMAIN cols \ gone),
         !.keys = {k \in @ \ c.unkey : <<k[1], k[2]>> \notin gone} \cup {Named(s, k) : k \in c.key},
         !.types = (@ \cup c.type) \ c.untype]

Apply(s, cs) == FoldLeft(LAMBDA t, c : IF t # None /\ Fits(t, c) THEN Change(t, c) ELSE None, s, cs)

\* The script that takes a schema one revision up or down, and the schema that
\* it gives, with the alembic_version that goes with it.
Script(rev, up) == IF up THEN Revisions[rev + 1].up ELSE Revisions[rev].down
Step(s, up) == Apply([s EXCEPT !.rev = IF up THEN @ + 1 ELSE @ - 1], Script(s.rev, up))

\* The schema that upgrades of an empty database give.
Straight[n \in 0..Latest] == IF n = 0 THEN Empty ELSE Step(Straight[n - 1], TRUE)

\* What a script locks, and what it wants of the rows: tables that get a column
\* without a default must be empty, columns that get a unique constraint must
\* hold no value twice.
Statements(cs) == {cs[i] : i \in DOMAIN cs}
Touched(cs) == {c.table : c \in Statements(cs)} \ {None}
WantsEmpty(cs) == {c.table : c \in {d \in Statements(cs) : "required" \in Range(d.add)}}
Uniques(keys) == {<<k[1], k[2]>> : k \in keys}
WantsUnique(cs) == UNION {Uniques(c.key) : c \in Statements(cs)}

----------------------------------------------------------------------------
(* The database, its rows, and the run of alembic. *)

VARIABLES
  db,      \* the committed schema
  rows,    \* table -> owner -> number of rows
  run      \* None, or the run in progress: target, the schema so far, its locks

vars == <<db, rows, run>>

Tables == {"users", "refresh_tokens", "playback_state", "albums", "artists", "album_artists",
           "tracks", "track_artists", "track_composers"}
\* The column in which rows of one owner agree.
KeyColumn(t) == <<t, CASE t = "users" -> "email" [] t = "tracks" -> "file_path"
                       [] t \in {"refresh_tokens", "playback_state"} -> "user_id"
                       [] OTHER -> "name">>
Full == {t \in Tables : \E o \in Owners : rows[t][o] > 0}
Twice == {KeyColumn(t) : t \in {u \in Tables : \E o \in Owners : rows[u][o] > 1}}
NoRows == [t \in Tables |-> [o \in Owners |-> 0]]

Init == db = Empty /\ rows = NoRows /\ run = None

\* Rows of a release that runs: on committed tables that the run has not locked.
Writable(t) == t \in db.tables \cap Busy /\ (run # None => t \notin run.locked)
InsertRow(t, o) ==
  /\ Writable(t) /\ rows[t][o] < MaxRows
  /\ rows[t][o] > 0 => KeyColumn(t) \notin Uniques(db.keys)
  /\ rows' = [rows EXCEPT ![t][o] = @ + 1]
  /\ UNCHANGED <<db, run>>
DeleteRow(t, o) ==
  /\ Writable(t) /\ rows[t][o] > 0
  /\ rows' = [rows EXCEPT ![t][o] = @ - 1]
  /\ UNCHANGED <<db, run>>

\* alembic upgrade or downgrade to a revision: env.py opens the one transaction.
Start(to) ==
  /\ run = None /\ to # db.rev
  /\ run' = [to |-> to, schema |-> db, locked |-> {}]
  /\ UNCHANGED <<db, rows>>

Up == run.to > db.rev

\* The rows stop the next script of the way.
Blocked ==
  LET cs == Script(run.schema.rev, Up)
  IN  WantsEmpty(cs) \cap Full # {} \/ WantsUnique(cs) \cap Twice # {}

\* context.run_migrations: the next script of the way, or a rollback of all.
Migrate ==
  /\ run # None /\ run.schema.rev # run.to
  /\ LET s == Step(run.schema, Up)
     IN  run' = IF Blocked \/ s = None THEN None
                ELSE [run EXCEPT !.schema = s,
                                 !.locked = @ \cup Touched(Script(run.schema.rev, Up))]
  /\ UNCHANGED <<db, rows>>

\* The end of context.begin_transaction: the rows of dropped tables go.
Commit ==
  /\ run # None /\ run.schema.rev = run.to
  /\ db' = run.schema
  /\ rows' = [t \in Tables |-> IF t \in db'.tables THEN rows[t] ELSE NoRows[t]]
  /\ run' = None

\* The connection is lost, or alembic is killed.
Break == run # None /\ run' = None /\ UNCHANGED <<db, rows>>

Run == Migrate \/ Commit \/ Break \/ \E to \in 0..Latest : Start(to)
Next == Run \/ \E t \in Tables, o \in Owners : InsertRow(t, o) \/ DeleteRow(t, o)
Spec == Init /\ [][Next]_vars

----------------------------------------------------------------------------
(* Properties. *)

\* The schema of a revision, but for the default that f45258b44048 leaves on
\* users.name when it is undone.
SchemaAt(s, n) ==
  LET t == Straight[n] IN
  /\ s.rev = n /\ s.tables = t.tables /\ s.keys = t.keys /\ s.types = t.types
  /\ DOMAIN s.cols = DOMAIN t.cols
  /\ \A col \in DOMAIN s.cols :
       \/ s.cols[col] = t.cols[col]
       \/ col = <<"users", "name">> /\ s.cols[col] = "filled"

\* At the last revision the schema has the columns of the models, and differs from
\* them in two things: refresh_tokens.access_jti may be NULL (cebe2cd71040:28),
\* and refresh_tokens.user_id is unique, by the constraint of 546440ad0daf that
\* no script drops.
AgainstModels(s) ==
  /\ DOMAIN s.cols = ModelRequired \cup ModelNull
  /\ {col \in DOMAIN s.cols : s.cols[col] = "null"} =
       ModelNull \cup {<<"refresh_tokens", "access_jti">>}
  /\ Uniques(s.keys) = ModelUnique \cup {<<"refresh_tokens", "user_id">>}

\* The schema is a function of the revision (alembic_version): whatever upgrades,
\* downgrades and failed runs led there, it is the one that an upgrade of an
\* empty database gives, which at the last revision differs from the models in
\* the two things above.  No row is left behind by a table that went.
SchemaOfRevision ==
  /\ SchemaAt(db, db.rev)
  /\ \A t \in Tables \ db.tables : rows[t] = NoRows[t]
  /\ db.rev = Latest => AgainstModels(db)

\* An upgrade fails for rows only, so that an empty database always reaches every
\* revision, however often it went up and down before; and only rows of the
\* table that gets a column without a default.  A downgrade fails for nothing
\* but the two scripts that drop a constraint without a name.
OnlyRowsBlock ==
  run # None /\ run.schema.rev # run.to =>
    LET s == run.schema
        fails == Blocked \/ Step(s, Up) = None
    IN  fails <=> IF Up THEN \/ Revisions[s.rev + 1] \in {R546440ad0daf, R38b998f89bb2}
                                  /\ "refresh_tokens" \in Full
                             \/ Revisions[s.rev + 1] = Rad5018d5d6b5 /\ "playback_state" \in Full
                             \/ Revisions[s.rev + 1] = R86d89f474879
                                  /\ <<"playback_state", "user_id">> \in Twice
                  ELSE Revisions[s.rev] \in {R546440ad0daf, R86d89f474879}

\* What the three properties above ask of the scripts, one revision at a time:
\* - a script takes each form of the schema of one revision to one of the next
\*   and back, but for the two scripts that drop a constraint without a name;
\* - a script locks the tables that it makes columns of unique, and looks for
\*   double values in them first;
\* - tables that exist must be empty, or columns without double values, for the
\*   four named upgrades only.
Variants(n) ==
  LET s == Straight[n]  name == <<"users", "name">>
  IN  {s} \cup {[s EXCEPT !.cols[col] = "filled"] : col \in {name} \cap DOMAIN s.cols}

Reversible(n) ==
  /\ \A s \in Variants(n - 1) : Step(s, TRUE) \in Variants(n)
  /\ \A s \in Variants(n) : IF Revisions[n] \in {R546440ad0daf, R86d89f474879}
                             THEN Step(s, FALSE) = None ELSE Step(s, FALSE) \in Variants(n - 1)
  /\ Straight[n - 1].tables \subseteq Straight[n].tables

UniqueSafely(from, to, cs) ==
  /\ Uniques(to.keys) \subseteq Uniques(from.keys) \cup WantsUnique(cs)
  /\ \A col \in WantsUnique(cs) : col[1] \in Touched(cs)

\* The columns that a script wants unique, that were not so before and in which
\* a table of ts can hold a value twice.
NewlyUnique(from, cs, ts) ==
  {col \in WantsUnique(cs) \ Uniques(from.keys) : col[1] \in ts /\ col = KeyColumn(col[1])}

OnlyTheseWant(n) ==
  LET r == Revisions[n]  from == Straight[n - 1] IN
  /\ WantsEmpty(r.up) \cap from.tables =
       IF r \in {R546440ad0daf, R38b998f89bb2} THEN {"refresh_tokens"}
       ELSE IF r = Rad5018d5d6b5 THEN {"playback_state"} ELSE {}
  /\ NewlyUnique(from, r.up, from.tables) =
       IF r = R86d89f474879 THEN {<<"playback_state", "user_id">>} ELSE {}
  /\ WantsEmpty(r.down) = {} /\ NewlyUnique(Straight[n], r.down, Tables) = {}

SoundAt(n) ==
  /\ n = 0 => Empty \in Variants(n)
  /\ \A s \in Variants(n) : s # None /\ SchemaAt(s, n) /\ (n = Latest => AgainstModels(s))
  /\ n > 0 => /\ Reversible(n) /\ OnlyTheseWant(n)
              /\ UniqueSafely(Straight[n - 1], Straight[n], Revisions[n].up)
              /\ UniqueSafely(Straight[n], Straight[n - 1], Revisions[n].down)

ScriptsSound == \A n \in 0..Latest : SoundAt(n)

\* The same, of the revision that the database is at: the states of a run, which
\* reach every revision, show ScriptsSound.
SoundHere == run = None /\ rows = NoRows => SoundAt(db.rev)

\* "Drop unique for user id" (896b4c9ea330:1): from there on a user may have more
\* than one refresh token, as RefreshToken.user_id (app/model/user.py:45) says.
UserIdNotUnique ==
  db.rev >= 6 => <<"refresh_tokens", "user_id">> \notin Uniques(db.keys)

=============================================================================
