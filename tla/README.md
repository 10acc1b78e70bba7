# Verification of retro-service

retro-service is the back end of a music player: a FastAPI application run by
several gunicorn workers over one PostgreSQL database and one Redis server. It
registers accounts, opens and rotates sessions, scans a directory of music
files into the database, lists and streams the tracks and remembers what each
user was playing. This directory holds TLA+ models of its concurrent core, the
TLC runs that check them and the TLAPS proofs about them. All paths below are
relative to `src/`.

## Inventory

| Component | State | Operations | What is hard |
|---|---|---|---|
| Sessions and tokens (`app/service/user.py`, `app/repository/user.py`, `app/dependencies/user.py`, `app/routers/auth.py`) | table `refresh_tokens`; Redis keys `token-version` and `access-blacklist`; the cookies of the clients | login, OAuth login, refresh, logout, logout of a session, logout of all devices, check of an access token | every handler is a chain of awaits over two stores with no common transaction; commit behind the response; row locks; retries; clocks |
| Music scan (`app/service/music_scan.py`, `app/routers/music.py`) | `scan_state` of each worker; tables `tracks`, `artists`, `albums` and their links; the files | POST /music/scan, the background task, GET /music/scan/status | a scan per worker over one database, unique indexes, deadlocks, a disk that changes under the scan, exceptions in a background task |
| Accounts (`create_user`, `oauth_login_user`, `app/routers/auth.py`, `app/routers/google_auth.py`) | table `users` | register, OAuth creation, admission, approval by hand | two creations of one address, in two transactions; a status that is looked at once; a commit behind the response |
| Cookies | the browser's jar | set_cookie, delete_cookie, expiry | overlapping requests of one browser, late and lost responses; a deletion that does not name the domain the cookie was set with |
| Playback state (`app/service/playback.py`, `app/repository/playback.py`) | table `playback_state` | read, upsert | two tabs that write at once |
| Music catalogue (`app/service/music.py`, `app/repository/music.py`) | none of its own | keyset pagination, one track | a page read while a scan inserts and deletes |
| Music streaming (`stream_music`, `iter_file`, `parse_range`) | open file of each response | whole file or byte range | boundaries of ranges; a file that changes after its size was read |
| Database sessions and pool (`app/db/session.py`, `app/db/redis.py`) | pool of connections | one session per request, commit after the response | connections held by streams and scans; a scan that needs two; errors behind the response |
| Lifecycle, exceptions, middleware (`app/main.py`, `app/exceptions`, `app/observability/middleware.py`) | engine and clients of a worker | start, stop, kill; request log; exception handlers | which layer answers which error, and what the log says of it |
| Database migrations (`alembic/`) | the schema, `alembic_version` | 19 scripts, up and down | names that PostgreSQL chooses; rows that a statement cannot serve; a release that writes meanwhile |
| Observability (`app/observability/decorators.py`, `logging.py`, `metrics.py`, `tracing.py`) | exporters | spans, metrics, log records | nothing that the service reads |

Components meet in the database (a scan deletes tracks that are paged, streamed
or remembered as playing; admission reads the account), in Redis (every private
route checks the version and the blacklist), in the browser (the cookies of one
response are the input of the next request) and in the pool of connections.

`PROJECT.json` lists the hazards of each, at their lines.

## Modules

| Module | What it is |
|---|---|
| `AuthSessions` | sessions and tokens: one action per await of each handler |
| `SessionLedger` | what the `refresh_tokens` table promises, without requests, Redis, locks or clocks |
| `AuthSessionsInv` | the inductive invariants of `AuthSessions` |
| `AuthSessionsProofs` | theorems and proofs about `AuthSessions` |
| `MCAuthSessions` | its instances for TLC (`MCAuth*.cfg`) |
| `MusicScan` | scans in several workers over one database and one disk |
| `MusicScanProofs` | its inductive invariants, theorems and proofs |
| `ScanResultProofs` | what a scan shows and leaves behind: invariants, theorems and proofs on top of `MusicScanProofs` |
| `MCMusicScan` | its instances for TLC (`MCScan*.cfg`) |
| `Library` | what the tables of the music promise to a reader: `MusicScan` and `TrackPages` implement it |
| `MusicStream` | one streamed response after another, over a file that others change |
| `MusicStreamProofs` | its inductive invariant, theorems and proofs |
| `MCMusicStream` | its instance for TLC (`MCStream.cfg`) |
| `TrackPages` | a client that pages through the tracks while scans change them |
| `TrackPagesProofs` | its inductive invariant, theorems and proofs |
| `MCTrackPages` | its instance for TLC (`MCPages.cfg`) |
| `Accounts` | accounts, admission, the cookies of a browser and the playback state |
| `AccountsProofs` | its inductive invariant, theorems and proofs |
| `MCAccounts` | its instance for TLC (`MCAccounts.cfg`) |
| `Requests` | what lies around a handler: log, session, pool, response, task, errors, start and stop |
| `RequestsProofs` | its inductive invariant, theorems and proofs |
| `MCRequests` | its instance for TLC (`MCRequests.cfg`) |
| `HttpExchange` | what a client and a reader of the log may rely on: `Requests` implements it |
| `Migrations` | the alembic scripts as data, and their runs against a release that writes |
| `MigrationsProofs` | its inductive invariant, theorems and proofs |
| `MCMigrations` | its instances for TLC (`MCMigrations.cfg`, `MCUserIdUnique.cfg`) |

The modules divide the system by what interacts. A module that needs another
one's effect has it as an action of its environment: in `TrackPages` a scan is two
statements and a commit, in `Accounts` a refresh succeeds or fails, in `Requests` a
handler ends with a response or raises.

### AuthSessions

A request is a record with a label: the await it has got to. One step is the
code from one await on PostgreSQL or Redis to the next, so the interleavings
are those of one event loop and of several workers alike.

* `row` is the committed state of each row of `refresh_tokens`; `tok` what the
  row and the access token say (user, version, expiry, creation, the token it
  was refreshed from); `version` and `blacklist` are the Redis keys, the second
  with its time of expiry; `issued` the tokens whose cookies have been sent.
* A *token* of the model stands for the refresh token, its `jti`, and the
  access token that one handler creates together: uuid4 is taken to be unique.
  The two cookies of a response are set together, so a client presents them
  together. `parent` is a history field: the token it was refreshed from.
* PostgreSQL runs at READ COMMITTED. The SELECT and the UPDATE of
  `revoke_refresh_token`, `revoke_refresh_token_by_jti` and
  `revoke_oldest_token` are separate steps, and the UPDATE goes by primary key:
  the row may have been revoked in between. Only an eviction holds its row lock
  over awaits (`Locked`); the other revocations flush and commit in one step.
  The bulk UPDATE of `logout_all` takes its snapshot, waits for the locks and
  commits.
* `created_at` is `now()`, the start of the transaction (`began`), not the time
  of the insert.
* `get_db` commits after the response has been sent (fastapi 0.136 ends
  dependencies after the response): `Insert` sends the cookies, `Commit` makes
  the row visible, and `Abort` may come in between.
* `Abort` is every failure: the worker dies, PostgreSQL or Redis answers with an
  error, the commit fails. The open transaction is rolled back, what was
  committed, set in Redis or sent stays.
* `LoginRefused` (no such user, wrong password, pending approval) changes
  nothing.
* Users are those that login lets in. A user is never deleted (there is no code
  for it), so the `db_user is None` branch of refresh is left out.

### MusicScan

* `scan[w]` is the scan of worker `w`: its label and the locals it keeps across
  awaits (listing, known times, the file in hand, what its open transaction has
  inserted). `status`, `inserted`, `percentage` are the `scan_state` of each
  worker, `tasks` its queue of background tasks.
* The content of a file is named by its modification time. `Touch` adds,
  replaces (also by an older file) and removes files at any time; `Crash` ends
  a worker process, and gunicorn starts another with a fresh `scan_state`.
* Files are taken in any order: `rglob` promises none.
* A file is one transaction. Nothing of it is visible before `Commit`, but
  `Waits` lists the open transactions each statement has to wait for: the
  unique index on `artists.name`, the row of a path in `tracks` and the rows of
  its links. `DeadlockVictim` is PostgreSQL's deadlock detector.
* The links are not stored. What they do is kept: a name that a file mentions
  twice violates their primary key (`Duplicated`), and links that were inserted
  after a DELETE had taken its snapshot make the deletion of their track fail
  (`relinked`).
* `IntegrityError` skips a file; any other exception ends the scan and leaves
  `scan_state` as it is.
* Left out: the other tags, the cover files, `album_artists`. The check for
  `None` of a time that was never stored is left out too: every insert stores one.

### MusicStream

* `exists` and `size` are the file that the path names; `held` is the size of the
  open file, which is the same one only while `same` holds: a file that is
  replaced or removed stays as it was for whoever has it open, one that is
  truncated or extended in place does not. Its bytes are their offsets.
* `Lookup` is the SELECT of the track; `Stat` everything from `is_file()` to the
  return of the response, which has no await; `Open` and `Read` the steps of
  `iter_file`. `BreakOff` is a client that goes away or a failure.
* A Range header is one of the forms `parse_range` tells apart. `b` may be
  negative: `int()` accepts a sign. `Valid`, `Start` and `End` are the code;
  `Wanted` is the reference, byte by byte.
* Responses share nothing, so one after another is enough. The extension check
  is left out: a scan stores no other files.

### TrackPages

* `id`, `tags` and `links` are the committed row of each path, the revision its
  columns show and the revision its rows in `track_artists` show; `nextId` is the
  sequence. A transaction of a scan is two steps and a commit: `Draw` (the INSERT
  draws an id first, needed or not), `Write` (a conflict keeps the old id and
  waits for another writer of the path), `Commit`. `Rollback` is every failure.
* `Delete` is the transaction that ends a scan. It may delete any rows nobody has
  written: which are stale is the matter of `MusicScan`.
* `Ask` is the first statement of `get_tracks`, `Respond` the `selectinload` of
  the artists and the response. Albums are neither changed nor deleted, so the
  statement that loads them is left out; every file names an artist.
* The client walks by `next_cursor`, asks again after failures, may change its
  limit from page to page, and may go on from its last item (`Resume`), which
  the route allows. Clients share nothing: one is enough. `get_track` is the same
  two statements for one id and is left out.

### Accounts

* `user` and `playing` are committed rows; `new` and `row` of a request what its
  transaction has written and not committed. `req[r].pc` is the handler's next
  step, `mail[r]` its response on the way, `jar` the browser's two cookies,
  named by the number of their session.
* A browser may have several requests in flight (two tabs). `Receive` takes
  responses in any order, `Lose` drops them, `Expire` is `max_age`: the access
  token's cookie goes first. `Commit` is `get_db` behind the response, `Break` any
  failure: before the response it is answered with an error, behind it nobody
  hears of it.
* `Insert` waits for the uncommitted INSERT of the same address (the unique index)
  and fails if there is a row by then. Nothing in the code retries.
* `Decide` is the administrator, who sets the status in the database: no handler
  does. Only PENDING is turned away, and refresh does not look at the status:
  `AdmittedOnly` says what follows nevertheless.
* `delete_cookie` names no domain, `set_cookie` names `settings.DOMAIN`: `Taken`
  removes the cookies only if `hostOnly` (no domain is set).
* A put is known by its number, which stands for the track and the position it
  carries. `after` is history: the puts already stored when it was sent.
* Left out: what becomes of a session (`AuthSessions`), the contents of names and
  passwords, roles (nobody sets or reads one).

### Requests

* A slot holds one request at a time. Its label goes from the access check over
  the handler (`query`, `work`), the body or the background task, the commit of
  `get_db`, or the exception handlers, to the log entry `request.finished`.
* `free` is what the pool can still hand out (`pool_size + max_overflow`). A session
  takes a connection with its first statement and returns it when it closes, or
  in between when the repository commits (`CommitEarly`). `run_scan` opens a second
  session while the one of its request is open.
* A request that finds the pool empty may wait (stutter) until a connection comes
  back or until the pool's timeout (`PoolTimeout`, `ScanTimeout`).
* `Raised` leads through rollback and close to the exception handlers: those of
  `RetroException`, `HTTPException` and validation answer inside of the logging
  middleware (400 stands for each of them), the one of `Exception` outside of it,
  after `request.finished` has been logged with 500. After the response has
  started nothing is answered again.
* `Boot`, `Stop`, `Close` are the lifespan, `Kill` gunicorn.
* Left out: which statement a handler runs, Redis connections (their pool has no
  limit), request ids and security headers (constants of a response).

### Migrations

* Each script is a record of two sequences of statements; `Rbdad0ad6cd15` and the
  others are named for their revisions. A column is required, filled (NOT NULL with a
  server default) or null; a unique constraint has the name that the script or
  PostgreSQL gives it (`Named`).
* `Fits` and `Blocked` say when a statement fails: on what the schema lacks or has already, on
  existing rows without a value for a required column, on values that occur
  twice. `Migrate` is one script, `Commit` the end of the one transaction of a run
  (`env.py` sets no transaction per migration), `Break` a lost connection.
* `InsertRow` and `DeleteRow` are a release that runs; tables the migration has
  changed are locked until its end.
* Left out: contents of columns other than repetitions of one key, plain
  indexes, timestamps, column types apart from the enums.

### The abstract specifications

Three small modules say what a component promises to those who use it, without
how it keeps the promise. Four refinements are checked and proved.

**`SessionLedger`.** A session is opened once; it is opened as a refresh of another one only when
that one is closed; at most one other session gives way to it; a closed session
never comes back. `AuthSessions!KeepsLedger` maps `state` to `row` and `origin`
to the `parent` of the rows that are in the table.

**`Library`.** A reader finds for each path nothing or one copy, put there or
replaced one path at a time and always as a whole; copies go away together with
all that belongs to them. Two components implement it, each with what it can see:
`MusicScan!KeepsLibrary` maps `copy` to the row of `tracks` and `whole` to the rows
whose artists and album are in their tables, so that files in hand, open
transactions, locks, deadlocks, crashes and inserts that are rolled back map to
stutters, and a commit of one scan may not break the track of another;
`TrackPages!ListsLibrary` maps `copy` to the id and the columns of a row and `whole`
to the rows whose links are of the same revision, so that an id which is drawn and
lost is nothing, and no snapshot between two commits shows half a track.

**`HttpExchange`.** A request is answered once; its session is committed only behind
an answer, and only a success; the log says once, and rightly, how it ended, and
says nothing of the health checks; a request that fails unanswered is logged with
500 before it is answered with 500. `Requests!KeepsExchange` maps `reply` to the
status that was sent, `log` to the `request.finished` entries, `stored` to the
sessions that `get_db` has committed and `over` to the ended slots. Pool, sessions,
tasks and exceptions on their way through the handlers map to stutters.

## Runs

| Run | Checks | Bounds |
|---|---|---|
| `auth_sessions` | `TypeOK`, `RotationRetiresParent`, `ForksBounded`, `SessionCap`, `KeepsLedger`, `EvictsOldest` | 1 user, 3 tokens (login, refresh, refresh or eviction), 2 requests, limit 2, 2 clock values: tokens expire; version keys absent at the start |
| `auth_logouts` | `LogoutIsFinal`, `LogoutAllIsFinal`, `RequestsEnd` | 2 tokens, 2 requests, limit 1, no symmetry; the clock stands, so that only the blacklist and the version can refuse a token; version keys absent at the start, so that two logins find none and one sets the version back behind a logout of all devices |
| `scan_one` | `TypeOK`, `OneScanPerWorker`, `ScanIsComplete`, `ProgressShown` | 1 worker; 3 files: good, unreadable, violating a primary key; contents 1 and 2 |
| `scan_two` | `KeepsLibrary`, `AlbumsBounded`, `OnlyStaleDeleted`, `ScansEnd` | 2 workers, 1 file with 2 names and an album, no symmetry |
| `stream` | `TypeOK`, `KeepsPromise`, `PromisesWanted`, `StreamsEnd` | files of 0 to 4 bytes, chunks of 2: a range is a part of a chunk, one or several; numbers in headers from -1 to 4 |
| `pages` | `TypeOK`, `SteadyListed`, `ListedOnce`, `NoneMissed`, `ItemsWhole`, `ListsLibrary`, `WalkEnds` | 3 paths, 2 scans, 3 ids, 2 revisions, pages of 1 and 2: a full last page, an id that is lost, a path that comes back, commits out of order |
| `accounts` | `TypeOK`, `AdmittedOnly`, `JarOfOneSession`, `PlaybackCurrent`, `AccountKept` | 1 address, 2 requests, 3 statuses, 2 sessions, 2 puts, with and without a domain |
| `requests` | `TypeOK`, `PoolAccounted`, `KeepsExchange`, `EveryoneEnds` | 2 slots, 4 kinds of requests, 2 connections: two streams, or a stream and a scan that needs two, fill the pool |
| `migrations` | `SchemaOfRevision`, `OnlyRowsBlock`, `SoundHere` | all 19 revisions, every target, 1 owner with 0 to 2 rows in `users`, `refresh_tokens` and `playback_state`, the tables that scripts change after their creation; `Tags` stands for the 21 columns of a track that may be NULL and that no other script names |

A session interacts with another one through a lock, a count or a version, so
two requests reach every pair of handlers at every pair of awaits; the proofs
are for any number. Tokens and requests are interchangeable (no definition names
one), as are workers, which is why safety runs use symmetry; liveness runs do
not. Bounds that exist in the
model only: `TokenLeft` (a session is started while a token is left), `MaxTime`,
`MaxId`, `MaxRev`, `MaxSessions`, `MaxPuts`, `MaxRows`, the number of `Slots`, and one
background task per worker, which is what `OneScanPerWorker` shows.

`scan_two` is small because the liveness property is checked without symmetry;
its safety properties are proved for any number of workers and files.

Deadlock checking is on everywhere.

Some properties are about what happens when nothing overlaps. `overlapped`
remembers the users that ever had two session-creating requests in flight at
once, `overlap` and `disturbed` the scans that met another one or a change of
the disk, `TrackPages!overlap` two transactions of scans at once. Logouts,
failures and crashes do not count as overlap: they are what `SessionCap`,
`EvictsOldest`, `ScanIsComplete`, `NoneMissed` and the first halves of
`ForksBounded` and `AlbumsBounded` are tested against. Without the condition each
of them fails, see below. The second halves say what is left when refreshes or
scans do overlap: a token has no more successors than there can be requests in
flight, an album no more rows than there are workers. That of `ForksBounded` needs
more tokens than the run has to be refuted, so the theorem is its real evidence;
that of `AlbumsBounded` is checked with two workers. The limit of sessions has no
such half: an eviction takes one row, so what overlapping logins add beyond the
limit stays until it expires or is logged out.

### What the code says and does not do

Each of these runs refutes one statement of the source.

| Run | Statement | What happens |
|---|---|---|
| `auth_refresh_survives` | "Logged out all devices successfully" (`app/service/user.py:415`) | a refresh in flight inserts its session after the sweep |
| `scan_stuck` | "Scan already running" (`app/routers/music.py:31`) | the last scan has raised, none is running |
| `user_id_unique` | "Drop unique for user id" (`alembic/versions/896b4c9ea330_drop_unique_for_user_id.py:1`) | `546440ad0daf` had added the constraint a second time without a name; the second one stays, and at the last revision a user can have one row of `refresh_tokens` |

The last one has a consequence for `AuthSessions`, which follows
`app/model/user.py` (no unique `user_id`): on a database that was built by the
migrations a second session of a user is refused by the constraint
(`OneSessionRow`). `SchemaOfRevision` compares the last schema with the models in
full: besides this constraint it differs in `refresh_tokens.access_jti`, which
`cebe2cd71040` lets be NULL and the model does not.

`auth_refresh_survives` starts with version keys that exist, so that it shows the
refresh and not the other way to the same end: a login that found no version key
(`app/service/user.py:182-189`) sets it to 1 behind the increment of the logout, and
the access tokens that the logout ended are accepted again. `auth_logouts` starts
without the keys and reaches these states. `rewound` remembers the users whose
version was set back, and `LogoutAllIsFinal` says that nobody else is harmed and
that it takes logins or refreshes of the user that overlap.

Met on the way and part of the models, without a run of their own:

* Sessions. Two refreshes with the same token both succeed when both SELECTs
  come before both UPDATEs (`app/service/user.py:315`): `ForksBounded` allows one successor
  only to refreshes that do not overlap. A login is answered with 500 when a logout of all
  devices empties the list between the count and the eviction (`Failed`). Cookies
  of a session whose commit fails after the response are worth nothing (`Insert`,
  `Commit`, `Abort`). The eviction of a session does not blacklist its access
  token, which stays good until it expires: `LogoutIsFinal` is about logouts, and
  `EvictsOldest` and `RevokedExpires` say when the access ends at the latest. A
  Redis that comes back without its keys is not modelled: the versions start again at 1,
  and access tokens of version 1 that a logout of all devices had ended are good again
  until they expire; blacklisted ones likewise.
* Accounts. Of the statuses only PENDING is refused: a REJECTED or SUSPENDED
  account gets sessions, and refresh looks at no status at all
  (`AdmitOrRedirect`, `Refresh`). A password login to an account that OAuth created
  raises on the empty hash and is answered with 500 (`Login`). With `DOMAIN` set,
  "Session cleared successfully!" (`app/routers/auth.py:139`) leaves both cookies in
  the browser (`Taken`).
* Scan. Two workers scan at once although each refuses a second scan of its own,
  and may insert an album twice, after which `scalar_one_or_none`
  (`app/service/music_scan.py:44`) raises (`FindAlbum`); `AlbumsBounded` says how
  often at most. A scan that times out
  waiting for its second connection leaves the status at running, too.
  A worker whose status is stuck refuses every scan until its process is
  restarted (`StuckStays`).
* Catalogue. `playback_state.track_id` has no foreign key and outlives the track.
  It never comes to name another path, though: `ListedOnce` and `IdsForGood`.
* Requests. A success is answered before the commit: `HttpExchange` says that what
  was committed was answered with success, and not the reverse.
* Migrations. `546440ad0daf` and `86d89f474879` cannot be undone
  (`drop_constraint(None)`): `OnlyRowsBlock` names them. `f45258b44048` drops `name`
  without copying it, `8d8818601ac1` makes every existing user PENDING.

### Fairness

`RequestsEnd`: weak fairness of each request. The event loop resumes every
handler whose await has completed, and PostgreSQL grants a row lock once it is
free; no request takes a lock for ever, because tokens are finite and a handler
has no loop. No fairness of logins, failures or the clock.

`ScansEnd`: weak fairness of each scan and strong fairness of the statements
that may wait for a lock. With weak fairness alone a scan starves while the
other worker crashes and scans again, for ever, always getting the lock first;
PostgreSQL wakes the waiters of a lock when it is released and grants it in
their order.

`WalkEnds`: weak fairness of the two statements of a page, and strong fairness of
the response: a client that asks again after failures gets an answer some day.

`StreamsEnd`: weak fairness of the response, as long as the client reads. The
file may change for ever.

`EveryoneEnds`: weak fairness of each slot's `Step`: the event loop goes on with
every request, and the pool's timeout comes. Clients that read their stream,
administrators and new requests are not assumed to do anything.

## Proofs

`AuthSessionsProofs` proves, for any finite sets of tokens and requests and any
users, limits, lifetimes and clocks:

| Theorem | States |
|---|---|
| `TypeCorrect` | `Spec => []TypeOK` |
| `RotationSafe` | `Spec => []RotationRetiresParent` |
| `LogoutSafe` | `Spec => []LogoutIsFinal` |
| `LogoutAllSafe` | `Spec => []LogoutAllIsFinal`, with or without version keys at the start |
| `SessionCapSafe` | `Spec => []SessionCap` |
| `ForksSafe` | `Spec => []ForksBounded` |
| `LedgerKept` | `Spec => KeepsLedger` |
| `EvictionFair` | `Spec => EvictsOldest` |
| `RevokedForGood` | a revoked session is revoked for good, whatever handlers had read its row before |
| `RevokedExpires` | a session revoked at a time `n`, blacklisted or not, is refused from `n + AccessTTL` on |
| `RequestsAdvance` | `Spec => EveryRequestAdvances` |

Assumptions: those of `AuthSessions` (`None` is neither a user nor a token, the
numbers are naturals, the limit is at least 1, `Tokens` and `Requests` are finite).

The argument. None of the properties is inductive: a refresh blacklists, revokes,
reads the version, counts, evicts and inserts, and the property speaks of the result
only. `IInv` adds what each handler has already done to the session it acts on
(`Progress`: a refresh past its revocation has retired its token), which fields are
set at each await (`Shape`), that two handlers never create the same token
(`OwnToken`), and that no access token outlives one minted now (`ExpBounded`), which
is why a blacklist entry of `ACCESS_TOKEN_EXP_MINS` covers every token it is written
for. `VInv` adds that the version of a user only grows until it is set back, that a
logout of all devices is let in only when there is a version (`VersionThere`), and so,
on top of `OInv`, that a key which was found absent still is when it is set, unless
another login or refresh of the user runs (`AbsentStill`). `OInv` adds
that a user without overlap has one creator at a time (`AloneUnlessOverlapped`), that
it has left room for its row before it inserts (`RoomLeft`, over cardinalities) and
that a refresh that has seen its row live is the first to replace it (`FirstChild`).
`HeirsLeft` is what holds when refreshes overlap: the tokens created from one token
and the refreshes that have selected its row and created nothing yet are together no
more than the requests, because once the row is revoked nobody new can select it, and
each child uses up one of those who had (a count over two cardinalities that move
together). `VictimOldest` adds that the row an eviction has selected stays the oldest live one
until the commit: no other session of the user can begin, and `created_at` is written
once. The first half of `EvictsOldest`, whose access token gives out when, needs no such
condition: that the victim is one of the same user is in `CreatorShape`, the rest in
`ExpBounded`. Each is proved with one lemma per conjunct and one step per action that can
disturb it; `Changes` and `KindsOfStep` say once which actions change which variable,
`OneMoves` that a step changes one request.

`MusicStreamProofs` proves, for every chunk size, bound and file: `RangeCorrect`
(`parse_range` gives exactly the bytes asked for and rejects a header exactly
when there are none), `StreamPromises` (`PromisesWanted`), `StreamTypes`
(`TypeOK`), `StreamKeepsPromise` (`KeepsPromise`) and `StreamAdvances`.
The invariant `StreamInv` adds what the promise rests on between `Stat` and the
last chunk: while nobody has cut the file, the end of the range lies inside the
file to be opened (`Promised`), then inside the open one (`Backed`).
Assumptions: chunks are not empty, the bound is a natural number.

`TrackPagesProofs` proves, for any finite set of paths and any scans, limits and
bounds: `PagesTypes` (`TypeOK`), `PagesSteady` (`SteadyListed`), `PagesOnce`
(`ListedOnce`), `PagesNoneMissed` (`NoneMissed`), `PagesWhole` (`ItemsWhole`),
`IdsForGood`, `PagesLibrary` (`ListsLibrary`) and `PagesAdvance`. The
invariant `PagesInv` adds that a path has one writer, whose id is its row's or
fresh (`Writers`); that fresh ids are known to nobody (`Distinct`), so that no id
ever names two rows; what a row that was seen may have become (`Seen`); that a
page in flight leaves out nothing below its last row (`PageSteady`); and that
without overlap a fresh id is above all others (`InOrder`). `IdsForGood` is a temporal
statement: that an id names nothing but `f` is preserved because the sequence has
passed it and no transaction of another path holds it.

`MusicScanProofs` proves, for any artists and any finite sets of workers and files:
`ScanTypes` (`TypeOK`), `ScanAlone` (`OneScanPerWorker`), `StaleOnly`
(`OnlyStaleDeleted`), `TracksWhole` (every track has the artists and the album of its
file), `LibraryKept` (`KeepsLibrary`), `AlbumsFew` (`AlbumsBounded`), `StuckStays` and
`ScansAdvance`. `ScanInv` adds what a scan has in hand at each await (`ScanOK`:
the file is one of the listing, stale rows are not), `StatusInv` that a status other
than running means that no task is queued or at work, `FoundInv` that the names and
the album a transaction has looked up are in the table or among its own inserts when
it upserts the track, and stay so while others commit and roll back, `AloneInv` that
without overlap there is one transaction and the album it inserts is new,
`InsertersLeft` that with overlap the rows of an album and the transactions that are
about to add one are no more than the workers. Assumptions: `None` is neither a file
nor an album, every file has a sequence of names and at most one album, the bound on
times is a natural.

`ScanResultProofs` proves, under the same assumptions, `ProgressTrue`
(`ProgressShown`) and `ScanWhole` (`ScanIsComplete`). `ProgressInv` says that the
percentage lags behind the count only while a file is in hand; that it never goes
back rests on the monotony of the rounded quotient. `DuplicatedInv` says that a
file that names an artist twice never gets a row. `CalmInv` says that what an
undisturbed scan knows is true: its listing is the disk, the rows of the files it is
through with are up to date, the modification times it has read are those of the
table, its file in hand is as it was read, and its stale rows are all there are.

`AccountsProofs` proves, for any addresses, requests and statuses: `AccountsTypes`
(`TypeOK`), `AdmissionSafe` (`AdmittedOnly`), `JarWhole` (`JarOfOneSession`),
`PlaybackSafe` (`PlaybackCurrent`) and `AccountsStay` (`AccountKept`). The invariant
`AccountsInv` adds what a handler has in hand (`ReqOK`: whoever is about to open a
session has a stored, decided account; whoever has an uncommitted account has
the only one of its address and there is none stored), that a put is in one
request's hands and one creation of an address is open at a time (`Apart`), that a
status other than PENDING was decided (`UsersDecided`), and that what was stored
stays stored (`PutsOK`). Assumptions: `None` is neither an address nor an account,
PENDING occurs, the bounds are naturals.

`RequestsProofs` proves, for any pool and any finite number of slots: `RequestsTypes`
(`TypeOK`), `PoolSafe` (`PoolAccounted`), `OutcomesTrue` (what is answered, stored and
logged of an ended request agrees), `ExchangeKept` (`KeepsExchange`) and
`RequestsAdvance`. A step changes what is seen of one slot (`OnlyOneSeen`), and most
steps change nothing of it (`Unseen`). `PoolInv` adds what each label says of a request (`SlotOK`); that
the counts follow the one slot that moves is a lemma over cardinalities
(`CountsFollow`). Assumptions: the pool is a natural, the slots are finite, `None` is
neither a status code nor the kind of a health check.

`MigrationsProofs` proves, for any owners, any tables that the service writes to and
any number of rows: `SchemaKept` (`SchemaOfRevision`), `OneSessionRow` (on the schema of
the last revision no user has two rows of `refresh_tokens`) and `FailuresKnown`
(`OnlyRowsBlock`). `MigrationsInv` says that
the schema of a run is one of the revision it has got to, which lies between the
committed one and the target; that a table the run has not locked has no unique
columns the committed schema does not have, so that what a release writes there
meanwhile fits both; that there are rows in tables of the committed schema only, and
that they keep its constraints and those of the run. From it `FailuresKnown` finds
the statements that can fail. The theorems have one hypothesis, `ScriptsSound`: that
each script leads from the schema of its revision to that of the next one, and back.
It is a statement about 19 fixed scripts, without variables or parameters, and what
it says is computed by recursion over their statements, which the provers cannot
unfold; TLC evaluates it as the invariant `SoundHere` of the run `migrations`.

### Progress

Liveness is out of the prover's reach, but only its fairness half. That nothing
goes round in circles is an action property, and each of these theorems states one:

| Theorem | Measure |
|---|---|
| `RequestsAdvance` (`AuthSessionsProofs`) | the awaits a handler has left: no step of another request, a lock or the clock sets it back |
| `ScansAdvance` | the files left, then the steps left with the file in hand: each new file is one of the listing, and no commit, deadlock or crash elsewhere adds one |
| `StreamAdvances` | the stages left, then the bytes left: a chunk is never empty unless it ends the response |
| `PagesAdvance` | the cursor: an answer with a next cursor has moved it |
| `RequestsAdvance` (`RequestsProofs`) | the steps left up to the log entry, on the ways through errors, early commits and tasks |

What TLC adds on small instances is that the step is taken: `RequestsEnd`,
`ScansEnd`, `StreamsEnd`, `WalkEnds` and `EveryoneEnds`.

Only model-checked: these liveness properties, which are out of the prover's reach,
and `SoundHere`.

## Not modelled

* Observability: the format of log records, spans, metrics and their exporters.
  They keep no state that the service reads; `observe` only wraps a call.
  `request.finished` is part of `Requests`.
* Settings, CORS, trusted hosts, the mounting of routers, security headers and
  request ids: configuration, the same for every request.
* The validation of bodies and the shape of responses (`app/schemas`), as far as no
  decision hangs on them.
* What libraries do inside: argon2, JWT signatures, mutagen, SQLAlchemy, authlib's
  exchange with Google.
* Reads without effect: the lists of sessions, the account, the playback state,
  the status of the scan, one track.
* Tags other than names and album, and the cover files, which nothing else reads.

## Plan

Done: all components of the table above but observability, with the proofs
listed: every invariant, action property and refinement that a passing run checks is
proved, but for `SoundHere`, which is a computation. What could follow: the steps of
`iter_file` and the pages of `get_tracks` as refinements of a whole file and of a whole
list, and a model of the exporters, should the service come to read their state.
