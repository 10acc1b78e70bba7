------------------------------ MODULE MusicScan ------------------------------
(***************************************************************************)
(* The scan of the music directory: POST /music/scan (app/routers/music.py)*)
(* and the background task run_scan with insert_music_file and             *)
(* parse_music_file (app/service/music_scan.py).                           *)
(*                                                                         *)
(* gunicorn runs several workers and each has a scan_state of its own: two *)
(* scans can run at once, over one database.  One step is the code between *)
(* two awaits; each file is one transaction.  What a transaction has       *)
(* written is seen by nobody else before it commits, but its locks are     *)
(* felt: a second INSERT of the same unique name or path waits, and a      *)
(* cycle of waits costs one of the transactions its life.                  *)
(*                                                                         *)
(* The content of a file is named by its modification time, so that        *)
(* "which content did we read" and "which time did we store" compare.      *)
(***************************************************************************)
EXTENDS Integers, FiniteSets, Sequences

CONSTANTS
  Workers,     \* gunicorn worker processes
  Files,       \* paths with an allowed extension
  Artists,     \* names of artists, composers and album artists
  Albums,      \* names of albums
  None,        \* no file, no album
  NamesOf,     \* the names a file mentions, in the order they are looked up
  AlbumOf,     \* the album tag of a file, or None
  Broken,      \* files that mutagen cannot read
  Duplicated,  \* files that name the same artist twice
  MaxTime      \* bound on modification times

ASSUME NoneAssumption == None \notin Files /\ None \notin Albums
ASSUME TagAssumption ==
  /\ NamesOf \in [Files -> Seq(Artists)]
  /\ AlbumOf \in [Files -> Albums \cup {None}]
  /\ Broken \subseteq Files /\ Duplicated \subseteq Files
ASSUME TimeAssumption == MaxTime \in Nat
ASSUME FiniteAssumption == IsFiniteSet(Files) /\ IsFiniteSet(Workers)

VARIABLES
  disk,       \* modification time of each file, 0: no such file
  track,      \* tracks: the committed row of each path
  artists,    \* artists: committed names
  albums,     \* albums: how many committed rows each name has
  status,     \* scan_state.status of each worker
  inserted,   \* scan_state.inserted
  percentage, \* scan_state.percentage
  tasks,      \* background tasks accepted and not begun: their "full" flags
  scan,       \* the running scan of each worker
  disturbed,  \* history: the disk changed or another scan ran during the scan
  overlap     \* history: two scans have run at once

scanStates == <<status, inserted, percentage>>
database == <<track, artists, albums>>
history == <<disturbed, overlap>>
vars == <<disk, database, scanStates, tasks, scan, history>>

-----------------------------------------------------------------------------
(* Types *)

Labels == {"idle", "known", "next", "stat", "artist", "addartist", "album",
           "addalbum", "upsert", "relink", "commit", "issue", "unlink", "delete"}

Times == 0 .. MaxTime

\* content = 0: there is no row.
Row == [content : Times, mtime : Times]
NoRow == [content |-> 0, mtime |-> 0]

ScanInfo == [pc       : Labels,
             full     : BOOLEAN,
             listed   : SUBSET Files,       \* music_files
             todo     : SUBSET Files,       \* those not reached yet
             known    : [Files -> Times],   \* known_mtimes, 0: not in it
             file     : Files \cup {None},
             content  : Times,              \* what the tags were read from
             mtime    : Times,              \* stat.st_mtime
             at       : Nat,                \* name being looked up
             names    : SUBSET Artists,     \* artists its transaction inserted
             album    : BOOLEAN,            \* it inserted an album
             stale    : SUBSET Files,       \* rows of stale_track_ids
             relinked : SUBSET Files]       \* of these, rows that got links
                                            \* its DELETE does not see

Resting == [pc |-> "idle", full |-> FALSE, listed |-> {}, todo |-> {},
            known |-> [f \in Files |-> 0], file |-> None, content |-> 0,
            mtime |-> 0, at |-> 1, names |-> {}, album |-> FALSE,
            stale |-> {}, relinked |-> {}]

TypeOK ==
  /\ disk \in [Files -> Times]
  /\ track \in [Files -> Row]
  /\ artists \in SUBSET Artists
  /\ albums \in [Albums -> Nat]
  /\ status \in [Workers -> {"idle", "running", "done"}]
  /\ inserted \in [Workers -> Nat]
  /\ percentage \in [Workers -> 0 .. 100]
  /\ tasks \in [Workers -> Seq(BOOLEAN)]
  /\ scan \in [Workers -> ScanInfo]
  /\ disturbed \in [Workers -> BOOLEAN]
  /\ overlap \in BOOLEAN

Init ==
  /\ disk \in [Files -> Times]
  /\ track = [f \in Files |-> NoRow]
  /\ artists = {}
  /\ albums = [a \in Albums |-> 0]
  /\ status = [w \in Workers |-> "idle"]
  /\ inserted = [w \in Workers |-> 0]
  /\ percentage = [w \in Workers |-> 0]
  /\ tasks = [w \in Workers |-> <<>>]
  /\ scan = [w \in Workers |-> Resting]
  /\ disturbed = [w \in Workers |-> FALSE]
  /\ overlap = FALSE

-----------------------------------------------------------------------------
(* Helpers *)

Active(w) == scan[w].pc # "idle"
Others(w) == {q \in Workers \ {w} : Active(q)}
Name(w) == NamesOf[scan[w].file][scan[w].at]
Linked(f) == NamesOf[f] # <<>>

\* q has written the track row of f and not committed.
Writes(q, f) == scan[q].file = f /\ scan[q].pc \in {"relink", "commit"}

\* The transactions that the next statement of w has to wait for: a unique
\* index entry, the row of a track or the link rows of a track.
Waits(w) ==
  LET s == scan[w] IN
  CASE s.pc = "addartist" -> {q \in Others(w) : Name(w) \in scan[q].names}
    [] s.pc = "upsert" -> {q \in Others(w) : Writes(q, s.file)}
    [] s.pc = "relink" ->
         {q \in Others(w) : scan[q].pc = "delete" /\ s.file \in scan[q].stale
                              /\ Linked(s.file)}
    [] s.pc = "unlink" ->
         {q \in Others(w) : \E f \in s.stale :
            scan[q].pc = "commit" /\ scan[q].file = f /\ Linked(f)}
    [] s.pc = "delete" -> {q \in Others(w) : \E f \in s.stale : Writes(q, f)}
    [] OTHER -> {}

Goto(w, l) == scan' = [scan EXCEPT ![w].pc = l]

Keep == UNCHANGED <<disk, tasks, history>>
KeepData == UNCHANGED <<database, scanStates>> /\ Keep

\* Mutant: count is one too high, as if it were incremented twice at first.
PercentAhead(w) ==
  LET s == scan[w]  total == Cardinality(s.listed) IN
  ((total - Cardinality(s.todo) + 1) * 100) \div total

\* int((count / total_music) * 100).  The float division agrees with this one
\* up to 49 files, and on the last file always.
Percent(w) ==
  LET s == scan[w]  total == Cardinality(s.listed) IN
  ((total - Cardinality(s.todo)) * 100) \div total

\* The transaction of the file is over, one way or the other.
NextFile(s) ==
  [s EXCEPT !.pc = "next", !.file = None, !.content = 0, !.mtime = 0,
            !.at = 1, !.names = {}, !.album = FALSE]

\* An exception leaves run_scan: rollback, and nobody resets scan_state.
Raise(w) == scan' = [scan EXCEPT ![w] = Resting]

\* The same from inside the try block, whose finally runs first.
RaiseInTry(w) ==
  /\ Raise(w)
  /\ percentage' = [percentage EXCEPT ![w] = Percent(w)]
  /\ UNCHANGED <<database, status, inserted>> /\ Keep

\* Mutant: the percentage is computed after the commit only.
SkipFileSilently(w) ==
  /\ scan' = [scan EXCEPT ![w] = NextFile(@)]
  /\ UNCHANGED <<database, scanStates>> /\ Keep

\* IntegrityError: rollback, and on to the next file.
SkipFile(w) ==
  /\ scan' = [scan EXCEPT ![w] = NextFile(@)]
  /\ percentage' = [percentage EXCEPT ![w] = Percent(w)]
  /\ UNCHANGED <<database, status, inserted>> /\ Keep

\* extract_embedded_art opens the file again before the upsert is sent.
GoUpsert(w, s) ==
  IF disk[s.file] = 0
    THEN RaiseInTry(w)
    ELSE scan' = [scan EXCEPT ![w] = [s EXCEPT !.pc = "upsert"]] /\ KeepData

-----------------------------------------------------------------------------
(* POST /music/scan and the start of the task *)

\* Mutant: the handler leaves scan_state.status to the task.
AcceptLate(w, full) ==
  /\ status[w] # "running"
  /\ tasks' = [tasks EXCEPT ![w] = Append(@, full)]
  /\ inserted' = [inserted EXCEPT ![w] = 0]
  /\ UNCHANGED <<disk, database, status, percentage, scan, history>>

\* scan_full: no await between the check and the assignment.
Accept(w, full) ==
  /\ status[w] # "running"
  /\ tasks' = [tasks EXCEPT ![w] = Append(@, full)]
  /\ status' = [status EXCEPT ![w] = "running"]
  /\ inserted' = [inserted EXCEPT ![w] = 0]
  /\ UNCHANGED <<disk, database, percentage, scan, history>>

\* run_scan up to its first await: the listing of the directory.
Begin(w) ==
  LET present == {f \in Files : disk[f] # 0} IN
  /\ tasks[w] # <<>>
  /\ tasks' = [tasks EXCEPT ![w] = Tail(@)]
  /\ status' = [status EXCEPT ![w] = "running"]
  /\ inserted' = [inserted EXCEPT ![w] = 0]
  /\ percentage' = [percentage EXCEPT ![w] = 0]
  /\ scan' = [scan EXCEPT ![w] =
       [Resting EXCEPT !.pc = IF Head(tasks[w]) THEN "next" ELSE "known",
                       !.full = Head(tasks[w]),
                       !.listed = present, !.todo = present]]
  /\ disturbed' = [q \in Workers |->
       IF q = w THEN Others(w) # {}
                ELSE disturbed[q] \/ q \in Others(w)]
  /\ overlap' = (overlap \/ Others(w) # {})
  /\ UNCHANGED <<disk, database>>

\* known_mtimes of an incremental scan.
ReadKnown(w) ==
  /\ scan[w].pc = "known"
  /\ scan' = [scan EXCEPT ![w].pc = "next",
                          ![w].known = [f \in Files |-> track[f].mtime]]
  /\ KeepData

-----------------------------------------------------------------------------
(* One file *)

\* Mutant: known > disk_mtime the wrong way round.
UpToDateReversed(w, f) ==
  ~scan[w].full /\ scan[w].known[f] # 0 /\ scan[w].known[f] <= disk[f]

\* known is not None and known >= disk_mtime
UpToDate(w, f) ==
  ~scan[w].full /\ scan[w].known[f] # 0 /\ scan[w].known[f] >= disk[f]

\* The skip of an incremental scan, or the part of parse_music_file that reads
\* the tags.  A file that is gone or cannot be read ends the scan.  (Where the
\* stat of an incremental scan raises, the finally block does not run.)
TakeFile(w, f) ==
  LET s == [scan[w] EXCEPT !.todo = @ \ {f}]
      percent == ((Cardinality(s.listed) - Cardinality(s.todo)) * 100)
                   \div Cardinality(s.listed) IN
  /\ scan[w].pc = "next"
  /\ f \in scan[w].todo
  /\ \/ /\ disk[f] = 0 /\ ~s.full
        /\ Raise(w) /\ UNCHANGED percentage
     \/ /\ disk[f] # 0 /\ UpToDate(w, f)
        /\ scan' = [scan EXCEPT ![w] = s]
        /\ percentage' = [percentage EXCEPT ![w] = percent]
     \/ /\ (disk[f] = 0 /\ s.full) \/ (disk[f] # 0 /\ ~UpToDate(w, f) /\ f \in Broken)
        /\ Raise(w)
        /\ percentage' = [percentage EXCEPT ![w] = percent]
     \/ /\ disk[f] # 0 /\ ~UpToDate(w, f) /\ f \notin Broken
        /\ scan' = [scan EXCEPT ![w] =
             [s EXCEPT !.pc = "stat", !.file = f, !.content = disk[f]]]
        /\ UNCHANGED percentage
  /\ UNCHANGED <<database, status, inserted>> /\ Keep

\* file.stat() at the end of parse_music_file, after the tags were read.
Stat(w) ==
  LET f == scan[w].file IN
  /\ scan[w].pc = "stat"
  /\ \/ disk[f] = 0 /\ RaiseInTry(w)
     \/ /\ disk[f] # 0
        /\ scan' = [scan EXCEPT ![w].mtime = disk[f],
                                ![w].pc = IF Linked(f) THEN "artist" ELSE "album"]
        /\ KeepData

\* s has its artist number at: the next one, or the album.
AfterName(w, s) ==
  /\ scan' = [scan EXCEPT ![w] =
       IF s.at < Len(NamesOf[s.file])
         THEN [s EXCEPT !.pc = "artist", !.at = @ + 1]
         ELSE [s EXCEPT !.pc = "album"]]
  /\ KeepData

\* Mutant: a cache of artists, shared by the scans, instead of the SELECT.
FindArtistCached(w) ==
  LET cache == artists \cup UNION {scan[q].names : q \in Workers} IN
  /\ scan[w].pc = "artist"
  /\ \/ Name(w) \in cache /\ AfterName(w, scan[w])
     \/ Name(w) \notin cache /\ Goto(w, "addartist") /\ KeepData

\* The SELECT of get_or_create_artist.
FindArtist(w) ==
  /\ scan[w].pc = "artist"
  /\ \/ /\ Name(w) \in artists \cup scan[w].names
        /\ AfterName(w, scan[w])
     \/ /\ Name(w) \notin artists \cup scan[w].names
        /\ Goto(w, "addartist") /\ KeepData

\* Its INSERT.  Another scan may have inserted the name since the SELECT: the
\* whole file is skipped then.
AddArtist(w) ==
  /\ scan[w].pc = "addartist"
  /\ Waits(w) = {}
  /\ \/ Name(w) \in artists /\ SkipFile(w)
     \/ /\ Name(w) \notin artists
        /\ AfterName(w, [scan[w] EXCEPT !.names = @ \cup {Name(w)}])

\* Mutant: no SELECT before the INSERT of the album.
FindAlbumNever(w) ==
  LET a == AlbumOf[scan[w].file] IN
  /\ scan[w].pc = "album"
  /\ \/ a = None /\ GoUpsert(w, scan[w])
     \/ a # None /\ Goto(w, "addalbum") /\ KeepData

\* The SELECT of the album, whose name is not unique: scalar_one_or_none
\* raises MultipleResultsFound when there are two.
FindAlbum(w) ==
  LET a == AlbumOf[scan[w].file] IN
  /\ scan[w].pc = "album"
  /\ \/ a = None /\ GoUpsert(w, scan[w])
     \/ a # None /\ albums[a] = 0 /\ Goto(w, "addalbum") /\ KeepData
     \/ a # None /\ albums[a] = 1 /\ GoUpsert(w, scan[w])
     \/ a # None /\ albums[a] > 1 /\ RaiseInTry(w)

\* Its INSERT, which conflicts with nothing.
AddAlbum(w) ==
  /\ scan[w].pc = "addalbum"
  /\ GoUpsert(w, [scan[w] EXCEPT !.album = TRUE])

\* INSERT ... ON CONFLICT (file_path) DO UPDATE
Upsert(w) ==
  /\ scan[w].pc = "upsert"
  /\ Waits(w) = {}
  /\ Goto(w, "relink") /\ KeepData

\* The links to artists and composers are deleted and inserted again; a name
\* that comes twice violates their primary key.
Relink(w) ==
  /\ scan[w].pc = "relink"
  /\ Waits(w) = {}
  /\ \/ scan[w].file \in Duplicated /\ SkipFile(w)
     \/ scan[w].file \notin Duplicated /\ Goto(w, "commit") /\ KeepData

\* The links that other scans have decided to delete without these new ones.
NoticeRelink(q, f) ==
  IF scan[q].pc = "unlink" /\ f \in scan[q].stale /\ Linked(f)
    THEN [scan[q] EXCEPT !.relinked = @ \cup {f}] ELSE scan[q]

\* session.commit() publishes the artists, the album, the track and its links.
Commit(w) ==
  LET s == scan[w]  f == s.file IN
  /\ s.pc = "commit"
  /\ track' = [track EXCEPT ![f] = [content |-> s.content, mtime |-> s.mtime]]
  /\ artists' = artists \cup s.names
  /\ albums' = [a \in Albums |->
       IF s.album /\ a = AlbumOf[f] THEN albums[a] + 1 ELSE albums[a]]
  /\ scan' = [q \in Workers |->
       IF q # w THEN NoticeRelink(q, f)
       ELSE NextFile(s)]
  /\ inserted' = [inserted EXCEPT ![w] = @ + 1]
  /\ percentage' = [percentage EXCEPT ![w] = Percent(w)]
  /\ UNCHANGED status /\ Keep

-----------------------------------------------------------------------------
(* The tracks whose files are gone *)

Done(w) ==
  /\ status' = [status EXCEPT ![w] = "done"]
  /\ UNCHANGED <<artists, albums, inserted, percentage>> /\ Keep

\* Mutant: current_paths holds the files that were read, not those listed.
ListStaleKnown(w) ==
  LET stale == {f \in Files : track[f] # NoRow
                  /\ f \notin {g \in scan[w].listed : ~UpToDate(w, g)}} IN
  /\ scan[w].pc = "next" /\ scan[w].todo = {}
  /\ IF stale = {}
       THEN Raise(w) /\ Done(w) /\ UNCHANGED track
       ELSE /\ scan' = [scan EXCEPT ![w].pc = "issue", ![w].stale = stale]
            /\ KeepData

\* stale_track_ids: rows whose path was not in the listing of the start.
ListStale(w) ==
  LET stale == {f \in Files : track[f] # NoRow /\ f \notin scan[w].listed} IN
  /\ scan[w].pc = "next" /\ scan[w].todo = {}
  /\ IF stale = {}
       THEN Raise(w) /\ Done(w) /\ UNCHANGED track
       ELSE /\ scan' = [scan EXCEPT ![w].pc = "issue", ![w].stale = stale]
            /\ KeepData

\* The DELETEs of the links are sent: what they see is fixed here.
IssueUnlink(w) == scan[w].pc = "issue" /\ Goto(w, "unlink") /\ KeepData

Unlink(w) ==
  /\ scan[w].pc = "unlink"
  /\ Waits(w) = {}
  /\ Goto(w, "delete") /\ KeepData

\* The DELETE of the tracks and the commit.  Links that were not deleted still
\* refer to their track: an IntegrityError outside of the try block.  A row
\* that is gone is in nobody's stale_track_ids, whatever takes its path later.
DeleteStale(w) ==
  LET gone == scan[w].stale IN
  /\ scan[w].pc = "delete"
  /\ Waits(w) = {}
  /\ \/ scan[w].relinked \cap gone # {} /\ Raise(w) /\ KeepData
     \/ /\ scan[w].relinked \cap gone = {}
        /\ track' = [f \in Files |-> IF f \in gone THEN NoRow ELSE track[f]]
        /\ scan' = [q \in Workers |->
             IF q = w THEN Resting ELSE [scan[q] EXCEPT !.stale = @ \ gone]]
        /\ Done(w)

-----------------------------------------------------------------------------
(* What happens around a scan *)

\* Nobody in the set can go on before another one of it has.
Deadlocked(w) ==
  \E S \in SUBSET Workers : w \in S /\ \A q \in S : Waits(q) \cap S # {}

\* Mutant: the statement is tried again without a rollback.
DeadlockVictimRetries(w) ==
  /\ Deadlocked(w)
  /\ KeepData /\ UNCHANGED scan

\* PostgreSQL ends the deadlock by failing one of the statements.
DeadlockVictim(w) ==
  /\ Deadlocked(w)
  /\ IF scan[w].file = None THEN Raise(w) /\ KeepData ELSE RaiseInTry(w)

\* The worker process dies and gunicorn starts another one.
Crash(w) ==
  /\ status' = [status EXCEPT ![w] = "idle"]
  /\ inserted' = [inserted EXCEPT ![w] = 0]
  /\ percentage' = [percentage EXCEPT ![w] = 0]
  /\ tasks' = [tasks EXCEPT ![w] = <<>>]
  /\ Raise(w)
  /\ UNCHANGED <<disk, database, history>>

\* Somebody adds, replaces or removes a file of the music directory.
Touch(f, m) ==
  /\ disk[f] # m
  /\ disk' = [disk EXCEPT ![f] = m]
  /\ disturbed' = [w \in Workers |-> disturbed[w] \/ Active(w)]
  /\ UNCHANGED <<database, scanStates, tasks, scan, overlap>>

Step(w) ==
  \/ Begin(w) \/ ReadKnown(w) \/ \E f \in Files : TakeFile(w, f)
  \/ Stat(w) \/ FindArtist(w) \/ AddArtist(w) \/ FindAlbum(w) \/ AddAlbum(w)
  \/ Upsert(w) \/ Relink(w) \/ Commit(w)
  \/ ListStale(w) \/ IssueUnlink(w) \/ Unlink(w) \/ DeleteStale(w)
  \/ DeadlockVictim(w)

Next ==
  \/ \E w \in Workers :
       \/ Step(w)
       \/ Crash(w)
       \/ \E full \in BOOLEAN : Accept(w, full)
  \/ \E f \in Files, m \in Times : Touch(f, m)

Spec == Init /\ [][Next]_vars

\* The statements that may wait for a lock.
LockStep(w) ==
  AddArtist(w) \/ Upsert(w) \/ Relink(w) \/ Unlink(w) \/ DeleteStale(w)

\* The event loop runs every task that can go on, PostgreSQL breaks deadlocks
\* and grants a lock to its oldest waiter.
FairSpec ==
  Spec /\ \A w \in Workers : WF_vars(Step(w)) /\ SF_vars(LockStep(w))

-----------------------------------------------------------------------------
(* Safety *)

\* scan_state.status is a guard: a worker never has two scans, in whatever
\* order requests and background tasks run on its event loop.
OneScanPerWorker ==
  \A w \in Workers : Len(tasks[w]) + (IF Active(w) THEN 1 ELSE 0) <= 1

\* The transaction of a file is all or nothing (insert_music_file): a track in
\* the table has its artists and its album there, after any crash, rollback,
\* deadlock or skipped file.
TracksComplete ==
  \A f \in Files : track[f] # NoRow =>
    /\ \A i \in DOMAIN NamesOf[f] : NamesOf[f][i] \in artists
    /\ AlbumOf[f] # None => albums[AlbumOf[f]] > 0

\* The tables as a reader sees them: the row of each path, and the paths whose
\* row has its artists and its album beside it.
Whole == {f \in Files : /\ track[f] # NoRow
                        /\ \A i \in DOMAIN NamesOf[f] : NamesOf[f][i] \in artists
                        /\ AlbumOf[f] # None => albums[AlbumOf[f]] > 0}

Shelf == INSTANCE Library WITH copy <- track, whole <- Whole, Nothing <- NoRow

\* Scans implement the library: whatever they do at once, and wherever they
\* fail, die or deadlock, the tables change by one whole track at a time, or by
\* the removal of tracks, and what another scan commits never breaks a track.
KeepsLibrary == Shelf!Spec

\* The lookup of an album by name keeps its rows unique, although the table
\* does not, as long as scans do not run at once.  Where they do, each worker
\* adds at most one row, however often it is restarted and scans again.
AlbumsBounded ==
  \A a \in Albums : albums[a] <= IF overlap THEN Cardinality(Workers) ELSE 1

\* A scan that nothing disturbed leaves in the table exactly the readable
\* files of the disk (status DONE at the end of run_scan): a full scan with
\* their present content, an incremental one with times that are not older,
\* from any contents of the table that earlier scans and crashes have left.
ScanIsComplete ==
  [][\A w \in Workers :
       status[w] # "done" /\ status'[w] = "done" /\ ~disturbed[w] =>
         \A f \in Files :
           IF disk[f] = 0 \/ f \in Duplicated
             THEN track'[f] = NoRow
             ELSE /\ track'[f].mtime >= disk[f]
                  /\ scan[w].full =>
                       track'[f] = [content |-> disk[f], mtime |-> disk[f]]]_vars

\* A row disappears only when its file was not on the disk when the scan that
\* deletes it began, and the scan has got through all the files it listed.
OnlyStaleDeleted ==
  [][\A f \in Files : track[f] # NoRow /\ track'[f] = NoRow =>
       \E w \in Workers : /\ f \notin scan[w].listed /\ scan[w].todo = {}
                          /\ status'[w] = "done"]_vars

\* GET /music/scan/status: the percentage never goes back during a scan, and
\* a scan that is done shows 100, unless the directory is empty.
ProgressShown ==
  [][\A w \in Workers :
       Active(w) =>
         /\ percentage'[w] >= percentage[w] \/ status'[w] = "idle"
         /\ status'[w] = "done" /\ scan[w].listed # {} => percentage'[w] = 100]_vars

\* Every scan ends, with DONE or an exception: no wait for a lock is for ever.
ScansEnd == \A w \in Workers : Active(w) ~> ~Active(w)

-----------------------------------------------------------------------------
(* What the code says of itself and does not keep *)

\* "Scan already running" (app/routers/music.py:31): a request is refused with
\* it only while there is a scan.
RunningMeansScan ==
  \A w \in Workers : status[w] = "running" => Active(w) \/ tasks[w] # <<>>

=============================================================================
