------------------------------ MODULE TrackPages ------------------------------
(***************************************************************************)
(* GET /music/tracks: a client pages through the tracks by id              *)
(* (MusicService.get_tracks, MusicRepository.get_tracks) while scans       *)
(* insert, update and delete them.                                         *)
(*                                                                         *)
(* An INSERT draws its id from a sequence before it looks for a conflict,  *)
(* and the id becomes visible when the transaction commits: with several   *)
(* scans not in the order of the ids.  A page takes several statements,    *)
(* each with a snapshot of its own: the rows first, their artists later.   *)
(* A row carries the revision of its tags that it shows.                   *)
(***************************************************************************)
EXTENDS Integers, FiniteSets

CONSTANTS
  Files,      \* paths
  Scans,      \* workers that scan
  None,       \* no file
  MaxLimit,   \* the 100 of the query parameter limit
  MaxId,      \* bound on the ids drawn
  MaxRev      \* bound on the revisions of a file

ASSUME NoneAssumption == None \notin Files
ASSUME FiniteAssumption == IsFiniteSet(Files)
ASSUME BoundAssumption == MaxLimit \in Nat /\ MaxId \in Nat /\ MaxRev \in Nat

VARIABLES
  nextId,   \* sequence of tracks.id
  id,       \* tracks: the committed id of each path, 0: no row
  tags,     \* the revision in the columns of the row
  links,    \* the revision of its rows in track_artists, 0: none
  scan,     \* the open transaction of each scan
  pc,       \* what the client is doing
  cursor,   \* id of the last item it got, 0: none
  limit,    \* of the request in flight
  page,     \* the rows that its first statement returned
  items,    \* all items the client got since it began
  steady,   \* history: ids that were in the table since it began
  deleted,  \* history: paths whose row was deleted since it began
  overlap   \* history: two scans have had a transaction open at once

table == <<nextId, id, tags, links>>
client == <<pc, cursor, limit, page, items>>
history == <<steady, deleted, overlap>>
vars == <<table, scan, client, history>>

Ids == 1 .. MaxId
Revs == 0 .. MaxRev
Transaction == [pc : {"idle", "insert", "commit"}, file : Files \cup {None},
                id : 0 .. MaxId]
Resting == [pc |-> "idle", file |-> None, id |-> 0]

TypeOK ==
  /\ nextId \in 1 .. MaxId + 1
  /\ id \in [Files -> 0 .. MaxId]
  /\ tags \in [Files -> Revs] /\ links \in [Files -> Revs]
  /\ scan \in [Scans -> Transaction]
  /\ pc \in {"idle", "ask", "links", "ended"}
  /\ cursor \in 0 .. MaxId
  /\ limit \in 0 .. MaxLimit
  /\ page \subseteq [file : Files, id : Ids, tags : Revs]
  /\ items \subseteq [file : Files, id : Ids, tags : Revs, links : Revs]
  /\ steady \subseteq Ids /\ deleted \subseteq Files /\ overlap \in BOOLEAN

Init ==
  /\ nextId = 1
  /\ id = [f \in Files |-> 0]
  /\ tags = [f \in Files |-> 0] /\ links = [f \in Files |-> 0]
  /\ scan = [s \in Scans |-> Resting]
  /\ pc = "idle" /\ cursor = 0 /\ limit = 0 /\ page = {} /\ items = {}
  /\ steady = {} /\ deleted = {} /\ overlap = FALSE

Active(s) == scan[s].pc # "idle"
Stored(f) == id[f] # 0
Writes(s, f) == scan[s].pc = "commit" /\ scan[s].file = f

-----------------------------------------------------------------------------
(* The scans *)

\* Mutant: ids that do not grow, such as random ones.
DrawAny(s, f) ==
  /\ scan[s].pc = "idle"
  /\ \E n \in Ids :
       /\ \A g \in Files : id[g] # n
       /\ \A q \in Scans : scan[q].id # n
       /\ scan' = [scan EXCEPT ![s] = [pc |-> "insert", file |-> f, id |-> n]]
  /\ overlap' = (overlap \/ \E q \in Scans \ {s} : Active(q))
  /\ UNCHANGED <<table, client, steady, deleted>>

\* The INSERT of insert_music_file draws an id, whether it will need it or not.
Draw(s, f) ==
  /\ scan[s].pc = "idle"
  /\ nextId <= MaxId
  /\ nextId' = nextId + 1
  /\ scan' = [scan EXCEPT ![s] = [pc |-> "insert", file |-> f, id |-> nextId]]
  /\ overlap' = (overlap \/ \E q \in Scans \ {s} : Active(q))
  /\ UNCHANGED <<id, tags, links, client, steady, deleted>>

\* Mutant: the row is replaced, with a new id.
WriteReplace(s) ==
  /\ scan[s].pc = "insert"
  /\ \A q \in Scans : ~Writes(q, scan[s].file)
  /\ scan' = [scan EXCEPT ![s].pc = "commit"]
  /\ UNCHANGED <<table, client, history>>

\* Mutant: the id is read from the sequence again.
WriteCurrent(s) ==
  /\ scan[s].pc = "insert"
  /\ \A q \in Scans : ~Writes(q, scan[s].file)
  /\ scan' = [scan EXCEPT ![s].pc = "commit", ![s].id = nextId]
  /\ UNCHANGED <<table, client, history>>

\* ON CONFLICT (file_path) DO UPDATE: it waits for another transaction that
\* has written the path, and a row that is there keeps its id.
Write(s) ==
  LET f == scan[s].file IN
  /\ scan[s].pc = "insert"
  /\ \A q \in Scans : ~Writes(q, f)
  /\ scan' = [scan EXCEPT ![s].pc = "commit",
                          ![s].id = IF Stored(f) THEN id[f] ELSE @]
  /\ UNCHANGED <<table, client, history>>

\* The columns and the links of the row, in one transaction.
Commit(s) ==
  LET f == scan[s].file IN
  /\ scan[s].pc = "commit"
  /\ tags[f] < MaxRev
  /\ id' = [id EXCEPT ![f] = scan[s].id]
  /\ tags' = [tags EXCEPT ![f] = @ + 1]
  /\ links' = [links EXCEPT ![f] = tags[f] + 1]
  /\ scan' = [scan EXCEPT ![s] = Resting]
  /\ UNCHANGED <<nextId, client, history>>

\* IntegrityError, any other exception, a deadlock, the end of the process:
\* the id is lost.
Rollback(s) ==
  /\ Active(s)
  /\ scan' = [scan EXCEPT ![s] = Resting]
  /\ UNCHANGED <<table, client, history>>

Forget(S) ==
  /\ steady' = steady \ {id[f] : f \in S}
  /\ deleted' = deleted \cup S
  /\ UNCHANGED <<nextId, tags, scan, client, overlap>>

\* Mutant: a commit between the DELETE of the links and that of the tracks.
DeleteLinksOnly(s, S) ==
  /\ scan[s].pc = "idle"
  /\ \A f \in S : Stored(f) /\ \A q \in Scans : ~Writes(q, f)
  /\ links' = [f \in Files |-> IF f \in S THEN 0 ELSE links[f]]
  /\ UNCHANGED <<nextId, id, tags, scan, client, history>>

\* The stale tracks and their links, in one transaction, which waits for
\* those that have written one of them.  Which are stale is left open.  The
\* revisions of a path go on with its next row.
Delete(s, S) ==
  /\ scan[s].pc = "idle"
  /\ \A f \in S : Stored(f) /\ \A q \in Scans : ~Writes(q, f)
  /\ id' = [f \in Files |-> IF f \in S THEN 0 ELSE id[f]]
  /\ links' = [f \in Files |-> IF f \in S THEN 0 ELSE links[f]]
  /\ Forget(S)

-----------------------------------------------------------------------------
(* The client and its pages *)

\* It starts at the top of the list.
Begin ==
  /\ pc \in {"idle", "ended"}
  /\ pc' = "ask"
  /\ cursor' = 0 /\ limit' = 0 /\ page' = {} /\ items' = {}
  /\ steady' = {id[f] : f \in {g \in Files : Stored(g)}}
  /\ deleted' = {}
  /\ UNCHANGED <<table, scan, overlap>>

\* It asks once more from the last item it got, for what is new.
Resume ==
  /\ pc = "ended"
  /\ pc' = "ask"
  /\ UNCHANGED <<table, scan, cursor, limit, page, items, history>>

\* Mutant: where(Track.id >= cursor).
AboveOrAt == {f \in Files : Stored(f) /\ id[f] >= cursor}

\* where(Track.id > cursor); without a cursor, all.
Above == {f \in Files : Stored(f) /\ id[f] > cursor}

\* order_by(Track.id).limit(l)
FirstOf(P, l) ==
  /\ \A f \in P, g \in Above \ P : id[f] < id[g]
  /\ (P = Above /\ Cardinality(P) <= l) \/ Cardinality(P) = l

\* The SELECT of the tracks; 1 <= limit <= 100 is checked by the route.
Ask(l) ==
  /\ pc = "ask"
  /\ \E P \in SUBSET Above :
       /\ FirstOf(P, l)
       /\ page' = {[file |-> f, id |-> id[f], tags |-> tags[f]] : f \in P}
  /\ limit' = l
  /\ pc' = "links"
  /\ UNCHANGED <<table, scan, cursor, items, history>>

\* The item of a row; its artists come from the SELECT of selectinload.
Item(r) ==
  [file |-> r.file, id |-> r.id, tags |-> r.tags,
   links |-> IF id[r.file] = r.id THEN links[r.file] ELSE 0]

\* Mutant: has_more = len(items) > limit.
RespondShort ==
  /\ pc = "links"
  /\ items' = items \cup {Item(r) : r \in page}
  /\ \/ page = {} /\ UNCHANGED cursor
     \/ \E r \in page : cursor' = r.id /\ \A q \in page : q.id <= r.id
  /\ pc' = IF Cardinality(page) > limit THEN "ask" ELSE "ended"
  /\ page' = {}
  /\ UNCHANGED <<table, scan, limit, history>>

\* The second statement and the response.  The client goes on behind the last
\* item while there is a next_cursor: while the page was full.
Respond ==
  /\ pc = "links"
  /\ items' = items \cup {Item(r) : r \in page}
  /\ \/ page = {} /\ UNCHANGED cursor
     \/ \E r \in page : cursor' = r.id /\ \A q \in page : q.id <= r.id
  /\ pc' = IF Cardinality(page) = limit THEN "ask" ELSE "ended"
  /\ page' = {}
  /\ UNCHANGED <<table, scan, limit, history>>

\* The request fails, and the client sends it again.
Fail ==
  /\ pc = "links"
  /\ pc' = "ask" /\ page' = {}
  /\ UNCHANGED <<table, scan, cursor, limit, items, history>>

Scanning ==
  \E s \in Scans :
    \/ \E f \in Files : Draw(s, f)
    \/ Write(s) \/ Commit(s) \/ Rollback(s)
    \/ \E S \in SUBSET Files \ {{}} : Delete(s, S)

Paging == Respond \/ \E l \in 1 .. MaxLimit : Ask(l)

Next == Scanning \/ Paging \/ Begin \/ Resume \/ Fail

Spec == Init /\ [][Next]_vars

\* Every request gets to its SELECT, and not all of them fail.
FairSpec == Spec /\ WF_vars(Paging) /\ SF_vars(Respond)

-----------------------------------------------------------------------------
(* Properties *)

Listed(n) == \E i \in items : i.id = n

\* No gaps (get_tracks, app/repository/music.py:22-47): a track that was in the
\* table since the client began is among its items as soon as they have got
\* past its id, and when next_cursor is null at the latest.  Retries, page
\* sizes and what scans do to other tracks make no difference.
SteadyListed ==
  \A n \in steady : n <= cursor \/ pc = "ended" => Listed(n)

\* No repeats: two items of one path are of two rows, the first of which was
\* deleted after the client began.  And no mistaken identity: an id that the
\* client has got, and may keep in playback_state for a track that is deleted
\* later, is never that of another path.
ListedOnce ==
  /\ \A i, j \in items : i.file = j.file /\ i # j => i.file \in deleted
  /\ \A i \in items, f \in Files : id[f] = i.id => f = i.file

\* A client that goes on from its last item misses nothing that appears later,
\* as long as scans do not overlap: ids become visible in their order.
NoneMissed ==
  ~overlap => \A f \in Files : Stored(f) /\ id[f] <= cursor => Listed(id[f])

\* An item is put together from two snapshots (selectinload).  Its artists are
\* those of its title or of a later scan, and there are none only if the track
\* is gone for good.
ItemsWhole ==
  \A i \in items : \/ i.links >= i.tags
                   \/ i.links = 0 /\ \A f \in Files : id[f] # i.id

\* The tables as a page reads them: which row each path has and what it shows,
\* and the rows whose artists are of the same revision.
Copies == [f \in Files |-> IF Stored(f) THEN <<id[f], tags[f]>> ELSE <<0, 0>>]
Whole == {f \in Files : Stored(f) /\ links[f] = tags[f]}

Shelf == INSTANCE Library WITH copy <- Copies, whole <- Whole, Nothing <- <<0, 0>>

\* The scans implement the library: no snapshot of a page, taken between any
\* two commits of several scans, shows a row with other artists than its own,
\* and a commit changes nothing of any other row.
ListsLibrary == Shelf!Spec

\* The client gets to the end of the list.
WalkEnds == pc \in {"ask", "links"} ~> pc = "ended"

=============================================================================
