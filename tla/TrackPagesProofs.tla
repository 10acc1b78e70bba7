--------------------------- MODULE TrackPagesProofs ---------------------------
(***************************************************************************)
(* Proofs about TrackPages, for any paths, scans, limits and bounds.       *)
(***************************************************************************)
EXTENDS TrackPages, FiniteSetTheorems, TLAPS

-----------------------------------------------------------------------------
(* The invariant *)

\* An id that is drawn and not in the table yet.
Fresh(s) == Active(s) /\ id[scan[s].file] # scan[s].id

\* A written row is new or keeps its id, and nobody else writes its path.
Writers ==
  \A s \in Scans :
    /\ Active(s) => scan[s].file \in Files /\ scan[s].id # 0
    /\ scan[s].pc = "commit" =>
         /\ id[scan[s].file] \in {0, scan[s].id}
         /\ \A q \in Scans : Writes(q, scan[s].file) => q = s
    /\ scan[s].pc = "insert" => Fresh(s)

\* Ids grow, and what is in the table, in flight or with the client is drawn.
Drawn ==
  /\ \A f \in Files : id[f] < nextId
  /\ \A s \in Scans : scan[s].id < nextId
  /\ \A r \in page : r.id < nextId
  /\ \A i \in items : i.id <= cursor
  /\ cursor < nextId

\* No id belongs to two paths, and a fresh one is known to nobody.
Distinct ==
  /\ \A f, g \in Files : id[f] = id[g] /\ Stored(f) => f = g
  /\ \A s \in Scans : Fresh(s) =>
       /\ \A f \in Files : id[f] # scan[s].id
       /\ \A q \in Scans : Active(q) /\ scan[q].id = scan[s].id => q = s
       /\ \A r \in page \cup items : r.id # scan[s].id

\* A row that was seen is still there as it was seen, updated or gone.
SeenRow(r) ==
  /\ \A f \in Files : id[f] = r.id => f = r.file
  /\ r.file \notin deleted => id[r.file] = r.id
  /\ id[r.file] = r.id => r.tags <= tags[r.file]

Seen == \A r \in page \cup items : SeenRow(r)

\* The links of a row are as new as its columns.
Together == \A f \in Files : Stored(f) => links[f] = tags[f]

\* The page in flight: one row for each path, all above the cursor.
PageRows ==
  /\ page # {} => pc = "links"
  /\ \A r \in page : r.id > cursor
  /\ \A r, q \in page : r.file = q.file => r = q

Paged(n) == \E r \in page : r.id = n

\* It leaves out nothing that was there throughout.
PageSteady ==
  /\ \A n \in steady : \E f \in Files : id[f] = n
  /\ pc = "links" =>
       \A n \in steady : n > cursor =>
         /\ (\E r \in page : n <= r.id) => Paged(n)
         /\ Cardinality(page) # limit => Paged(n)

\* While scans do not overlap, a fresh id is the highest one, and the page
\* leaves out nothing that is in the table.
InOrder ==
  ~overlap =>
    /\ \A s, q \in Scans : Active(s) /\ Active(q) => s = q
    /\ \A s \in Scans : Fresh(s) =>
         /\ \A f \in Files : id[f] < scan[s].id
         /\ \A r \in page : r.id < scan[s].id
         /\ cursor < scan[s].id
    /\ \A f \in Files : Stored(f) /\ id[f] > cursor
                          /\ (\E r \in page : id[f] <= r.id) => Paged(id[f])

\* The part of ListedOnce that is about items only.
NoRepeats == \A i, j \in items : i.file = j.file /\ i # j => i.file \in deleted

TableInv == TypeOK /\ Writers /\ Drawn /\ Distinct
ItemInv == Together /\ Seen /\ PageRows /\ NoRepeats /\ ItemsWhole
ListInv == PageSteady /\ SteadyListed /\ InOrder /\ NoneMissed
PagesInv == TableInv /\ ItemInv /\ ListInv

-----------------------------------------------------------------------------
(* The table *)

LEMMA InitInv ==
  ASSUME Init PROVE PagesInv
<1>1. TypeOK
  <2>1. Resting \in Transaction /\ 0 \in Revs /\ 0 \in 0 .. MaxId /\ 0 \in 0 .. MaxLimit
    BY BoundAssumption DEF Transaction, Resting, Revs
  <2>2. nextId \in 1 .. MaxId + 1
    BY BoundAssumption DEF Init
  <2> QED BY <2>1, <2>2 DEF Init, TypeOK
<1>2. Writers /\ Drawn /\ Distinct
  BY DEF Init, Writers, Drawn, Distinct, Fresh, Active, Writes, Stored, Resting
<1>3. ItemInv
  BY DEF Init, ItemInv, Together, Seen, PageRows, NoRepeats, ItemsWhole, Stored
<1>4. ListInv
  BY DEF Init, ListInv, PageSteady, SteadyListed, InOrder, NoneMissed, Stored,
     Active, Fresh, Resting
<1> QED BY <1>1, <1>2, <1>3, <1>4 DEF PagesInv, TableInv

\* What a scan has open after it has drawn an id, and nothing else changes.
LEMMA DrawTable ==
  ASSUME TableInv, NEW s \in Scans, NEW f \in Files, Draw(s, f)
  PROVE  TableInv'
<1> USE DEF TableInv
<1>1. /\ scan'[s] = [pc |-> "insert", file |-> f, id |-> nextId]
      /\ \A q \in Scans \ {s} : scan'[q] = scan[q]
      /\ nextId' = nextId + 1 /\ nextId \in Ids
      /\ UNCHANGED <<id, tags, links, client, steady, deleted>>
  BY BoundAssumption DEF Draw, TypeOK, Ids
<1>2. TypeOK'
  BY <1>1, BoundAssumption DEF Draw, TypeOK, Transaction, Ids, client
<1>3. Drawn'
  BY <1>1, BoundAssumption DEF Drawn, TypeOK, client, Transaction, Ids
<1>4. Writers'
  BY <1>1 DEF Writers, Fresh, Active, Writes, Drawn, TypeOK, Ids
<1>5. Distinct'
  <2>1. \A q \in Scans : scan[q].id # nextId
    BY BoundAssumption DEF Drawn, TypeOK, Transaction
  <2>2. \A r \in page \cup items : r.id # nextId
    BY BoundAssumption DEF Drawn, TypeOK, Ids
  <2>3. \A g \in Files : id[g] # nextId
    BY BoundAssumption DEF Drawn, TypeOK
  <2> QED BY <1>1, <2>1, <2>2, <2>3 DEF Distinct, Fresh, Active, Stored, client
<1> QED BY <1>2, <1>3, <1>4, <1>5

LEMMA WriteTable ==
  ASSUME TableInv, NEW s \in Scans, Write(s)
  PROVE  TableInv'
<1> USE DEF TableInv
<1> DEFINE f == scan[s].file
<1>1. /\ scan'[s] = [pc |-> "commit", file |-> f,
                     id |-> IF Stored(f) THEN id[f] ELSE scan[s].id]
      /\ \A q \in Scans \ {s} : scan'[q] = scan[q]
      /\ scan[s].pc = "insert" /\ f \in Files
      /\ \A q \in Scans : ~Writes(q, f)
      /\ UNCHANGED <<table, client, history>>
  BY DEF Write, TypeOK, Transaction, Writers, Active
<1> HIDE DEF f
<1>2. TypeOK'
  BY <1>1 DEF Write, TypeOK, Transaction, table, client, history
<1>3. Drawn'
  BY <1>1 DEF Drawn, table, client
<1>4. Writers'
  BY <1>1 DEF Writers, Fresh, Active, Writes, table, Stored, f
<1>5. Distinct'
  <2>1. Fresh(s) /\ id[f] # scan[s].id
    BY <1>1 DEF Writers, Fresh, f
  <2>2. Fresh(s)' => ~Stored(f) /\ scan'[s].id = scan[s].id
    BY <1>1 DEF Fresh, table
  <2> QED BY <1>1, <2>1, <2>2 DEF Distinct, Fresh, Active, Stored, table, client
<1> QED BY <1>2, <1>3, <1>4, <1>5

LEMMA CommitTable ==
  ASSUME TableInv, NEW s \in Scans, Commit(s)
  PROVE  TableInv'
<1> USE DEF TableInv
<1> DEFINE f == scan[s].file
<1>1. /\ scan'[s] = Resting
      /\ \A q \in Scans \ {s} : scan'[q] = scan[q]
      /\ id'[f] = scan[s].id
      /\ \A g \in Files \ {f} : id'[g] = id[g]
      /\ scan[s].pc = "commit" /\ f \in Files /\ scan[s].id # 0
      /\ UNCHANGED <<nextId, client, history>>
  BY DEF Commit, TypeOK, Writers, Active
<1> HIDE DEF f
<1>2. TypeOK'
  BY <1>1, BoundAssumption DEF Commit, TypeOK, Transaction, Resting, Revs, client, history, f
<1>3. Drawn'
  BY <1>1 DEF Drawn, client, Resting, TypeOK
<1>4. Writers'
  BY <1>1 DEF Writers, Fresh, Active, Writes, Resting, Distinct, f
<1>5. Distinct'
  BY <1>1 DEF Distinct, Fresh, Active, Stored, client, Resting, Writers, f
<1> QED BY <1>2, <1>3, <1>4, <1>5

LEMMA RollbackTable ==
  ASSUME TableInv, NEW s \in Scans, Rollback(s)
  PROVE  TableInv'
<1> USE DEF TableInv
<1>1. /\ scan'[s] = Resting
      /\ \A q \in Scans \ {s} : scan'[q] = scan[q]
      /\ UNCHANGED <<table, client, history>>
  BY DEF Rollback, TypeOK
<1>2. TypeOK'
  BY <1>1, BoundAssumption DEF Rollback, TypeOK, Transaction, Resting, table, client, history
<1>3. Drawn'
  BY <1>1 DEF Drawn, table, client, Resting, TypeOK
<1>4. Writers' /\ Distinct'
  BY <1>1 DEF Writers, Distinct, Fresh, Active, Writes, Resting, Stored, table, client
<1> QED BY <1>2, <1>3, <1>4

LEMMA DeleteTable ==
  ASSUME TableInv, NEW s \in Scans, NEW S \in SUBSET Files, Delete(s, S)
  PROVE  TableInv'
<1> USE DEF TableInv
<1>1. /\ \A f \in Files : id'[f] = IF f \in S THEN 0 ELSE id[f]
      /\ \A f \in S, q \in Scans : ~Writes(q, f)
      /\ UNCHANGED <<nextId, tags, scan, client, overlap>>
  BY DEF Delete, Forget
<1>2. TypeOK'
  BY <1>1, BoundAssumption DEF Delete, Forget, TypeOK, client, Revs
<1>3. Drawn'
  BY <1>1 DEF Drawn, client, TypeOK
<1>4. \A q \in Scans : Fresh(q)' => Fresh(q)
  BY <1>1 DEF Writers, Fresh, Active, Writes, TypeOK, Transaction
<1>5. Writers'
  BY <1>1 DEF Writers, Fresh, Active, Writes
<1>6. Distinct'
  BY <1>1, <1>4 DEF Distinct, Writers, Fresh, Active, Stored, client
<1> QED BY <1>2, <1>3, <1>5, <1>6

\* The rows of a page are rows of the table.
LEMMA AskRows ==
  ASSUME TypeOK, NEW l \in 1 .. MaxLimit, Ask(l)
  PROVE  /\ page' \subseteq [file : Files, id : Ids, tags : Revs]
         /\ \A r \in page' : /\ Stored(r.file) /\ id[r.file] = r.id
                             /\ tags[r.file] = r.tags /\ r.id > cursor
         /\ \E P \in SUBSET Above :
              /\ FirstOf(P, l)
              /\ page' = {[file |-> f, id |-> id[f], tags |-> tags[f]] : f \in P}
<1>1. PICK P \in SUBSET Above :
        /\ FirstOf(P, l)
        /\ page' = {[file |-> f, id |-> id[f], tags |-> tags[f]] : f \in P}
  BY DEF Ask
<1>2. \A f \in P : /\ f \in Files /\ Stored(f) /\ id[f] > cursor
                   /\ id[f] \in Ids /\ tags[f] \in Revs
  BY BoundAssumption DEF Above, Stored, TypeOK, Ids
<1> QED BY <1>1, <1>2

\* What a response gives the client.
LEMMA RespondItems ==
  ASSUME TypeOK, Drawn, PageRows, Respond
  PROVE  /\ items' \subseteq [file : Files, id : Ids, tags : Revs, links : Revs]
         /\ \A i \in items' \ items :
              \E r \in page : i = Item(r) /\ i.file = r.file /\ i.id = r.id
                              /\ i.tags = r.tags
         /\ \A r \in page : Item(r) \in items'
         /\ cursor' \in 0 .. MaxId /\ cursor' >= cursor /\ cursor' < nextId
         /\ page # {} => \E r \in page : cursor' = r.id
         /\ \A r \in page : r.id <= cursor'
         /\ items \subseteq items' /\ page' = {}
         /\ UNCHANGED <<table, scan, limit, history>>
<1>1. \A r \in page : /\ r \in [file : Files, id : Ids, tags : Revs]
                      /\ Item(r).links \in Revs
  BY BoundAssumption DEF TypeOK, Item, Revs
<1>2. items' = items \cup {Item(r) : r \in page} /\ page' = {}
      /\ UNCHANGED <<table, scan, limit, history>>
  BY DEF Respond
<1>3. \A r \in page :
        /\ Item(r) \in [file : Files, id : Ids, tags : Revs, links : Revs]
        /\ Item(r).file = r.file /\ Item(r).id = r.id /\ Item(r).tags = r.tags
  BY <1>1 DEF Item
<1>4. /\ cursor' \in 0 .. MaxId /\ cursor' >= cursor /\ cursor' < nextId
      /\ page # {} => \E r \in page : cursor' = r.id
      /\ \A r \in page : r.id <= cursor'
  <2>1. CASE page = {}
    BY <2>1 DEF Respond, TypeOK, Drawn
  <2>2. CASE \E r \in page : cursor' = r.id /\ \A q \in page : q.id <= r.id
    BY <2>2, <1>1, BoundAssumption DEF TypeOK, Drawn, PageRows, Ids
  <2> QED BY <2>1, <2>2 DEF Respond
<1>5. items' \subseteq [file : Files, id : Ids, tags : Revs, links : Revs]
  BY <1>2, <1>3 DEF TypeOK
<1> QED BY <1>2, <1>3, <1>4, <1>5

LEMMA ClientTable ==
  ASSUME TableInv, PageRows,
         Begin \/ Resume \/ Respond \/ Fail \/ \E l \in 1 .. MaxLimit : Ask(l)
  PROVE  TableInv'
<1> USE DEF TableInv
<1>1. UNCHANGED <<table, scan>>
  BY DEF Begin, Resume, Respond, Fail, Ask
<1>2. Writers'
  BY <1>1 DEF Writers, Fresh, Active, Writes, table
<1>3. CASE Begin
  <2>1. {id[f] : f \in {g \in Files : Stored(g)}} \subseteq Ids
    BY BoundAssumption DEF Stored, TypeOK, Ids
  <2>2. TypeOK'
    BY <1>3, <2>1, BoundAssumption DEF Begin, TypeOK, table
  <2>3. Drawn' /\ Distinct'
    BY <1>3 DEF Begin, Drawn, Distinct, Fresh, Active, Stored, table, TypeOK
  <2> QED BY <1>2, <2>2, <2>3
<1>4. CASE Resume \/ Fail
  <2>1. TypeOK'
    BY <1>4 DEF Resume, Fail, TypeOK, table, history
  <2>2. Drawn' /\ Distinct'
    BY <1>4 DEF Resume, Fail, Drawn, Distinct, Fresh, Active, Stored, table
  <2> QED BY <1>2, <2>1, <2>2
<1>5. ASSUME NEW l \in 1 .. MaxLimit, Ask(l) PROVE TableInv'
  <2>1. TypeOK'
    BY <1>5, AskRows, BoundAssumption DEF Ask, TypeOK, table, history
  <2>2. Drawn'
    BY <1>5, AskRows DEF Ask, Drawn, table, TypeOK
  <2>3. Distinct'
    BY <1>1, <1>5, AskRows DEF Ask, Distinct, Fresh, Active, Stored, table, TypeOK
  <2> QED BY <1>2, <2>1, <2>2, <2>3
<1>6. CASE Respond
  <2>1. TypeOK'
    BY <1>6, RespondItems DEF Respond, TypeOK, table, history
  <2>2. Drawn'
    BY <1>6, RespondItems, BoundAssumption DEF Drawn, table, TypeOK, Ids
  <2>3. Distinct'
    BY <1>1, <1>6, RespondItems DEF Distinct, Fresh, Active, Stored, table
  <2> QED BY <1>2, <2>1, <2>2, <2>3
<1> QED BY <1>3, <1>4, <1>5, <1>6

-----------------------------------------------------------------------------
(* The items *)

\* Drawing, writing and rolling back change nothing that a client can see.
LEMMA HiddenItems ==
  ASSUME ItemInv, UNCHANGED <<id, tags, links, client, steady, deleted>>
  PROVE  ItemInv'
BY DEF ItemInv, Together, Seen, SeenRow, PageRows, NoRepeats, ItemsWhole, Stored,
   client

LEMMA CommitItems ==
  ASSUME TableInv, ItemInv, NEW s \in Scans, Commit(s)
  PROVE  ItemInv'
<1> USE DEF TableInv, ItemInv
<1> DEFINE f == scan[s].file
<1>1. /\ f \in Files /\ scan[s].id # 0
      /\ id'[f] = scan[s].id
      /\ \A g \in Files \ {f} : id'[g] = id[g] /\ tags'[g] = tags[g] /\ links'[g] = links[g]
      /\ tags'[f] = tags[f] + 1 /\ links'[f] = tags[f] + 1 /\ tags[f] \in Nat
      /\ UNCHANGED <<nextId, client, history>>
  BY BoundAssumption DEF Commit, TypeOK, Writers, Active, Revs
<1>2. id[f] = scan[s].id \/ (id[f] = 0 /\ Fresh(s))
  BY DEF Commit, Writers, Fresh, Active
<1>3. \A r \in page \cup items :
        /\ r.id # 0 /\ r.tags \in Int /\ r.file \in Files
        /\ Fresh(s) => r.id # scan[s].id
  BY DEF TypeOK, Ids, Revs, Distinct
<1> HIDE DEF f
<1>4. Together'
  BY <1>1 DEF Together, Stored
<1>5. Seen'
  <2>1. ASSUME NEW r \in page \cup items PROVE SeenRow(r)'
    <3>1. SeenRow(r)
      BY DEF Seen
    <3>2. \A g \in Files : id'[g] = r.id => id[g] = r.id
      BY <1>1, <1>2, <1>3
    <3>3. id[r.file] = r.id => id'[r.file] = r.id
      BY <1>1, <1>2, <1>3
    <3>4. tags'[r.file] >= tags[r.file] /\ tags[r.file] \in Int
      BY <1>1, <1>3, BoundAssumption DEF TypeOK, Revs
    <3> QED BY <1>1, <1>3, <3>1, <3>2, <3>3, <3>4 DEF SeenRow, history
  <2> QED BY <1>1, <2>1 DEF Seen, client
<1>6. ItemsWhole'
  BY <1>1, <1>2, <1>3 DEF ItemsWhole, client
<1>7. PageRows' /\ NoRepeats'
  BY <1>1 DEF PageRows, NoRepeats, client, history
<1> QED BY <1>4, <1>5, <1>6, <1>7

LEMMA DeleteItems ==
  ASSUME TableInv, ItemInv, NEW s \in Scans, NEW S \in SUBSET Files, Delete(s, S)
  PROVE  ItemInv'
<1> USE DEF TableInv, ItemInv
<1>1. /\ \A f \in Files : id'[f] = IF f \in S THEN 0 ELSE id[f]
      /\ \A f \in Files : links'[f] = IF f \in S THEN 0 ELSE links[f]
      /\ deleted' = deleted \cup S
      /\ UNCHANGED <<nextId, tags, scan, client, overlap>>
  BY DEF Delete, Forget
<1>2. \A r \in page \cup items : r.id # 0 /\ r.file \in Files
  BY DEF TypeOK, Ids
<1>3. Together'
  BY <1>1 DEF Together, Stored
<1>4. Seen'
  BY <1>1, <1>2 DEF Seen, SeenRow, client
<1>5. PageRows' /\ NoRepeats' /\ ItemsWhole'
  BY <1>1, <1>2 DEF PageRows, NoRepeats, ItemsWhole, client
<1> QED BY <1>3, <1>4, <1>5

LEMMA AskItems ==
  ASSUME TableInv, ItemInv, NEW l \in 1 .. MaxLimit, Ask(l)
  PROVE  ItemInv'
<1> USE DEF TableInv, ItemInv
<1>1. UNCHANGED <<table, scan, items, history>> /\ pc' = "links" /\ cursor' = cursor
  BY DEF Ask
<1>2. \A r \in page' : r.file \in Files /\ SeenRow(r)
  <2>1. ASSUME NEW r \in page' PROVE r.file \in Files /\ SeenRow(r)
    <3>1. r.file \in Files /\ id[r.file] = r.id /\ Stored(r.file) /\ tags[r.file] = r.tags
          /\ r.tags \in Int
      BY AskRows DEF Revs
    <3> QED BY <3>1 DEF SeenRow, Distinct
  <2> QED BY <2>1
<1>3. Seen'
  BY <1>1, <1>2 DEF Seen, SeenRow, table, history
<1>4. \A r, q \in page' : r.file = q.file => r = q
  <2>1. PICK P \in SUBSET Above :
          page' = {[file |-> f, id |-> id[f], tags |-> tags[f]] : f \in P}
    BY AskRows
  <2> QED BY <2>1
<1>5. PageRows'
  BY <1>1, <1>4, AskRows DEF PageRows
<1>6. Together' /\ NoRepeats' /\ ItemsWhole'
  BY <1>1 DEF Together, NoRepeats, ItemsWhole, Stored, table, history
<1> QED BY <1>3, <1>5, <1>6

LEMMA RespondItemsInv ==
  ASSUME TableInv, ItemInv, Respond
  PROVE  ItemInv'
<1> USE DEF TableInv, ItemInv
<1>1. UNCHANGED <<table, scan, limit, history>> /\ page' = {} /\ items \subseteq items'
  BY RespondItems
<1>2. \A i \in items' \ items :
        \E r \in page : i = Item(r) /\ i.file = r.file /\ i.id = r.id /\ i.tags = r.tags
  BY RespondItems
<1>3. Seen'
  <2>1. \A i \in items' : SeenRow(i)
    BY <1>2 DEF Seen, SeenRow
  <2> QED BY <1>1, <2>1 DEF Seen, SeenRow, table, history
<1>4. ItemsWhole'
  <2>1. ASSUME NEW r \in page
        PROVE  Item(r).links >= r.tags
                 \/ (Item(r).links = 0 /\ \A f \in Files : id[f] # r.id)
    <3>1. r.file \in Files /\ r.id \in Ids /\ SeenRow(r)
      BY DEF TypeOK, Seen
    <3>2. CASE id[r.file] = r.id
      <4>1. Stored(r.file) /\ links[r.file] = tags[r.file] /\ r.tags <= tags[r.file]
        BY <3>1, <3>2 DEF Stored, Together, SeenRow, Ids
      <4>2. r.tags \in Int /\ tags[r.file] \in Int
        BY <3>1, BoundAssumption DEF TypeOK, Revs
      <4>3. links[r.file] >= r.tags
        BY <4>1, <4>2
      <4>4. Item(r).links = links[r.file]
        BY <3>2 DEF Item
      <4> QED BY <4>3, <4>4
    <3>3. CASE id[r.file] # r.id
      BY <3>1, <3>3 DEF Item, SeenRow
    <3> QED BY <3>2, <3>3
  <2>2. ASSUME NEW i \in items'
        PROVE  i.links >= i.tags \/ (i.links = 0 /\ \A f \in Files : id[f] # i.id)
    <3>1. CASE i \in items
      BY <3>1 DEF ItemsWhole
    <3>2. CASE i \notin items
      <4>1. PICK r \in page : i = Item(r) /\ i.id = r.id /\ i.tags = r.tags
        BY <1>2, <3>2
      <4>2. CASE Item(r).links >= r.tags
        BY <4>1, <4>2
      <4>3. CASE Item(r).links = 0 /\ \A f \in Files : id[f] # r.id
        BY <4>1, <4>3, Zenon
      <4> QED BY <2>1, <4>2, <4>3
    <3> QED BY <3>1, <3>2
  <2> QED BY <1>1, <2>2 DEF ItemsWhole, table
<1>5. NoRepeats'
  <2>1. ASSUME NEW i \in items', NEW j \in items', i.file = j.file, i # j,
               i.file \notin deleted
        PROVE  FALSE
    <3>1. \A k \in items : k.id <= cursor /\ SeenRow(k) /\ k.id \in Int
      BY DEF Drawn, Seen, TypeOK, Ids
    <3>2. \A r \in page : r.id > cursor /\ SeenRow(r) /\ r.id \in Int
      BY DEF PageRows, Seen, TypeOK, Ids
    <3>3. cursor \in Int
      BY DEF TypeOK
    <3>4. CASE i \in items /\ j \in items
      BY <2>1, <3>4 DEF NoRepeats
    <3>5. CASE i \notin items /\ j \notin items
      BY <1>2, <2>1, <3>5 DEF PageRows
    <3>6. CASE i \in items /\ j \notin items
      BY <1>2, <2>1, <3>1, <3>2, <3>3, <3>6 DEF SeenRow
    <3>7. CASE i \notin items /\ j \in items
      BY <1>2, <2>1, <3>1, <3>2, <3>3, <3>7 DEF SeenRow
    <3> QED BY <3>4, <3>5, <3>6, <3>7
  <2> QED BY <1>1, <2>1 DEF NoRepeats, history
<1>6. Together' /\ PageRows'
  BY <1>1 DEF Together, PageRows, Stored, table
<1> QED BY <1>3, <1>4, <1>5, <1>6

LEMMA BeginItems ==
  ASSUME TableInv, ItemInv, Begin \/ Resume \/ Fail
  PROVE  ItemInv'
BY DEF Begin, Resume, Fail, ItemInv, Together, Seen, SeenRow, PageRows, NoRepeats,
   ItemsWhole, Stored, table, history

-----------------------------------------------------------------------------
(* The list *)

\* A page leaves out rows above its own only, and none unless it is full.
LEMMA PageCut ==
  ASSUME TypeOK, NEW l \in 1 .. MaxLimit, Ask(l)
  PROVE  \A f \in Above :
           /\ (\E r \in page' : id[f] <= r.id) => \E r \in page' : r.id = id[f]
           /\ Cardinality(page') # l => \E r \in page' : r.id = id[f]
<1>1. PICK P \in SUBSET Above :
        /\ FirstOf(P, l)
        /\ page' = {[file |-> f, id |-> id[f], tags |-> tags[f]] : f \in P}
  BY AskRows
<1>2. \A f \in Above : f \in Files /\ id[f] \in Int
  BY DEF Above, TypeOK
<1>3. Cardinality(page') = Cardinality(P)
  <2> DEFINE row == [f \in P |-> [file |-> f, id |-> id[f], tags |-> tags[f]]]
  <2>1. row \in Bijection(P, page')
    BY <1>1 DEF Bijection, Injection, Surjection, IsInjective
  <2>2. ExistsBijection(P, page')
    BY <2>1 DEF ExistsBijection
  <2>3. IsFiniteSet(P)
    BY <1>2, FiniteAssumption, FS_Subset
  <2> QED BY <2>2, <2>3, FS_Bijection
<1>4. ASSUME NEW f \in P PROVE \E r \in page' : r.id = id[f]
  <2> DEFINE r == [file |-> f, id |-> id[f], tags |-> tags[f]]
  <2>1. r \in page' /\ r.id = id[f]
    BY <1>1
  <2> QED BY <2>1
<1>5. \A r \in page' : \E g \in P : r.id = id[g]
  BY <1>1
<1>6. ASSUME NEW f \in Above, NEW r \in page', id[f] <= r.id
      PROVE  f \in P
  BY <1>1, <1>2, <1>5, <1>6 DEF FirstOf
<1>7. Cardinality(page') # l => P = Above
  BY <1>1, <1>3 DEF FirstOf
<1> QED BY <1>4, <1>6, <1>7

LEMMA DrawList ==
  ASSUME TableInv, ListInv, NEW s \in Scans, NEW f \in Files, Draw(s, f)
  PROVE  ListInv'
<1> USE DEF TableInv, ListInv
<1>1. /\ scan'[s] = [pc |-> "insert", file |-> f, id |-> nextId]
      /\ \A q \in Scans \ {s} : scan'[q] = scan[q]
      /\ overlap' = (overlap \/ \E q \in Scans \ {s} : Active(q))
      /\ UNCHANGED <<id, tags, links, client, steady, deleted>>
  BY DEF Draw, TypeOK
<1>2. PageSteady' /\ SteadyListed' /\ NoneMissed'
  BY <1>1 DEF PageSteady, SteadyListed, NoneMissed, Paged, Listed, Stored, client
<1>3. ASSUME ~overlap' PROVE \A q \in Scans \ {s} : ~Active(q)'
  BY <1>1, <1>3 DEF Active
<1>4. InOrder'
  <2>1. \A q \in Scans, p \in Scans :
          ~overlap' /\ Active(q)' /\ Active(p)' => q = s /\ p = s
    BY <1>3
  <2>2. scan'[s].id = nextId /\ (\A g \in Files : id[g] < nextId) /\ cursor < nextId
        /\ \A r \in page : r.id < nextId
    BY <1>1 DEF Drawn
  <2>3. \A q \in Scans : Fresh(q)' => Active(q)'
    BY DEF Fresh
  <2>4. \A n : Paged(n)' <=> Paged(n)
    BY <1>1 DEF Paged, client
  <2> QED BY <1>1, <2>1, <2>2, <2>3, <2>4 DEF InOrder, Stored, client
<1> QED BY <1>2, <1>4

LEMMA WriteList ==
  ASSUME TableInv, ListInv, NEW s \in Scans, Write(s) \/ Rollback(s)
  PROVE  ListInv'
<1> USE DEF TableInv, ListInv
<1>1. /\ \A q \in Scans \ {s} : scan'[q] = scan[q]
      /\ UNCHANGED <<table, client, history>>
  BY DEF Write, Rollback, TypeOK
<1>2. PageSteady' /\ SteadyListed' /\ NoneMissed'
  BY <1>1 DEF PageSteady, SteadyListed, NoneMissed, Paged, Listed, Stored, table,
     client, history
<1>3. /\ \A q \in Scans : Active(q)' => Active(q)
      /\ \A q \in Scans : Fresh(q)' => Fresh(q) /\ scan'[q].id = scan[q].id
  <2>1. CASE Write(s)
    <3>1. scan'[s] = [pc |-> "commit", file |-> scan[s].file,
                      id |-> IF Stored(scan[s].file) THEN id[scan[s].file] ELSE scan[s].id]
          /\ scan[s].pc = "insert"
      BY <2>1 DEF Write, TypeOK, Transaction
    <3> QED BY <1>1, <3>1 DEF Active, Fresh, Writers, table
  <2>2. CASE Rollback(s)
    <3>1. scan'[s] = Resting
      BY <2>2 DEF Rollback, TypeOK
    <3> QED BY <1>1, <3>1 DEF Active, Fresh, Resting, table
  <2> QED BY <2>1, <2>2
<1>4. InOrder'
  BY <1>1, <1>3 DEF InOrder, Paged, Stored, table, client, history
<1> QED BY <1>2, <1>4

LEMMA CommitList ==
  ASSUME TableInv, ListInv, NEW s \in Scans, Commit(s)
  PROVE  ListInv'
<1> USE DEF TableInv, ListInv
<1> DEFINE f == scan[s].file
<1>1. /\ f \in Files /\ scan[s].id # 0 /\ Active(s)
      /\ id'[f] = scan[s].id
      /\ \A g \in Files \ {f} : id'[g] = id[g]
      /\ scan'[s] = Resting
      /\ \A q \in Scans \ {s} : scan'[q] = scan[q]
      /\ UNCHANGED <<nextId, client, history>>
  BY DEF Commit, TypeOK, Writers, Active
<1>2. id[f] = scan[s].id \/ (id[f] = 0 /\ Fresh(s))
  BY DEF Commit, Writers, Fresh, Active
<1>3. ASSUME ~overlap PROVE \A q \in Scans : ~Active(q)'
  BY <1>1, <1>3 DEF InOrder, Active, Resting
<1> HIDE DEF f
<1>4. PageSteady'
  <2>1. \A n \in steady : n # 0
    BY DEF TypeOK, Ids
  <2>2. ASSUME NEW n \in steady PROVE \E g \in Files : id'[g] = n
    <3>1. PICK g \in Files : id[g] = n
      BY <2>2 DEF PageSteady
    <3>2. id'[g] = n
      BY <1>1, <1>2, <2>1, <2>2, <3>1
    <3> QED BY <3>2
  <2> QED BY <1>1, <2>2 DEF PageSteady, Paged, client, history
<1>5. SteadyListed'
  BY <1>1 DEF SteadyListed, Listed, client, history
<1>6. ASSUME ~overlap, Fresh(s)
      PROVE  scan[s].id > cursor /\ \A r \in page : ~(scan[s].id <= r.id)
  <2>1. scan[s].id \in Int /\ cursor \in Int /\ \A r \in page : r.id \in Int
    BY DEF TypeOK, Transaction, Ids
  <2> QED BY <1>6, <2>1 DEF InOrder
<1>7. NoneMissed'
  <2>1. cursor \in Int /\ scan[s].id \in Int
    BY DEF TypeOK, Transaction
  <2>2. ASSUME ~overlap, NEW g \in Files, Stored(g)', id'[g] <= cursor
        PROVE  Listed(id'[g])
    <3>1. CASE id[g] = id'[g]
      BY <2>2, <3>1 DEF NoneMissed, Stored
    <3>2. CASE id[g] # id'[g]
      BY <1>1, <1>2, <1>6, <2>1, <2>2, <3>2
    <3> QED BY <3>1, <3>2
  <2> QED BY <1>1, <2>2 DEF NoneMissed, Listed, client, history
<1>8. InOrder'
  <2>1. ASSUME ~overlap, NEW g \in Files, Stored(g)', id'[g] > cursor,
               NEW r \in page, id'[g] <= r.id
        PROVE  Paged(id'[g])
    <3>1. CASE id[g] = id'[g]
      BY <2>1, <3>1 DEF InOrder, Stored
    <3>2. CASE id[g] # id'[g]
      BY <1>1, <1>2, <1>6, <2>1, <3>2
    <3> QED BY <3>1, <3>2
  <2>2. \A n : Paged(n)' <=> Paged(n)
    BY <1>1 DEF Paged, client
  <2> QED BY <1>1, <1>3, <2>1, <2>2 DEF InOrder, Fresh, Active, client, history
<1> QED BY <1>4, <1>5, <1>7, <1>8

LEMMA DeleteList ==
  ASSUME TableInv, ListInv, NEW s \in Scans, NEW S \in SUBSET Files, Delete(s, S)
  PROVE  ListInv'
<1> USE DEF TableInv, ListInv
<1>1. /\ \A f \in Files : id'[f] = IF f \in S THEN 0 ELSE id[f]
      /\ \A f \in S : Stored(f) /\ \A q \in Scans : ~Writes(q, f)
      /\ steady' = steady \ {id[f] : f \in S}
      /\ UNCHANGED <<nextId, tags, scan, client, overlap>>
  BY DEF Delete, Forget
<1>2. PageSteady'
  BY <1>1 DEF PageSteady, Paged, client
<1>3. SteadyListed'
  BY <1>1 DEF SteadyListed, Listed, client
<1>4. NoneMissed'
  BY <1>1 DEF NoneMissed, Listed, Stored, client
<1>5. InOrder'
  <2>1. \A q \in Scans : Fresh(q)' => Fresh(q) /\ scan'[q].id > 0
    BY <1>1 DEF Writers, Fresh, Active, Writes, TypeOK, Transaction
  <2>2. \A n : Paged(n)' <=> Paged(n)
    BY <1>1 DEF Paged, client
  <2> QED BY <1>1, <2>1, <2>2 DEF InOrder, Active, Stored, client
<1> QED BY <1>2, <1>3, <1>4, <1>5

LEMMA AskList ==
  ASSUME TableInv, ItemInv, ListInv, NEW l \in 1 .. MaxLimit, Ask(l)
  PROVE  ListInv'
<1> USE DEF TableInv, ListInv
<1>1. UNCHANGED <<table, scan, cursor, items, history>> /\ limit' = l /\ pc' = "links"
      /\ pc = "ask"
  BY DEF Ask
<1>2. PageSteady'
  <2>1. ASSUME NEW n \in steady, n > cursor
        PROVE  \E f \in Above : id[f] = n
    <3>1. PICK f \in Files : id[f] = n
      BY <2>1 DEF PageSteady
    <3>2. n # 0
      BY <2>1 DEF TypeOK, Ids
    <3> QED BY <2>1, <3>1, <3>2 DEF Above, Stored
  <2> QED BY <1>1, <2>1, PageCut DEF PageSteady, Paged, table, history
<1>3. SteadyListed' /\ NoneMissed'
  BY <1>1 DEF SteadyListed, NoneMissed, Listed, Stored, table, history
<1>4. InOrder'
  <2>1. \A f \in Files : Stored(f) /\ id[f] > cursor => f \in Above
    BY DEF Above
  <2>2. \A r \in page' : r.file \in Files /\ id[r.file] = r.id
    BY AskRows
  <2>3. \A s \in Scans : Fresh(s)' <=> Fresh(s)
    BY <1>1 DEF Fresh, Active, table
  <2> QED BY <1>1, <2>1, <2>2, <2>3, PageCut DEF InOrder, Active, Paged, Stored,
          table, history
<1> QED BY <1>2, <1>3, <1>4

LEMMA RespondList ==
  ASSUME TableInv, ItemInv, ListInv, Respond
  PROVE  ListInv'
<1> USE DEF TableInv, ItemInv, ListInv
<1>1. /\ pc = "links" /\ page' = {} /\ items \subseteq items'
      /\ pc' = IF Cardinality(page) = limit THEN "ask" ELSE "ended"
      /\ UNCHANGED <<table, scan, limit, history>>
  BY RespondItems DEF Respond
<1>2. \A n : Listed(n) \/ Paged(n) => Listed(n)'
  <2>1. \A r \in page : Item(r) \in items' /\ Item(r).id = r.id
    BY RespondItems DEF Item
  <2> QED BY <1>1, <2>1 DEF Listed, Paged
<1>3. /\ cursor \in Int /\ cursor' \in Int
      /\ cursor' = cursor \/ \E r \in page : cursor' = r.id
  BY RespondItems DEF Respond, TypeOK
<1>4. PageSteady'
  BY <1>1 DEF PageSteady, table, history
<1>5. SteadyListed'
  <2>1. ASSUME NEW n \in steady, n <= cursor' \/ pc' = "ended"
        PROVE  Listed(n)'
    <3>1. n \in Int
      BY <2>1 DEF TypeOK, Ids
    <3>2. CASE n <= cursor
      BY <1>2, <2>1, <3>2 DEF SteadyListed
    <3>3. CASE n > cursor
      BY <1>1, <1>2, <1>3, <2>1, <3>1, <3>3 DEF PageSteady
    <3> QED BY <1>3, <3>1, <3>2, <3>3
  <2> QED BY <1>1, <2>1 DEF SteadyListed, history
<1>6. NoneMissed'
  <2>1. ASSUME ~overlap, NEW f \in Files, Stored(f), id[f] <= cursor'
        PROVE  \E i \in items' : i.id = id[f]
    <3>1. id[f] \in Int
      BY <2>1 DEF TypeOK
    <3>2. Listed(id[f]) \/ Paged(id[f]) => \E i \in items' : i.id = id[f]
      BY <1>2 DEF Listed
    <3>3. CASE id[f] <= cursor
      BY <3>2, <2>1, <3>3 DEF NoneMissed
    <3>4. CASE id[f] > cursor
      BY <3>2, <1>3, <2>1, <3>1, <3>4 DEF InOrder, Paged
    <3> QED BY <1>3, <3>1, <3>3, <3>4
  <2> QED BY <1>1, <2>1 DEF NoneMissed, Listed, Stored, table, history
<1>7. InOrder'
  <2>1. \A s \in Scans : (Fresh(s)' <=> Fresh(s)) /\ (Active(s)' <=> Active(s))
    BY <1>1 DEF Fresh, Active, table
  <2> QED BY <1>1, <1>3, <2>1 DEF InOrder, table, history
<1> QED BY <1>4, <1>5, <1>6, <1>7

LEMMA BeginList ==
  ASSUME TableInv, ItemInv, ListInv, Begin \/ Resume \/ Fail
  PROVE  ListInv'
<1> USE DEF TableInv, ListInv
<1>1. UNCHANGED <<table, scan, overlap>> /\ page' = {} /\ pc' = "ask"
  BY DEF Begin, Resume, Fail, ItemInv, PageRows, history
<1>2. PageSteady'
  BY <1>1 DEF Begin, Resume, Fail, PageSteady, table, history
<1>3. CASE Begin
  <2>1. SteadyListed' /\ NoneMissed'
    <3>1. \A f \in Files : Stored(f) => ~(id[f] <= 0)
      BY DEF Stored, TypeOK
    <3> QED BY <1>1, <1>3, <3>1 DEF Begin, SteadyListed, NoneMissed, Stored, table
  <2>2. InOrder'
    <3>1. \A s \in Scans : Fresh(s) => 0 < scan[s].id
      BY DEF Fresh, Writers, TypeOK, Transaction
    <3> QED BY <1>1, <1>3, <3>1 DEF Begin, InOrder, Fresh, Active, Stored, table
  <2> QED BY <1>2, <2>1, <2>2
<1>4. CASE Resume \/ Fail
  <2>1. SteadyListed' /\ NoneMissed'
    BY <1>1, <1>4 DEF Resume, Fail, SteadyListed, NoneMissed, Listed, Stored, table,
       history
  <2>2. InOrder'
    BY <1>1, <1>4 DEF Resume, Fail, InOrder, Fresh, Active, Stored, table, history
  <2> QED BY <1>2, <2>1, <2>2
<1> QED BY <1>3, <1>4

-----------------------------------------------------------------------------
(* The theorems *)

LEMMA StepInv ==
  ASSUME PagesInv, [Next]_vars PROVE PagesInv'
<1> USE DEF PagesInv
<1>1. ASSUME NEW s \in Scans, NEW f \in Files, Draw(s, f) PROVE PagesInv'
  <2>1. UNCHANGED <<id, tags, links, client, steady, deleted>>
    BY <1>1 DEF Draw
  <2> QED BY <1>1, <2>1, DrawTable, HiddenItems, DrawList
<1>2. ASSUME NEW s \in Scans, Write(s) \/ Rollback(s) PROVE PagesInv'
  <2>1. UNCHANGED <<id, tags, links, client, steady, deleted>>
    BY <1>2 DEF Write, Rollback, table, history
  <2> QED BY <1>2, <2>1, WriteTable, RollbackTable, HiddenItems, WriteList
<1>3. ASSUME NEW s \in Scans, Commit(s) PROVE PagesInv'
  BY <1>3, CommitTable, CommitItems, CommitList
<1>4. ASSUME NEW s \in Scans, NEW S \in SUBSET Files, Delete(s, S) PROVE PagesInv'
  BY <1>4, DeleteTable, DeleteItems, DeleteList
<1>5. ASSUME NEW l \in 1 .. MaxLimit, Ask(l) PROVE PagesInv'
  BY <1>5, ClientTable, AskItems, AskList DEF ItemInv
<1>6. CASE Respond
  BY <1>6, ClientTable, RespondItemsInv, RespondList DEF ItemInv
<1>7. CASE Begin \/ Resume \/ Fail
  BY <1>7, ClientTable, BeginItems, BeginList DEF ItemInv
<1>8. CASE UNCHANGED vars
  <2>1. UNCHANGED <<table, scan, client, history>>
    BY <1>8 DEF vars
  <2>2. TableInv'
    BY <2>1 DEF TableInv, TypeOK, Writers, Drawn, Distinct, Fresh, Active, Writes,
       Stored, table, client, history
  <2>3. ItemInv'
    BY <2>1, HiddenItems DEF table, history
  <2>4. ListInv'
    BY <2>1 DEF ListInv, PageSteady, SteadyListed, InOrder, NoneMissed, Paged, Listed,
       Fresh, Active, Stored, table, client, history
  <2> QED BY <2>2, <2>3, <2>4
<1>9. QED
  BY <1>1, <1>2, <1>3, <1>4, <1>5, <1>6, <1>7, <1>8 DEF Next, Scanning, Paging

LEMMA PagesInvariant == Spec => []PagesInv
<1>1. Init => PagesInv
  BY InitInv
<1>2. PagesInv /\ [Next]_vars => PagesInv'
  BY StepInv
<1> QED BY <1>1, <1>2, PTL DEF Spec

\* Every variable keeps its type: no id, cursor or page leaves its range.
THEOREM PagesTypes == Spec => []TypeOK
<1>1. PagesInv => TypeOK
  BY DEF PagesInv, TableInv
<1> QED BY <1>1, PagesInvariant, PTL

\* Keyset pagination has no gaps: what was in the table throughout is listed.
THEOREM PagesSteady == Spec => []SteadyListed
<1>1. PagesInv => SteadyListed
  BY DEF PagesInv, ListInv
<1> QED BY <1>1, PagesInvariant, PTL

\* And no repeats: a path comes twice only if its row was deleted in between, and
\* the id of an item is never that of another path.
THEOREM PagesOnce == Spec => []ListedOnce
<1>1. PagesInv => ListedOnce
  BY DEF PagesInv, ItemInv, NoRepeats, Seen, SeenRow, ListedOnce
<1> QED BY <1>1, PagesInvariant, PTL

\* While no two scans insert at once, a client that goes on from its last item
\* (app/repository/music.py:46) misses nothing that appears later.
THEOREM PagesNoneMissed == Spec => []NoneMissed
<1>1. PagesInv => NoneMissed
  BY DEF PagesInv, ListInv
<1> QED BY <1>1, PagesInvariant, PTL

\* The artists of an item are never older than its title, and missing only if
\* the track is gone (selectinload, app/repository/music.py:36).
THEOREM PagesWhole == Spec => []ItemsWhole
<1>1. PagesInv => ItemsWhole
  BY DEF PagesInv, ItemInv
<1> QED BY <1>1, PagesInvariant, PTL

-----------------------------------------------------------------------------
(* Ids, and the library that the pages read *)

\* An id that a path has had is no other path's from then on, in the table or
\* in a transaction: whoever keeps it (track_id in app/model/playback.py:11 has
\* no foreign key) finds the same file behind it, or nothing.
THEOREM IdsForGood ==
  ASSUME NEW n \in Ids, NEW f \in Files
  PROVE  Spec => [](id[f] = n => [](\A g \in Files : id[g] = n => g = f))
<1> DEFINE Had == id[f] = n
           Only == \A g \in Files : id[g] = n => g = f
           Kept == /\ n < nextId /\ Only
                   /\ \A s \in Scans : Active(s) /\ scan[s].id = n => scan[s].file = f
<1>1. n # 0 /\ n \in Int
  BY DEF Ids
<1>2. PagesInv /\ Had => Kept
  <2> SUFFICES ASSUME PagesInv, Had PROVE Kept
    OBVIOUS
  <2> USE DEF PagesInv, TableInv
  <2>1. n < nextId /\ Only
    BY <1>1 DEF Drawn, Distinct, Stored
  <2>2. ASSUME NEW s \in Scans, Active(s), scan[s].id = n PROVE scan[s].file = f
    BY <1>1, <2>2 DEF Writers, Distinct, Fresh, Stored
  <2> QED BY <2>1, <2>2
<1>3. PagesInv /\ Kept /\ [Next]_vars => Kept'
  <2> SUFFICES ASSUME PagesInv, Kept, [Next]_vars PROVE Kept'
    OBVIOUS
  <2>1. /\ nextId \in Int /\ id \in [Files -> 0 .. MaxId] /\ scan \in [Scans -> Transaction]
        /\ \A s \in Scans : Active(s) => scan[s].file \in Files
    BY BoundAssumption DEF PagesInv, TableInv, TypeOK, Writers
  <2>2. ASSUME NEW s \in Scans, NEW g \in Files, Draw(s, g) PROVE Kept'
    <3>1. scan' = [scan EXCEPT ![s] = [pc |-> "insert", file |-> g, id |-> nextId]]
          /\ nextId' = nextId + 1 /\ id' = id
      BY <2>2 DEF Draw
    <3> QED BY <1>1, <2>1, <3>1 DEF Active
  <2>3. ASSUME NEW s \in Scans, Write(s) PROVE Kept'
    <3>1. /\ UNCHANGED <<nextId, id>> /\ Active(s) /\ scan'[s].file = scan[s].file
          /\ scan'[s].id = IF Stored(scan[s].file) THEN id[scan[s].file] ELSE scan[s].id
          /\ \A q \in Scans \ {s} : scan'[q] = scan[q]
      BY <2>1, <2>3 DEF Write, table, Transaction, Active
    <3> QED BY <2>1, <3>1 DEF Active
  <2>4. ASSUME NEW s \in Scans, Commit(s) PROVE Kept'
    <3>1. /\ nextId' = nextId /\ Active(s) /\ id' = [id EXCEPT ![scan[s].file] = scan[s].id]
          /\ scan' = [scan EXCEPT ![s] = Resting]
      BY <2>4 DEF Commit, Active
    <3> QED BY <1>1, <2>1, <3>1 DEF Active, Resting
  <2>5. ASSUME NEW s \in Scans, Rollback(s) PROVE Kept'
    <3>1. UNCHANGED <<nextId, id>> /\ scan' = [scan EXCEPT ![s] = Resting]
      BY <2>5 DEF Rollback, table
    <3> QED BY <2>1, <3>1 DEF Active, Resting
  <2>6. ASSUME NEW s \in Scans, NEW S \in SUBSET Files, Delete(s, S) PROVE Kept'
    <3>1. UNCHANGED <<nextId, scan>> /\ id' = [g \in Files |-> IF g \in S THEN 0 ELSE id[g]]
      BY <2>6 DEF Delete, Forget
    <3> QED BY <1>1, <2>1, <3>1 DEF Active
  <2>7. CASE Paging \/ Begin \/ Resume \/ Fail \/ UNCHANGED vars
    <3>1. UNCHANGED <<nextId, id, scan>>
      BY <2>7 DEF Paging, Ask, Respond, Begin, Resume, Fail, vars, table
    <3> QED BY <3>1 DEF Active
  <2> QED BY <2>2, <2>3, <2>4, <2>5, <2>6, <2>7 DEF Next, Scanning
<1>4. Kept => Only
  OBVIOUS
<1> HIDE DEF Had, Only, Kept
<1>5. Spec => [](Had => []Only)
  BY <1>2, <1>3, <1>4, PagesInvariant, PTL DEF Spec
<1> QED BY <1>5 DEF Had, Only

\* ListsLibrary for any scans and paths: between any two commits, every row has
\* the artists of its own revision, and other rows are as they were.
THEOREM PagesLibrary == Spec => ListsLibrary
<1>1. Init => Shelf!Init
  BY DEF Init, Shelf!Init, Copies, Whole, Stored
<1>2. ASSUME PagesInv, PagesInv', [Next]_vars
      PROVE  Shelf!Next \/ UNCHANGED <<Copies, Whole>>
  <2>1. /\ Whole = {f \in Files : id[f] # 0} /\ Whole' = {f \in Files : id'[f] # 0}
        /\ id \in [Files -> 0 .. MaxId] /\ tags \in [Files -> Revs]
    BY <1>2 DEF PagesInv, ItemInv, Together, Whole, Stored, TableInv, TypeOK
  <2>2. ASSUME UNCHANGED <<id, tags>> PROVE UNCHANGED <<Copies, Whole>>
    BY <2>1, <2>2 DEF Copies, Stored
  <2>3. ASSUME NEW s \in Scans, Commit(s) PROVE Shelf!Next
    <3> DEFINE f == scan[s].file
    <3>1. f \in Files /\ scan[s].id # 0
      BY <1>2, <2>3 DEF PagesInv, TableInv, Writers, Commit, Active
    <3>2. /\ id' = [id EXCEPT ![f] = scan[s].id] /\ tags' = [tags EXCEPT ![f] = tags[f] + 1]
      BY <2>3 DEF Commit
    <3> HIDE DEF f
    <3>3. /\ Copies' = [Copies EXCEPT ![f] = <<scan[s].id, tags[f] + 1>>]
          /\ Copies'[f] = <<scan[s].id, tags[f] + 1>>
      BY <2>1, <3>1, <3>2 DEF Copies, Stored
    <3>4. <<scan[s].id, tags[f] + 1>> # <<0, 0>>
      BY <3>1
    <3>5. Whole' = Whole \cup {f}
      BY <2>1, <3>1, <3>2
    <3>6. Shelf!Put(f)
      BY <3>3, <3>4, <3>5 DEF Shelf!Put
    <3> QED BY <3>1, <3>6 DEF Shelf!Next
  <2>4. ASSUME NEW s \in Scans, NEW S \in SUBSET Files, Delete(s, S) PROVE Shelf!Next
    <3>1. /\ \A f \in S : Stored(f)
          /\ id' = [f \in Files |-> IF f \in S THEN 0 ELSE id[f]] /\ tags' = tags
      BY <2>4 DEF Delete, Forget
    <3>2. \A f \in S : Copies[f] # <<0, 0>>
      BY <3>1 DEF Copies, Stored
    <3>3. S \subseteq Shelf!Kept
      BY <3>2 DEF Shelf!Kept
    <3>4. \A f \in Files : Copies'[f] = IF f \in S THEN <<0, 0>> ELSE Copies[f]
      BY <3>1 DEF Copies, Stored
    <3>5. Copies' = [f \in Files |-> IF f \in S THEN <<0, 0>> ELSE Copies[f]]
      BY <3>4 DEF Copies
    <3>6. Whole' = Whole \ S
      BY <2>1, <3>1
    <3>7. Shelf!Remove(S)
      BY <3>3, <3>5, <3>6 DEF Shelf!Remove
    <3> QED BY <3>7 DEF Shelf!Next
  <2>5. ASSUME NEW s \in Scans, Write(s) \/ Rollback(s) \/ \E f \in Files : Draw(s, f)
        PROVE  UNCHANGED <<id, tags>>
    BY <2>5 DEF Write, Rollback, Draw, table
  <2>6. CASE Paging \/ Begin \/ Resume \/ Fail \/ UNCHANGED vars
    <3>1. UNCHANGED <<id, tags>>
      BY <2>6 DEF Paging, Ask, Respond, Begin, Resume, Fail, vars, table
    <3> QED BY <2>2, <3>1
  <2> QED BY <1>2, <2>2, <2>3, <2>4, <2>5, <2>6 DEF Next, Scanning
<1>3. PagesInv /\ PagesInv' /\ [Next]_vars => [Shelf!Next]_(Shelf!vars)
  BY <1>2 DEF Shelf!vars
<1> QED BY <1>1, <1>3, PagesInvariant, PTL DEF Spec, ListsLibrary, Shelf!Spec

-----------------------------------------------------------------------------
(* The way of the client *)

\* The cursor never goes back within a walk, and a client that an answer sends to
\* ask once more has got past the last one: get_tracks never returns the cursor
\* it was given, whatever page sizes are asked for and whatever scans do.
WalkAdvances ==
  [][/\ pc \in {"ask", "links"} => cursor' >= cursor
     /\ Respond /\ pc' = "ask" => cursor' > cursor]_vars

\* What is left of the claim that a walk ends, ids being finite in number, is that
\* some of its requests succeed: the fairness of FairSpec.
THEOREM PagesAdvance == Spec => WalkAdvances
<1> DEFINE Asked == pc = "links" => limit # 0
<1>1. Init => Asked
  BY DEF Init
<1>2. ASSUME Asked, [Next]_vars PROVE Asked'
  <2>1. ASSUME NEW l \in 1 .. MaxLimit, Ask(l) PROVE Asked'
    BY <2>1, BoundAssumption DEF Ask
  <2>2. CASE Respond \/ Begin \/ Resume \/ Fail
    BY <2>2 DEF Respond, Begin, Resume, Fail
  <2>3. CASE Scanning
    <3>1. pc' = pc /\ limit' = limit
      BY <2>3 DEF Scanning, Draw, Write, Commit, Rollback, Delete, Forget, client
    <3> QED BY <1>2, <3>1
  <2>4. CASE UNCHANGED vars
    BY <1>2, <2>4 DEF vars, client
  <2> QED BY <1>2, <2>1, <2>2, <2>3, <2>4 DEF Next, Paging
<1>3. ASSUME PagesInv, Asked, Respond PROVE cursor' >= cursor /\ (pc' = "ask" => cursor' > cursor)
  <2>1. /\ cursor \in Nat /\ \A r \in page : r.id \in Nat /\ r.id > cursor
    BY <1>3 DEF PagesInv, TableInv, TypeOK, ItemInv, PageRows, Ids
  <2>2. page = {} => pc' = "ended"
    <3>1. page = {} => Cardinality(page) = 0
      BY FS_EmptySet
    <3> QED BY <1>3, <3>1 DEF Respond
  <2> QED BY <1>3, <2>1, <2>2 DEF Respond
<1>4. ASSUME PagesInv, Asked, [Next]_vars, pc \in {"ask", "links"} PROVE cursor' >= cursor
  <2>1. CASE Respond
    BY <1>3, <1>4, <2>1
  <2>2. CASE ~Respond
    <3>1. cursor' = cursor
      BY <1>4, <2>2 DEF Next, Scanning, Paging, Draw, Write, Commit, Rollback, Delete, Forget,
        Ask, Begin, Resume, Fail, vars, client
    <3> QED BY <1>4, <3>1 DEF PagesInv, TableInv, TypeOK
  <2> QED BY <2>1, <2>2
<1>5. PagesInv /\ Asked /\ [Next]_vars =>
        [/\ pc \in {"ask", "links"} => cursor' >= cursor
         /\ Respond /\ pc' = "ask" => cursor' > cursor]_vars
  BY <1>3, <1>4
<1> HIDE DEF Asked
<1> QED BY <1>1, <1>2, <1>5, PagesInvariant, PTL DEF Spec, WalkAdvances

=============================================================================
