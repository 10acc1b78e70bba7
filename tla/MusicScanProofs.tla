--------------------------- MODULE MusicScanProofs ---------------------------
(* Proofs about MusicScan, for any workers, files, artists and albums. *)
EXTENDS MusicScan, FiniteSetTheorems, SequenceTheorems, TLAPS

\* The labels of a scan that has a file in hand, and of those the ones behind
\* the lookup of the file's names.
FileSteps == {"stat", "artist", "addartist", "album", "addalbum", "upsert", "relink", "commit"}
NamedSteps == {"album", "addalbum", "upsert", "relink", "commit"}
StaleSteps == {"issue", "unlink", "delete"}

\* What holds of a scan at each of its awaits, whatever the others do.
ScanOK(s) ==
  /\ s.todo \subseteq s.listed
  /\ s.file # None => s.file \in s.listed /\ s.content # 0
  /\ s.pc \in FileSteps <=> s.file # None
  /\ s.pc \notin FileSteps \ {"stat"} => s.at = 1 /\ s.names = {} /\ ~s.album
  /\ s.pc \in {"artist", "addartist"} => s.at \in DOMAIN NamesOf[s.file]
  /\ s.pc \in StaleSteps => s.stale \cap s.listed = {} /\ s.todo = {}

ScanInv == TypeOK /\ \A w \in Workers : ScanOK(scan[w])

\* A status that is not RUNNING means that there is nothing of a scan.
StatusInv ==
  \A w \in Workers :
    /\ status[w] # "running" => tasks[w] = <<>> /\ ~Active(w)
    /\ Active(w) => tasks[w] = <<>>
    /\ Len(tasks[w]) <= 1

\* What a transaction has found or inserted so far.
NamesFound(s) ==
  /\ s.pc \in {"artist", "addartist"} =>
       \A i \in 1 .. (s.at - 1) : NamesOf[s.file][i] \in artists \cup s.names
  /\ s.pc \in NamedSteps =>
       \A i \in DOMAIN NamesOf[s.file] : NamesOf[s.file][i] \in artists \cup s.names
AlbumFound(s) ==
  /\ s.pc = "addalbum" => AlbumOf[s.file] # None
  /\ s.pc \in {"upsert", "relink", "commit"} /\ AlbumOf[s.file] # None =>
       s.album \/ albums[AlbumOf[s.file]] > 0
FoundInv == TracksComplete /\ \A w \in Workers : NamesFound(scan[w]) /\ AlbumFound(scan[w])

\* While no two scans have run at once there is one transaction, and the album
\* it inserts is not there.
AloneInv ==
  ~overlap =>
    /\ \A w, q \in Workers : Active(w) /\ Active(q) => w = q
    /\ \A w \in Workers :
         /\ scan[w].pc = "addalbum" => albums[AlbumOf[scan[w].file]] = 0
         /\ scan[w].album => /\ scan[w].pc \in {"upsert", "relink", "commit"}
                             /\ AlbumOf[scan[w].file] # None
                             /\ albums[AlbumOf[scan[w].file]] = 0
    /\ \A a \in Albums : albums[a] <= 1

-----------------------------------------------------------------------------
(* The type invariant *)

\* A share of a total, in per cent.
LEMMA PercentInRange ==
  ASSUME NEW n \in Nat, NEW t \in Nat, t > 0, n <= t
  PROVE  (n * 100) \div t \in 0 .. 100
<1> DEFINE q == (n * 100) \div t
<1>1. q \in Int /\ n * 100 = t * q + ((n * 100) % t) /\ (n * 100) % t \in 0 .. (t - 1)
  BY SMT
<1>2. t * q <= 100 * t
  BY <1>1, SMT
<1> QED BY <1>1, <1>2, SMT

\* The percentage of a scan that has listed something.
LEMMA PercentOfFiles ==
  ASSUME NEW L \in SUBSET Files, NEW T \in SUBSET L, L # {}
  PROVE  ((Cardinality(L) - Cardinality(T)) * 100) \div Cardinality(L) \in 0 .. 100
<1>1. IsFiniteSet(L)
  BY FiniteAssumption, FS_Subset
<1>2. IsFiniteSet(T) /\ Cardinality(T) <= Cardinality(L)
  BY <1>1, FS_Subset
<1>3. Cardinality(L) \in Nat /\ Cardinality(T) \in Nat /\ Cardinality(L) # 0
  BY <1>1, <1>2, FS_CardinalityType, FS_EmptySet
<1> DEFINE n == Cardinality(L) - Cardinality(T)
           t == Cardinality(L)
<1>4. n \in Nat /\ t \in Nat /\ t > 0 /\ n <= t
  BY <1>2, <1>3
<1> HIDE DEF n, t
<1>5. (n * 100) \div t \in 0 .. 100
  BY <1>4, PercentInRange
<1> QED BY <1>5 DEF n, t

LEMMA PercentType ==
  ASSUME ScanInv, NEW w \in Workers, scan[w].file # None
  PROVE  Percent(w) \in 0 .. 100
<1>1. scan[w].listed \in SUBSET Files /\ scan[w].todo \in SUBSET scan[w].listed
  BY DEF ScanInv, TypeOK, ScanInfo, ScanOK
<1>2. scan[w].listed # {}
  BY DEF ScanInv, ScanOK
<1> QED BY <1>1, <1>2, PercentOfFiles DEF Percent

\* A scan that is sound: of its type, and as its label says.
Sound(s) == s \in ScanInfo /\ ScanOK(s)

LEMMA RestingSound == Sound(Resting)
BY NoneAssumption, TimeAssumption DEF Sound, Resting, ScanInfo, ScanOK, Labels, Times, FileSteps, StaleSteps

LEMMA NextFileSound ==
  ASSUME NEW s, Sound(s) PROVE Sound(NextFile(s))
<1>1. s \in ScanInfo /\ s.todo \subseteq s.listed
  BY DEF Sound, ScanOK
<1>2. NextFile(s) \in ScanInfo
  <2> DEFINE a == [s EXCEPT !.pc = "next", !.file = None, !.content = 0, !.mtime = 0]
             b == [a EXCEPT !.at = 1, !.names = {}, !.album = FALSE]
  <2>1. NextFile(s) = b
    BY DEF NextFile
  <2>2. a \in ScanInfo
    <3>1. 0 \in Times
      BY TimeAssumption DEF Times
    <3> QED BY <1>1, <3>1 DEF ScanInfo, Labels
  <2> HIDE DEF a
  <2>3. b \in ScanInfo
    BY <2>2 DEF ScanInfo
  <2> QED BY <2>1, <2>3
<1>3. ScanOK(NextFile(s))
  BY <1>1 DEF NextFile, ScanInfo, ScanOK, FileSteps, StaleSteps
<1> QED BY <1>2, <1>3 DEF Sound

\* Steps that change one scan and leave the other variables' types alone.
LEMMA OneSound ==
  ASSUME ScanInv, NEW w \in Workers, NEW s, Sound(s), scan' = [scan EXCEPT ![w] = s]
  PROVE  scan' \in [Workers -> ScanInfo] /\ \A q \in Workers : ScanOK(scan[q])'
<1>1. \A q \in Workers : scan'[q] = IF q = w THEN s ELSE scan[q]
  BY DEF ScanInv, TypeOK
<1> QED BY <1>1 DEF ScanInv, TypeOK, Sound, ScanOK

\* The helpers that the actions end with.
LEMMA MoveStep ==
  ASSUME ScanInv, NEW w \in Workers, NEW s, Sound(s), scan' = [scan EXCEPT ![w] = s], KeepData
  PROVE  ScanInv'
<1>1. scan' \in [Workers -> ScanInfo] /\ \A q \in Workers : ScanOK(scan[q])'
  BY OneSound
<1> QED BY <1>1 DEF ScanInv, TypeOK, KeepData, Keep, database, scanStates, history

LEMMA RaiseInTryStep ==
  ASSUME ScanInv, NEW w \in Workers, scan[w].file # None, RaiseInTry(w)
  PROVE  ScanInv'
<1>1. scan' \in [Workers -> ScanInfo] /\ \A q \in Workers : ScanOK(scan[q])'
  BY OneSound, RestingSound DEF RaiseInTry, Raise
<1>2. percentage' \in [Workers -> 0 .. 100]
  BY PercentType DEF RaiseInTry, ScanInv, TypeOK
<1> QED BY <1>1, <1>2 DEF ScanInv, TypeOK, RaiseInTry, Keep, database, history

LEMMA SkipFileStep ==
  ASSUME ScanInv, NEW w \in Workers, scan[w].file # None, SkipFile(w)
  PROVE  ScanInv'
<1>1. Sound(NextFile(scan[w]))
  BY NextFileSound DEF ScanInv, TypeOK, Sound
<1>2. scan' = [scan EXCEPT ![w] = NextFile(scan[w])]
  BY DEF SkipFile
<1>3. scan' \in [Workers -> ScanInfo] /\ \A q \in Workers : ScanOK(scan[q])'
  BY <1>1, <1>2, OneSound
<1>4. percentage' \in [Workers -> 0 .. 100]
  BY PercentType DEF SkipFile, ScanInv, TypeOK
<1> QED BY <1>3, <1>4 DEF ScanInv, TypeOK, SkipFile, Keep, database, history

LEMMA GoUpsertStep ==
  ASSUME ScanInv, NEW w \in Workers, NEW s, Sound(s), s.file # None, s.file = scan[w].file,
         s.pc \in NamedSteps, GoUpsert(w, s)
  PROVE  ScanInv'
<1>1. CASE RaiseInTry(w)
  BY <1>1, RaiseInTryStep
<1>2. CASE scan' = [scan EXCEPT ![w] = [s EXCEPT !.pc = "upsert"]] /\ KeepData
  <2>1. Sound([s EXCEPT !.pc = "upsert"])
    BY DEF Sound, ScanInfo, ScanOK, Labels, FileSteps, StaleSteps, NamedSteps
  <2> QED BY <1>2, <2>1, MoveStep
<1> QED BY <1>1, <1>2 DEF GoUpsert

LEMMA AfterNameStep ==
  ASSUME ScanInv, NEW w \in Workers, NEW s, Sound(s), s.pc \in {"artist", "addartist"},
         AfterName(w, s)
  PROVE  ScanInv'
<1> DEFINE t == IF s.at < Len(NamesOf[s.file]) THEN [s EXCEPT !.pc = "artist", !.at = @ + 1]
                                               ELSE [s EXCEPT !.pc = "album"]
<1>1. s.file \in Files /\ s.at \in 1 .. Len(NamesOf[s.file]) /\ Len(NamesOf[s.file]) \in Nat
  BY TagAssumption DEF Sound, ScanInfo, ScanOK, FileSteps
<1>2. DOMAIN NamesOf[s.file] = 1 .. Len(NamesOf[s.file])
  BY <1>1, TagAssumption
<1>3. Sound(t)
  <2>1. CASE s.at < Len(NamesOf[s.file])
    <3>1. s.at + 1 \in DOMAIN NamesOf[s.file] /\ s.at + 1 \in Nat
      BY <1>1, <1>2, <2>1
    <3> QED BY <2>1, <3>1 DEF Sound, ScanInfo, ScanOK, Labels, FileSteps, StaleSteps
  <2>2. CASE ~(s.at < Len(NamesOf[s.file]))
    BY <2>2 DEF Sound, ScanInfo, ScanOK, Labels, FileSteps, StaleSteps
  <2> QED BY <2>1, <2>2
<1>4. scan' = [scan EXCEPT ![w] = t] /\ KeepData
  BY DEF AfterName
<1> QED BY <1>3, <1>4, MoveStep

LEMMA GotoStep ==
  ASSUME ScanInv, NEW w \in Workers, NEW l \in Labels, Goto(w, l), KeepData,
         ScanOK([scan[w] EXCEPT !.pc = l])
  PROVE  ScanInv'
<1>1. scan[w] \in ScanInfo
  BY DEF ScanInv, TypeOK
<1>2. Sound([scan[w] EXCEPT !.pc = l])
  BY <1>1 DEF Sound, ScanInfo
<1>3. scan' = [scan EXCEPT ![w] = [scan[w] EXCEPT !.pc = l]]
  BY DEF Goto
<1> QED BY <1>2, <1>3, MoveStep

LEMMA InitScan == Init => ScanInv
<1> SUFFICES ASSUME Init PROVE ScanInv
  OBVIOUS
<1>1. Resting \in ScanInfo /\ ScanOK(Resting)
  BY RestingSound DEF Sound
<1>2. NoRow \in Row
  BY TimeAssumption DEF NoRow, Row, Times
<1>3. inserted \in [Workers -> Nat] /\ albums \in [Albums -> Nat]
  BY DEF Init
<1>4. percentage \in [Workers -> 0 .. 100] /\ tasks \in [Workers -> Seq(BOOLEAN)]
  BY DEF Init
<1>5. /\ disk \in [Files -> Times] /\ track \in [Files -> Row] /\ artists \in SUBSET Artists
      /\ status \in [Workers -> {"idle", "running", "done"}] /\ scan \in [Workers -> ScanInfo]
      /\ disturbed \in [Workers -> BOOLEAN] /\ overlap \in BOOLEAN
  BY <1>1, <1>2 DEF Init
<1>6. \A w \in Workers : ScanOK(scan[w])
  BY <1>1 DEF Init
<1> QED BY <1>3, <1>4, <1>5, <1>6 DEF ScanInv, TypeOK

LEMMA AcceptScan ==
  ASSUME ScanInv, NEW w \in Workers, NEW full \in BOOLEAN, Accept(w, full)
  PROVE  ScanInv'
<1>1. tasks' \in [Workers -> Seq(BOOLEAN)]
  BY DEF ScanInv, TypeOK, Accept
<1>2. UNCHANGED <<disk, track, artists, albums, percentage, scan, disturbed, overlap>>
  BY DEF Accept, database, history
<1>3. status' \in [Workers -> {"idle", "running", "done"}] /\ inserted' \in [Workers -> Nat]
  BY DEF ScanInv, TypeOK, Accept
<1> QED BY <1>1, <1>2, <1>3 DEF ScanInv, TypeOK

LEMMA BeginScan ==
  ASSUME ScanInv, NEW w \in Workers, Begin(w)
  PROVE  ScanInv'
<1> DEFINE present == {f \in Files : disk[f] # 0}
           s == [Resting EXCEPT !.pc = IF Head(tasks[w]) THEN "next" ELSE "known",
                                !.full = Head(tasks[w]), !.listed = present, !.todo = present]
<1>1. tasks[w] \in Seq(BOOLEAN) /\ tasks[w] # <<>>
  BY DEF ScanInv, TypeOK, Begin
<1>2. Head(tasks[w]) \in BOOLEAN /\ Tail(tasks[w]) \in Seq(BOOLEAN)
  BY <1>1, HeadTailProperties
<1>3. Sound(s)
  <2>1. Resting \in ScanInfo
    BY RestingSound DEF Sound
  <2>2. s \in ScanInfo
    BY <2>1, <1>2 DEF ScanInfo, Labels
  <2>3. ScanOK(s)
    BY <1>2 DEF ScanOK, Resting, FileSteps, StaleSteps
  <2> QED BY <2>2, <2>3 DEF Sound
<1>4. scan' = [scan EXCEPT ![w] = s]
  BY DEF Begin
<1>5. scan' \in [Workers -> ScanInfo] /\ \A q \in Workers : ScanOK(scan[q])'
  BY <1>3, <1>4, OneSound
<1>6. tasks' \in [Workers -> Seq(BOOLEAN)]
  BY <1>2 DEF ScanInv, TypeOK, Begin
<1>7. /\ status' \in [Workers -> {"idle", "running", "done"}]
      /\ inserted' \in [Workers -> Nat]
      /\ percentage' \in [Workers -> 0 .. 100]
  <2>1. status' \in [Workers -> {"idle", "running", "done"}]
    BY DEF ScanInv, TypeOK, Begin
  <2>2. inserted' \in [Workers -> Nat]
    BY DEF ScanInv, TypeOK, Begin
  <2>3. percentage' \in [Workers -> 0 .. 100]
    <3>1. 0 \in 0 .. 100
      OBVIOUS
    <3> QED BY <3>1, Zenon DEF ScanInv, TypeOK, Begin
  <2> QED BY <2>1, <2>2, <2>3
<1>8. disturbed' \in [Workers -> BOOLEAN] /\ overlap' \in BOOLEAN
  BY DEF ScanInv, TypeOK, Begin
<1>9. UNCHANGED <<disk, track, artists, albums>>
  BY DEF Begin, database
<1> QED BY <1>5, <1>6, <1>7, <1>8, <1>9 DEF ScanInv, TypeOK

LEMMA ReadKnownScan ==
  ASSUME ScanInv, NEW w \in Workers, ReadKnown(w)
  PROVE  ScanInv'
<1> DEFINE s == [scan[w] EXCEPT !.pc = "next", !.known = [f \in Files |-> track[f].mtime]]
<1>1. scan[w] \in ScanInfo /\ [f \in Files |-> track[f].mtime] \in [Files -> Times]
  BY DEF ScanInv, TypeOK, Row
<1>2. s \in ScanInfo
  BY <1>1 DEF ScanInfo, Labels
<1>3. ScanOK(s)
  BY <1>1 DEF ScanInv, ReadKnown, ScanOK, ScanInfo, FileSteps, StaleSteps
<1>4. scan' = [scan EXCEPT ![w] = s] /\ KeepData
  BY DEF ReadKnown
<1> QED BY <1>2, <1>3, <1>4, MoveStep DEF Sound

LEMMA TakeFileScan ==
  ASSUME ScanInv, NEW w \in Workers, NEW f \in Files, TakeFile(w, f)
  PROVE  ScanInv'
<1> DEFINE s == [scan[w] EXCEPT !.todo = @ \ {f}]
           percent == ((Cardinality(s.listed) - Cardinality(s.todo)) * 100)
                        \div Cardinality(s.listed)
           t == [s EXCEPT !.pc = "stat", !.file = f, !.content = disk[f]]
<1>1. scan[w] \in ScanInfo /\ ScanOK(scan[w]) /\ f \in scan[w].todo /\ scan[w].pc = "next"
  BY DEF ScanInv, TypeOK, TakeFile
<1>2. s.listed \in SUBSET Files /\ s.todo \in SUBSET s.listed /\ s.listed # {}
  BY <1>1 DEF ScanInfo, ScanOK
<1>3. percent \in 0 .. 100
  BY <1>2, PercentOfFiles
<1>4. s \in ScanInfo
  BY <1>1 DEF ScanInfo
<1>5. ScanOK(s)
  BY <1>1 DEF ScanOK, ScanInfo, FileSteps, StaleSteps
<1>6. disk[f] # 0 => Sound(t)
  <2>1. disk[f] \in Times
    BY DEF ScanInv, TypeOK
  <2>2. t \in ScanInfo
    BY <1>4, <2>1 DEF ScanInfo, Labels
  <2>3. disk[f] # 0 => ScanOK(t)
    BY <1>1, <1>4, <1>5, NoneAssumption DEF ScanOK, ScanInfo, FileSteps, StaleSteps
  <2> QED BY <2>2, <2>3 DEF Sound
<1>7. \/ /\ scan' = [scan EXCEPT ![w] = Resting]
         /\ percentage' = percentage \/ percentage' = [percentage EXCEPT ![w] = percent]
      \/ scan' = [scan EXCEPT ![w] = s] /\ percentage' = [percentage EXCEPT ![w] = percent]
      \/ disk[f] # 0 /\ scan' = [scan EXCEPT ![w] = t] /\ percentage' = percentage
  BY DEF TakeFile, Raise
<1> HIDE DEF percent, s, t
<1>8. scan' \in [Workers -> ScanInfo] /\ \A q \in Workers : ScanOK(scan[q])'
  BY <1>4, <1>5, <1>6, <1>7, RestingSound, OneSound DEF Sound
<1>9. percentage' \in [Workers -> 0 .. 100]
  BY <1>3, <1>7 DEF ScanInv, TypeOK
<1> QED BY <1>8, <1>9 DEF ScanInv, TypeOK, TakeFile, database, Keep, history

LEMMA StatScan ==
  ASSUME ScanInv, NEW w \in Workers, Stat(w)
  PROVE  ScanInv'
<1> DEFINE f == scan[w].file
           s == [scan[w] EXCEPT !.mtime = disk[f], !.pc = IF Linked(f) THEN "artist" ELSE "album"]
<1>1. scan[w] \in ScanInfo /\ ScanOK(scan[w]) /\ scan[w].pc = "stat" /\ f # None /\ f \in Files
  BY DEF ScanInv, TypeOK, Stat, ScanOK, FileSteps, ScanInfo
<1>2. CASE RaiseInTry(w)
  BY <1>1, <1>2, RaiseInTryStep
<1>3. CASE scan' = [scan EXCEPT ![w] = s] /\ KeepData
  <2>1. disk[f] \in Times
    BY <1>1 DEF ScanInv, TypeOK
  <2>2. s \in ScanInfo
    BY <1>1, <2>1 DEF ScanInfo, Labels
  <2>3. Linked(f) => 1 \in DOMAIN NamesOf[f]
    BY <1>1, TagAssumption DEF Linked
  <2>4. ScanOK(s)
    BY <1>1, <2>3 DEF ScanOK, ScanInfo, FileSteps, StaleSteps
  <2> QED BY <1>3, <2>2, <2>4, MoveStep DEF Sound
<1>4. Stat(w) => RaiseInTry(w) \/ (scan' = [scan EXCEPT ![w] = s] /\ KeepData)
  BY DEF Stat
<1> QED BY <1>2, <1>3, <1>4

LEMMA FindArtistScan ==
  ASSUME ScanInv, NEW w \in Workers, FindArtist(w)
  PROVE  ScanInv'
<1>1. Sound(scan[w]) /\ scan[w].pc = "artist"
  BY DEF ScanInv, TypeOK, FindArtist, Sound
<1>2. CASE AfterName(w, scan[w])
  BY <1>1, <1>2, AfterNameStep
<1>3. CASE Goto(w, "addartist") /\ KeepData
  <2>1. ScanOK([scan[w] EXCEPT !.pc = "addartist"])
    BY <1>1 DEF Sound, ScanOK, ScanInfo, FileSteps, StaleSteps
  <2> QED BY <1>3, <2>1, GotoStep DEF Labels
<1> QED BY <1>2, <1>3 DEF FindArtist

LEMMA AddArtistScan ==
  ASSUME ScanInv, NEW w \in Workers, AddArtist(w)
  PROVE  ScanInv'
<1> DEFINE s == [scan[w] EXCEPT !.names = @ \cup {Name(w)}]
<1>1. Sound(scan[w]) /\ scan[w].pc = "addartist" /\ scan[w].file # None /\ scan[w].file \in Files
  BY DEF ScanInv, TypeOK, AddArtist, Sound, ScanOK, FileSteps, ScanInfo
<1>2. CASE SkipFile(w)
  BY <1>1, <1>2, SkipFileStep
<1>3. CASE AfterName(w, s)
  <2>1. scan[w].at \in DOMAIN NamesOf[scan[w].file]
    BY <1>1 DEF Sound, ScanOK
  <2>2. Name(w) \in Artists
    BY <1>1, <2>1, TagAssumption DEF Name
  <2>3. Sound(s) /\ s.pc = "addartist"
    BY <1>1, <2>2 DEF Sound, ScanOK, ScanInfo, FileSteps, StaleSteps
  <2> QED BY <1>3, <2>3, AfterNameStep
<1> QED BY <1>2, <1>3 DEF AddArtist

LEMMA FindAlbumScan ==
  ASSUME ScanInv, NEW w \in Workers, FindAlbum(w)
  PROVE  ScanInv'
<1>1. Sound(scan[w]) /\ scan[w].pc = "album" /\ scan[w].file # None
  BY DEF ScanInv, TypeOK, FindAlbum, Sound, ScanOK, FileSteps
<1>2. CASE GoUpsert(w, scan[w])
  BY <1>1, <1>2, GoUpsertStep DEF NamedSteps
<1>3. CASE RaiseInTry(w)
  BY <1>1, <1>3, RaiseInTryStep
<1>4. CASE Goto(w, "addalbum") /\ KeepData
  <2>1. ScanOK([scan[w] EXCEPT !.pc = "addalbum"])
    BY <1>1 DEF Sound, ScanOK, ScanInfo, FileSteps, StaleSteps
  <2> QED BY <1>4, <2>1, GotoStep DEF Labels
<1> QED BY <1>2, <1>3, <1>4 DEF FindAlbum

LEMMA AddAlbumScan ==
  ASSUME ScanInv, NEW w \in Workers, AddAlbum(w)
  PROVE  ScanInv'
<1> DEFINE s == [scan[w] EXCEPT !.album = TRUE]
<1>1. Sound(scan[w]) /\ scan[w].pc = "addalbum" /\ scan[w].file # None
  BY DEF ScanInv, TypeOK, AddAlbum, Sound, ScanOK, FileSteps
<1>2. Sound(s) /\ s.file = scan[w].file /\ s.pc = "addalbum"
  BY <1>1 DEF Sound, ScanOK, ScanInfo, FileSteps, StaleSteps
<1>3. GoUpsert(w, s)
  BY DEF AddAlbum
<1> HIDE DEF s
<1> QED BY <1>1, <1>2, <1>3, GoUpsertStep DEF NamedSteps

LEMMA UpsertScan ==
  ASSUME ScanInv, NEW w \in Workers, Upsert(w) \/ Relink(w)
  PROVE  ScanInv'
<1>1. Sound(scan[w]) /\ scan[w].pc \in {"upsert", "relink"} /\ scan[w].file # None
  BY DEF ScanInv, TypeOK, Upsert, Relink, Sound, ScanOK, FileSteps
<1>2. \A l \in {"relink", "commit"} : ScanOK([scan[w] EXCEPT !.pc = l])
  BY <1>1 DEF Sound, ScanOK, ScanInfo, FileSteps, StaleSteps
<1>3. CASE SkipFile(w)
  BY <1>1, <1>3, SkipFileStep
<1>4. CASE \E l \in {"relink", "commit"} : Goto(w, l) /\ KeepData
  BY <1>2, <1>4, GotoStep DEF Labels
<1> QED BY <1>3, <1>4 DEF Upsert, Relink

LEMMA CommitScan ==
  ASSUME ScanInv, NEW w \in Workers, Commit(w)
  PROVE  ScanInv'
<1> DEFINE s == scan[w]
           f == s.file
<1>1. Sound(s) /\ s.pc = "commit" /\ f # None /\ f \in Files
  BY DEF ScanInv, TypeOK, Commit, Sound, ScanOK, FileSteps, ScanInfo
<1>2. \A q \in Workers : Sound(NoticeRelink(q, f))
  <2> TAKE q \in Workers
  <2>1. Sound(scan[q])
    BY DEF ScanInv, TypeOK, Sound
  <2>2. Sound([scan[q] EXCEPT !.relinked = @ \cup {f}])
    BY <1>1, <2>1 DEF Sound, ScanInfo, ScanOK
  <2> QED BY <2>1, <2>2 DEF NoticeRelink
<1>3. Sound(NextFile(s))
  BY <1>1, NextFileSound
<1>4. scan' \in [Workers -> ScanInfo] /\ \A q \in Workers : ScanOK(scan[q])'
  <2>1. scan' = [q \in Workers |-> IF q # w THEN NoticeRelink(q, f) ELSE NextFile(s)]
    BY DEF Commit
  <2> HIDE DEF s, f
  <2>2. \A q \in Workers : scan'[q] \in ScanInfo /\ ScanOK(scan'[q])
    BY <1>2, <1>3, <2>1 DEF Sound
  <2> QED BY <2>1, <2>2, Zenon DEF ScanOK
<1>5. track' \in [Files -> Row]
  BY <1>1 DEF Commit, ScanInv, TypeOK, Row, Sound, ScanInfo
<1>6. artists' \in SUBSET Artists
  BY <1>1 DEF Commit, ScanInv, TypeOK, Sound, ScanInfo
<1>7. albums' \in [Albums -> Nat]
  BY DEF Commit, ScanInv, TypeOK
<1>8. inserted' \in [Workers -> Nat]
  BY DEF Commit, ScanInv, TypeOK
<1>9. percentage' \in [Workers -> 0 .. 100]
  BY <1>1, PercentType DEF Commit, ScanInv, TypeOK
<1>10. UNCHANGED <<disk, status, tasks, disturbed, overlap>>
  BY DEF Commit, Keep, history
<1> QED BY <1>4, <1>5, <1>6, <1>7, <1>8, <1>9, <1>10 DEF ScanInv, TypeOK

\* The end of a scan: the rows that it deletes are gone for the others too.
LEMMA ListStaleScan ==
  ASSUME ScanInv, NEW w \in Workers, ListStale(w)
  PROVE  ScanInv'
<1> DEFINE stale == {f \in Files : track[f] # NoRow /\ f \notin scan[w].listed}
           s == [scan[w] EXCEPT !.pc = "issue", !.stale = stale]
<1>1. Sound(scan[w]) /\ scan[w].pc = "next" /\ scan[w].todo = {}
  BY DEF ScanInv, TypeOK, ListStale, Sound
<1>2. CASE Raise(w) /\ Done(w) /\ UNCHANGED track
  <2>1. scan' \in [Workers -> ScanInfo] /\ \A q \in Workers : ScanOK(scan[q])'
    BY <1>2, OneSound, RestingSound DEF Raise
  <2>2. status' \in [Workers -> {"idle", "running", "done"}]
    BY <1>2 DEF Done, ScanInv, TypeOK
  <2> QED BY <1>2, <2>1, <2>2 DEF Done, ScanInv, TypeOK, Keep, history
<1>3. CASE scan' = [scan EXCEPT ![w] = s] /\ KeepData
  <2>1. Sound(s)
    BY <1>1 DEF Sound, ScanInfo, ScanOK, Labels, FileSteps, StaleSteps
  <2> QED BY <1>3, <2>1, MoveStep
<1>4. \/ Raise(w) /\ Done(w) /\ UNCHANGED track
      \/ scan' = [scan EXCEPT ![w] = s] /\ KeepData
  BY DEF ListStale
<1> QED BY <1>2, <1>3, <1>4

LEMMA UnlinkScan ==
  ASSUME ScanInv, NEW w \in Workers, IssueUnlink(w) \/ Unlink(w)
  PROVE  ScanInv'
<1>1. Sound(scan[w]) /\ scan[w].pc \in {"issue", "unlink"}
  BY DEF ScanInv, TypeOK, IssueUnlink, Unlink, Sound
<1>2. \A l \in {"unlink", "delete"} : ScanOK([scan[w] EXCEPT !.pc = l])
  BY <1>1 DEF Sound, ScanOK, ScanInfo, FileSteps, StaleSteps
<1> QED BY <1>2, GotoStep DEF IssueUnlink, Unlink, Labels

LEMMA DeleteStaleScan ==
  ASSUME ScanInv, NEW w \in Workers, DeleteStale(w)
  PROVE  ScanInv'
<1> DEFINE gone == scan[w].stale
<1>1. CASE Raise(w) /\ KeepData
  BY <1>1, MoveStep, RestingSound DEF Raise
<1>2. CASE /\ track' = [f \in Files |-> IF f \in gone THEN NoRow ELSE track[f]]
           /\ scan' = [q \in Workers |->
                IF q = w THEN Resting ELSE [scan[q] EXCEPT !.stale = @ \ gone]]
           /\ Done(w)
  <2>1. \A q \in Workers : Sound([scan[q] EXCEPT !.stale = @ \ gone])
    <3> TAKE q \in Workers
    <3>1. Sound(scan[q])
      BY DEF ScanInv, TypeOK, Sound
    <3> HIDE DEF gone
    <3> QED BY <3>1 DEF Sound, ScanInfo, ScanOK
  <2> HIDE DEF gone
  <2>2. \A q \in Workers : scan'[q] \in ScanInfo /\ ScanOK(scan'[q])
    BY <1>2, <2>1, RestingSound DEF Sound
  <2>3. scan' \in [Workers -> ScanInfo] /\ \A q \in Workers : ScanOK(scan[q])'
    BY <1>2, <2>2, Zenon DEF ScanOK
  <2>4. NoRow \in Row
    BY TimeAssumption DEF NoRow, Row, Times
  <2>5. track' \in [Files -> Row]
    BY <1>2, <2>4 DEF ScanInv, TypeOK
  <2>6. status' \in [Workers -> {"idle", "running", "done"}]
    BY <1>2 DEF Done, ScanInv, TypeOK
  <2> QED BY <1>2, <2>3, <2>5, <2>6 DEF Done, ScanInv, TypeOK, Keep, history
<1> QED BY <1>1, <1>2 DEF DeleteStale

LEMMA DeadlockVictimScan ==
  ASSUME ScanInv, NEW w \in Workers, DeadlockVictim(w)
  PROVE  ScanInv'
<1>1. CASE scan[w].file = None
  BY <1>1, MoveStep, RestingSound DEF DeadlockVictim, Raise
<1>2. CASE scan[w].file # None
  BY <1>2, RaiseInTryStep DEF DeadlockVictim
<1> QED BY <1>1, <1>2

LEMMA CrashScan ==
  ASSUME ScanInv, NEW w \in Workers, Crash(w)
  PROVE  ScanInv'
<1>1. scan' \in [Workers -> ScanInfo] /\ \A q \in Workers : ScanOK(scan[q])'
  BY OneSound, RestingSound DEF Crash, Raise
<1>2. tasks' \in [Workers -> Seq(BOOLEAN)]
  <2>1. <<>> \in Seq(BOOLEAN)
    OBVIOUS
  <2> QED BY <2>1, Zenon DEF Crash, ScanInv, TypeOK
<1>3. status' \in [Workers -> {"idle", "running", "done"}] /\ inserted' \in [Workers -> Nat]
  BY DEF Crash, ScanInv, TypeOK
<1>4. percentage' \in [Workers -> 0 .. 100]
  <2>1. 0 \in 0 .. 100
    OBVIOUS
  <2> QED BY <2>1, Zenon DEF Crash, ScanInv, TypeOK
<1>5. UNCHANGED <<disk, track, artists, albums, disturbed, overlap>>
  BY DEF Crash, database, history
<1> QED BY <1>1, <1>2, <1>3, <1>4, <1>5 DEF ScanInv, TypeOK

LEMMA TouchScan ==
  ASSUME ScanInv, NEW f \in Files, NEW m \in Times, Touch(f, m)
  PROVE  ScanInv'
<1>1. disk' \in [Files -> Times] /\ disturbed' \in [Workers -> BOOLEAN]
  BY DEF Touch, ScanInv, TypeOK
<1>2. UNCHANGED <<track, artists, albums, status, inserted, percentage, tasks, scan, overlap>>
  BY DEF Touch, database, scanStates
<1> QED BY <1>1, <1>2 DEF ScanInv, TypeOK

LEMMA NextScan == ScanInv /\ [Next]_vars => ScanInv'
<1> SUFFICES ASSUME ScanInv, [Next]_vars PROVE ScanInv'
  OBVIOUS
<1>1. ASSUME NEW w \in Workers, Step(w) PROVE ScanInv'
  BY <1>1, BeginScan, ReadKnownScan, TakeFileScan, StatScan, FindArtistScan, AddArtistScan,
     FindAlbumScan, AddAlbumScan, UpsertScan, CommitScan, ListStaleScan, UnlinkScan,
     DeleteStaleScan, DeadlockVictimScan DEF Step
<1>2. ASSUME UNCHANGED vars PROVE ScanInv'
  BY <1>2 DEF ScanInv, TypeOK, vars, database, scanStates, history
<1> QED BY <1>1, <1>2, CrashScan, AcceptScan, TouchScan DEF Next

LEMMA ScanInvariant == Spec => []ScanInv
<1>1. ScanInv /\ [Next]_vars => ScanInv'
  BY NextScan
<1> QED BY InitScan, <1>1, PTL DEF Spec

\* TypeOK holds for any workers and any files: every percentage is one, and a
\* transaction looks up only names that its file mentions.
THEOREM ScanTypes == Spec => []TypeOK
<1>1. ScanInv => TypeOK
  BY DEF ScanInv
<1> QED BY ScanInvariant, <1>1, PTL

-----------------------------------------------------------------------------
(* What a step leaves alone *)

\* A step of a scan that has begun accepts nothing, and ends it when it changes
\* its status.
LEMMA StepKeepsStatus ==
  ASSUME ScanInv, NEW w \in Workers, Step(w), ~Begin(w), NEW q \in Workers
  PROVE  /\ tasks' = tasks
         /\ Active(q)' => Active(q)
         /\ status'[q] = status[q] \/ (Active(q) /\ ~Active(q)')
<1>1. scan[w] \in ScanInfo /\ scan \in [Workers -> ScanInfo] /\ ScanOK(scan[w])
      /\ status \in [Workers -> {"idle", "running", "done"}]
  BY DEF ScanInv, TypeOK
<1>2. CASE ListStale(w)
  BY <1>1, <1>2 DEF ListStale, Active, Raise, Resting, Done, Keep, KeepData, scanStates
<1>3. CASE DeleteStale(w)
  <2>1. tasks' = tasks
    BY <1>3 DEF DeleteStale, Done, Keep, KeepData
  <2>2. status'[q] = status[q] \/ (q = w /\ ~Active(w)')
    BY <1>1, <1>3 DEF DeleteStale, Done, KeepData, scanStates, Active, Resting
  <2>3. q # w => scan'[q].pc = scan[q].pc
    BY <1>1, <1>3 DEF DeleteStale, Raise, ScanInfo
  <2>4. Active(w)
    BY <1>3 DEF DeleteStale, Active
  <2> QED BY <2>1, <2>2, <2>3, <2>4 DEF Active
<1>4. CASE Commit(w)
  BY <1>1, <1>4 DEF Commit, Active, NoticeRelink, NextFile, Keep, ScanInfo
<1>5. CASE ReadKnown(w) \/ Stat(w) \/ FindArtist(w) \/ AddArtist(w)
  <2>1. UNCHANGED <<tasks, status>>
    BY <1>5 DEF ReadKnown, Stat, FindArtist, AddArtist, AfterName, SkipFile, RaiseInTry, KeepData,
                Keep, scanStates
  <2>2. \A p \in Workers : p # w => scan'[p] = scan[p]
    BY <1>1, <1>5 DEF ReadKnown, Stat, FindArtist, AddArtist, AfterName, SkipFile, RaiseInTry,
                Raise, Goto
  <2>3. Active(w)
    BY <1>5 DEF ReadKnown, Stat, FindArtist, AddArtist, Active
  <2> QED BY <2>1, <2>2, <2>3 DEF Active
<1>6. CASE FindAlbum(w) \/ AddAlbum(w) \/ Upsert(w) \/ Relink(w) \/ IssueUnlink(w) \/ Unlink(w)
  <2>1. UNCHANGED <<tasks, status>>
    BY <1>6 DEF FindAlbum, AddAlbum, Upsert, Relink, IssueUnlink, Unlink, GoUpsert, SkipFile,
                RaiseInTry, KeepData, Keep, scanStates
  <2>2. \A p \in Workers : p # w => scan'[p] = scan[p]
    BY <1>1, <1>6 DEF FindAlbum, AddAlbum, Upsert, Relink, IssueUnlink, Unlink, GoUpsert, SkipFile,
                RaiseInTry, Raise, Goto
  <2>3. Active(w)
    BY <1>6 DEF FindAlbum, AddAlbum, Upsert, Relink, IssueUnlink, Unlink, Active
  <2> QED BY <2>1, <2>2, <2>3 DEF Active
<1>7. ASSUME NEW f \in Files, TakeFile(w, f)
      PROVE  /\ tasks' = tasks
             /\ Active(q)' => Active(q)
             /\ status'[q] = status[q] \/ (Active(q) /\ ~Active(q)')
  <2>1. UNCHANGED <<tasks, status>> /\ Active(w)
    BY <1>7 DEF TakeFile, Keep, Active
  <2>2. \A p \in Workers : p # w => scan'[p] = scan[p]
    BY <1>1, <1>7 DEF TakeFile, Raise
  <2> QED BY <2>1, <2>2 DEF Active
<1>8. CASE DeadlockVictim(w)
  <2>1. UNCHANGED <<tasks, status>>
    BY <1>8 DEF DeadlockVictim, RaiseInTry, KeepData, Keep, scanStates
  <2>2. scan' = [scan EXCEPT ![w] = Resting]
    BY <1>8 DEF DeadlockVictim, RaiseInTry, Raise
  <2> QED BY <1>1, <2>1, <2>2 DEF Active, Resting
<1> QED BY <1>2, <1>3, <1>4, <1>5, <1>6, <1>7, <1>8 DEF Step

\* A scan is touched by others in what it knows of stale rows only.
SameWork(s, t) ==
  /\ t.pc = s.pc /\ t.file = s.file /\ t.at = s.at /\ t.names = s.names /\ t.album = s.album
  /\ t.todo = s.todo

LEMMA OthersKeep ==
  ASSUME ScanInv, NEW w \in Workers, Step(w), NEW q \in Workers, q # w
  PROVE  SameWork(scan[q], scan'[q])
<1>1. scan[q] \in ScanInfo /\ scan \in [Workers -> ScanInfo]
  BY DEF ScanInv, TypeOK
<1>2. CASE Commit(w)
  BY <1>1, <1>2 DEF Commit, NoticeRelink, SameWork, ScanInfo
<1>3. CASE DeleteStale(w)
  BY <1>1, <1>3 DEF DeleteStale, Raise, SameWork, ScanInfo
<1>4. CASE ReadKnown(w) \/ Stat(w) \/ FindArtist(w) \/ AddArtist(w) \/ FindAlbum(w) \/ AddAlbum(w)
  BY <1>1, <1>4 DEF ReadKnown, Stat, FindArtist, AddArtist, FindAlbum, AddAlbum, AfterName,
     GoUpsert, SkipFile, RaiseInTry, Raise, Goto, SameWork
<1>5. CASE \/ Upsert(w) \/ Relink(w) \/ ListStale(w) \/ IssueUnlink(w) \/ Unlink(w)
           \/ DeadlockVictim(w) \/ Begin(w)
  BY <1>1, <1>5 DEF Upsert, Relink, ListStale, IssueUnlink, Unlink, DeadlockVictim, Begin,
     SkipFile, RaiseInTry, Raise, Goto, SameWork
<1>6. ASSUME NEW f \in Files, TakeFile(w, f) PROVE SameWork(scan[q], scan'[q])
  BY <1>1, <1>6 DEF TakeFile, Raise, SameWork
<1> QED BY <1>2, <1>3, <1>4, <1>5, <1>6 DEF Step

\* Only a commit writes artists and albums, and only it and the removal of stale
\* rows write tracks.
LEMMA StepKeepsRows ==
  ASSUME NEW w \in Workers, Step(w), ~Commit(w)
  PROVE  UNCHANGED <<artists, albums>> /\ (UNCHANGED track \/ DeleteStale(w))
<1>1. CASE ReadKnown(w) \/ Stat(w) \/ FindArtist(w) \/ AddArtist(w) \/ FindAlbum(w) \/ AddAlbum(w)
  BY <1>1 DEF ReadKnown, Stat, FindArtist, AddArtist, FindAlbum, AddAlbum, AfterName,
     GoUpsert, SkipFile, RaiseInTry, KeepData, database
<1>2. CASE \/ Upsert(w) \/ Relink(w) \/ ListStale(w) \/ IssueUnlink(w) \/ Unlink(w)
           \/ DeadlockVictim(w) \/ Begin(w) \/ DeleteStale(w)
  BY <1>2 DEF Upsert, Relink, ListStale, IssueUnlink, Unlink, DeadlockVictim, Begin, DeleteStale,
     Done, SkipFile, RaiseInTry, KeepData, database
<1>3. ASSUME NEW f \in Files, TakeFile(w, f) PROVE UNCHANGED <<artists, albums, track>>
  BY <1>3 DEF TakeFile, database
<1> QED BY <1>1, <1>2, <1>3 DEF Step

-----------------------------------------------------------------------------
(* One scan for each worker *)

LEMMA StatusNext ==
  ASSUME ScanInv, StatusInv, [Next]_vars PROVE StatusInv'
<1>1. status \in [Workers -> {"idle", "running", "done"}] /\ tasks \in [Workers -> Seq(BOOLEAN)]
      /\ scan \in [Workers -> ScanInfo]
  BY DEF ScanInv, TypeOK
<1>2. ASSUME NEW w \in Workers, NEW full \in BOOLEAN, Accept(w, full) PROVE StatusInv'
  <2>1. tasks[w] = <<>> /\ ~Active(w)
    BY <1>2 DEF Accept, StatusInv
  <2>2. tasks'[w] = <<full>> /\ Len(tasks'[w]) = 1
    BY <1>1, <1>2, <2>1 DEF Accept
  <2> QED BY <1>1, <1>2, <2>1, <2>2 DEF Accept, StatusInv, Active
<1>3. ASSUME NEW w \in Workers, Begin(w) PROVE StatusInv'
  <2>1. tasks[w] \in Seq(BOOLEAN) /\ tasks[w] # <<>> /\ Len(tasks[w]) <= 1
    BY <1>1, <1>3 DEF Begin, StatusInv
  <2>2. Tail(tasks[w]) = <<>>
    BY <2>1
  <2>3. tasks'[w] = <<>> /\ status'[w] = "running"
    BY <1>1, <1>3, <2>2 DEF Begin
  <2>4. \A q \in Workers \ {w} : tasks'[q] = tasks[q] /\ status'[q] = status[q] /\ scan'[q] = scan[q]
    BY <1>1, <1>3 DEF Begin
  <2> QED BY <2>3, <2>4 DEF StatusInv, Active
<1>4. ASSUME NEW w \in Workers, Crash(w) PROVE StatusInv'
  <2>1. tasks'[w] = <<>> /\ ~Active(w)'
    BY <1>1, <1>4 DEF Crash, Raise, Active, Resting
  <2>2. \A q \in Workers \ {w} : tasks'[q] = tasks[q] /\ status'[q] = status[q] /\ scan'[q] = scan[q]
    BY <1>1, <1>4 DEF Crash, Raise
  <2> QED BY <2>1, <2>2 DEF StatusInv, Active
<1>5. ASSUME NEW w \in Workers, Step(w), ~Begin(w) PROVE StatusInv'
  BY <1>5, StepKeepsStatus DEF StatusInv
<1>6. ASSUME \/ UNCHANGED vars
             \/ \E f \in Files, m \in Times : Touch(f, m)
      PROVE  StatusInv'
  BY <1>6 DEF Touch, vars, scanStates, StatusInv, Active
<1> QED BY <1>2, <1>3, <1>4, <1>5, <1>6 DEF Next

\* OneScanPerWorker for any number of workers: the check of the status and its
\* assignment without an await between them are enough.
THEOREM ScanAlone == Spec => []OneScanPerWorker
<1>1. Init => StatusInv
  BY DEF Init, StatusInv, Active, Resting
<1>2. ScanInv /\ StatusInv /\ [Next]_vars => StatusInv'
  BY StatusNext
<1>3. StatusInv /\ ScanInv => OneScanPerWorker
  <2> SUFFICES ASSUME StatusInv, ScanInv, NEW w \in Workers
               PROVE  Len(tasks[w]) + (IF Active(w) THEN 1 ELSE 0) <= 1
    BY DEF OneScanPerWorker
  <2>1. Len(tasks[w]) \in Nat /\ Len(tasks[w]) <= 1
    BY DEF ScanInv, TypeOK, StatusInv
  <2>2. Active(w) => Len(tasks[w]) = 0
    BY DEF StatusInv
  <2>3. CASE Active(w)
    BY <2>1, <2>2, <2>3
  <2>4. CASE ~Active(w)
    BY <2>1, <2>4
  <2> QED BY <2>3, <2>4
<1> QED BY <1>1, <1>2, <1>3, ScanInvariant, PTL DEF Spec


\* A worker whose status says "running" and that has no scan, begun or accepted.
Stuck(w) == status[w] = "running" /\ ~Active(w) /\ tasks[w] = <<>>

\* It stays so until its process dies: no step of any scan clears the status.
StuckUntilRestart == [][\A w \in Workers : Stuck(w) => Stuck(w)' \/ Crash(w)]_vars

\* One failed scan refuses every later POST /scan of its worker, for any number
\* of workers, until a restart (the run scan_stuck reaches such a state).
THEOREM StuckStays == Spec => StuckUntilRestart
<1>1. ASSUME ScanInv, Next, NEW w \in Workers, Stuck(w)
      PROVE  Stuck(w)' \/ Crash(w)
  <2>1. status \in [Workers -> {"idle", "running", "done"}] /\ tasks \in [Workers -> Seq(BOOLEAN)]
        /\ scan \in [Workers -> ScanInfo]
    BY <1>1 DEF ScanInv, TypeOK
  <2>2. ASSUME NEW q \in Workers, Begin(q) PROVE Stuck(w)'
    BY <1>1, <2>1, <2>2 DEF Begin, Stuck, Active
  <2>3. ASSUME NEW q \in Workers, Step(q), ~Begin(q) PROVE Stuck(w)'
    BY <1>1, <2>3, StepKeepsStatus DEF Stuck
  <2>4. ASSUME NEW q \in Workers, Crash(q), q # w PROVE Stuck(w)'
    BY <1>1, <2>1, <2>4 DEF Crash, Raise, Stuck, Active
  <2>5. ASSUME NEW q \in Workers, NEW full \in BOOLEAN, Accept(q, full) PROVE Stuck(w)'
    BY <1>1, <2>1, <2>5 DEF Accept, Stuck, Active
  <2>6. ASSUME NEW f \in Files, NEW m \in Times, Touch(f, m) PROVE Stuck(w)'
    BY <1>1, <2>6 DEF Touch, scanStates, Stuck, Active
  <2> QED BY <1>1, <2>2, <2>3, <2>4, <2>5, <2>6 DEF Next
<1>2. ScanInv /\ [Next]_vars => [\A w \in Workers : Stuck(w) => Stuck(w)' \/ Crash(w)]_vars
  BY <1>1
<1> QED BY <1>2, ScanInvariant, PTL DEF Spec, StuckUntilRestart
-----------------------------------------------------------------------------
(* The removal of stale rows *)

\* OnlyStaleDeleted for any scans at once: no transaction of a file makes a row
\* disappear, and a scan deletes only what its listing did not have, after it.
THEOREM StaleOnly == Spec => OnlyStaleDeleted
<1> DEFINE A == \A f \in Files : track[f] # NoRow /\ track'[f] = NoRow =>
                  \E w \in Workers : /\ f \notin scan[w].listed /\ scan[w].todo = {}
                                     /\ status'[w] = "done"
<1>1. ScanInv /\ [Next]_vars => [A]_vars
  <2> SUFFICES ASSUME ScanInv, Next, NEW f \in Files, track[f] # NoRow, track'[f] = NoRow
               PROVE  \E w \in Workers : /\ f \notin scan[w].listed /\ scan[w].todo = {}
                                         /\ status'[w] = "done"
    OBVIOUS
  <2>1. \E w \in Workers : Commit(w) \/ DeleteStale(w)
    BY StepKeepsRows DEF Next, Crash, Accept, Touch, database
  <2>2. PICK w \in Workers : Commit(w) \/ DeleteStale(w)
    BY <2>1
  <2>3. track \in [Files -> Row] /\ ScanOK(scan[w]) /\ status \in [Workers -> {"idle", "running", "done"}]
    BY DEF ScanInv, TypeOK
  <2>4. CASE Commit(w)
    BY <2>3, <2>4 DEF Commit, ScanOK, NoRow, FileSteps
  <2>5. CASE DeleteStale(w)
    BY <2>3, <2>5 DEF DeleteStale, KeepData, database, Done, ScanOK, StaleSteps
  <2> QED BY <2>2, <2>4, <2>5
<1> QED BY <1>1, ScanInvariant, PTL DEF Spec, OnlyStaleDeleted

-----------------------------------------------------------------------------
(* Tracks with their artists and albums *)

LEMMA CommitGrows ==
  ASSUME ScanInv, NEW w \in Workers, Commit(w)
  PROVE  /\ artists \subseteq artists'
         /\ \A a \in Albums : albums'[a] \in Nat /\ albums[a] <= albums'[a]
BY DEF ScanInv, TypeOK, Commit

\* What a scan has found stays found when its own work does not change.
LEMMA FoundKept ==
  ASSUME ScanInv, NEW s \in ScanInfo, ScanOK(s), NEW t, SameWork(s, t), artists \subseteq artists',
         \A a \in Albums : albums'[a] \in Nat /\ albums[a] <= albums'[a],
         NamesFound(s), AlbumFound(s)
  PROVE  /\ t.pc \in {"artist", "addartist"} =>
              \A i \in 1 .. (t.at - 1) : NamesOf[t.file][i] \in artists' \cup t.names
         /\ t.pc \in NamedSteps =>
              \A i \in DOMAIN NamesOf[t.file] : NamesOf[t.file][i] \in artists' \cup t.names
         /\ t.pc = "addalbum" => AlbumOf[t.file] # None
         /\ t.pc \in {"upsert", "relink", "commit"} /\ AlbumOf[t.file] # None =>
              t.album \/ albums'[AlbumOf[t.file]] > 0
<1>1. t.pc \in {"artist", "addartist"} =>
        \A i \in 1 .. (t.at - 1) : NamesOf[t.file][i] \in artists' \cup t.names
  BY DEF SameWork, NamesFound
<1>2. t.pc \in NamedSteps =>
        \A i \in DOMAIN NamesOf[t.file] : NamesOf[t.file][i] \in artists' \cup t.names
  BY DEF SameWork, NamesFound
<1>3. t.pc = "addalbum" => AlbumOf[t.file] # None
  BY DEF SameWork, AlbumFound
<1>4. ASSUME t.pc \in {"upsert", "relink", "commit"}, AlbumOf[t.file] # None, ~t.album
      PROVE  albums'[AlbumOf[t.file]] > 0
  <2>1. s.file \in Files
    BY <1>4 DEF SameWork, ScanInfo, ScanOK, FileSteps
  <2>2. AlbumOf[s.file] \in Albums /\ albums[AlbumOf[s.file]] > 0
    BY <1>4, <2>1, TagAssumption DEF SameWork, AlbumFound
  <2>3. albums[AlbumOf[s.file]] \in Nat
    BY <2>2 DEF ScanInv, TypeOK
  <2> QED BY <2>2, <2>3 DEF SameWork
<1> QED BY <1>1, <1>2, <1>3, <1>4

Found(w) == NamesFound(scan[w]) /\ AlbumFound(scan[w])

LEMMA NextFileRests ==
  ASSUME NEW s \in ScanInfo
  PROVE  NextFile(s).pc = "next" /\ ~NextFile(s).album
BY DEF NextFile, ScanInfo

\* A scan starts with what its directory listed, or with the times it knows.
LEMMA BeginStarts ==
  ASSUME ScanInv, NEW w \in Workers, Begin(w)
  PROVE  scan'[w].pc \in {"next", "known"}
<1> DEFINE present == {f \in Files : disk[f] # 0}
           l == IF Head(tasks[w]) THEN "next" ELSE "known"
           r == [Resting EXCEPT !.pc = l, !.full = Head(tasks[w]), !.listed = present, !.todo = present]
<1>1. scan' = [scan EXCEPT ![w] = r] /\ scan \in [Workers -> ScanInfo]
  BY DEF Begin, ScanInv, TypeOK
<1>2. scan'[w] = r
  <2> HIDE DEF r
  <2> QED BY <1>1
<1>3. l \in {"next", "known"}
  OBVIOUS
<1>4. r.pc = l
  <2> HIDE DEF l, present
  <2> QED BY DEF Resting
<1> QED BY <1>2, <1>3, <1>4

\* Behind the last file, and before the first, nothing has to be found.
LEMMA FoundNothing ==
  ASSUME NEW w \in Workers, scan'[w].pc \in {"idle", "known", "next", "stat", "issue", "unlink", "delete"}
  PROVE  Found(w)'
BY DEF Found, NamesFound, AlbumFound, NamedSteps

LEMMA RaiseFinds ==
  ASSUME ScanInv, NEW w \in Workers, Raise(w) \/ SkipFile(w)
  PROVE  Found(w)'
<1>1. scan'[w] \in {Resting, NextFile(scan[w])} /\ scan[w] \in ScanInfo
  BY DEF ScanInv, TypeOK, Raise, SkipFile
<1>2. scan'[w].pc \in {"idle", "next"}
  BY <1>1, NextFileRests DEF Resting
<1> QED BY <1>2, FoundNothing

LEMMA AfterNameFinds ==
  ASSUME ScanInv, NEW w \in Workers, NEW s \in ScanInfo, s.file \in Files, AfterName(w, s),
         s.at \in DOMAIN NamesOf[s.file],
         \A i \in 1 .. s.at : NamesOf[s.file][i] \in artists \cup s.names
  PROVE  Found(w)'
<1> DEFINE t == IF s.at < Len(NamesOf[s.file]) THEN [s EXCEPT !.pc = "artist", !.at = @ + 1]
                                               ELSE [s EXCEPT !.pc = "album"]
<1>1. NamesOf[s.file] \in Seq(Artists)
  BY TagAssumption
<1>2. DOMAIN NamesOf[s.file] = 1 .. Len(NamesOf[s.file]) /\ Len(NamesOf[s.file]) \in Nat
      /\ s.at \in Nat
  BY <1>1
<1>3. scan'[w] = t /\ artists' = artists /\ albums' = albums
  BY DEF ScanInv, TypeOK, AfterName, KeepData, database
<1>4. CASE s.at < Len(NamesOf[s.file])
  <2>1. scan'[w].pc = "artist" /\ scan'[w].at - 1 = s.at /\ scan'[w].file = s.file
        /\ scan'[w].names = s.names
    BY <1>2, <1>3, <1>4 DEF ScanInfo
  <2> QED BY <1>3, <2>1 DEF Found, NamesFound, AlbumFound, NamedSteps
<1>5. CASE ~(s.at < Len(NamesOf[s.file]))
  <2>1. scan'[w].pc = "album" /\ scan'[w].file = s.file /\ scan'[w].names = s.names
    BY <1>3, <1>5 DEF ScanInfo
  <2>2. DOMAIN NamesOf[s.file] = 1 .. s.at
    BY <1>2, <1>5
  <2> QED BY <1>3, <2>1, <2>2 DEF Found, NamesFound, AlbumFound, NamedSteps
<1> QED BY <1>4, <1>5

LEMMA GoUpsertFinds ==
  ASSUME ScanInv, NEW w \in Workers, NEW s \in ScanInfo, s.pc \in NamedSteps,
         NamesFound(s), GoUpsert(w, s),
         AlbumOf[s.file] # None => s.album \/ albums[AlbumOf[s.file]] > 0
  PROVE  Found(w)'
<1>1. CASE RaiseInTry(w)
  BY <1>1, RaiseFinds DEF RaiseInTry
<1>2. CASE scan' = [scan EXCEPT ![w] = [s EXCEPT !.pc = "upsert"]] /\ KeepData
  <2>1. /\ scan'[w].pc = "upsert" /\ scan'[w].file = s.file /\ scan'[w].names = s.names
        /\ scan'[w].album = s.album
    BY <1>2 DEF ScanInv, TypeOK, ScanInfo
  <2>2. artists' = artists /\ albums' = albums
    BY <1>2 DEF KeepData, database
  <2> QED BY <2>1, <2>2 DEF Found, NamesFound, AlbumFound, NamedSteps
<1> QED BY <1>1, <1>2 DEF GoUpsert

LEMMA OwnFound ==
  ASSUME ScanInv, NEW w \in Workers, Found(w), Step(w)
  PROVE  Found(w)'
<1>1. /\ scan[w] \in ScanInfo /\ ScanOK(scan[w]) /\ scan \in [Workers -> ScanInfo]
      /\ NamesFound(scan[w]) /\ AlbumFound(scan[w]) /\ albums \in [Albums -> Nat]
  BY DEF ScanInv, TypeOK, Found
<1>2. scan[w].pc \in FileSteps => scan[w].file \in Files
  BY <1>1 DEF ScanOK, ScanInfo
<1>3. CASE Stat(w)
  <2>1. CASE RaiseInTry(w)
    BY <2>1, RaiseFinds DEF RaiseInTry
  <2>2. CASE ~RaiseInTry(w)
    <3>1. /\ scan'[w].pc = IF Linked(scan[w].file) THEN "artist" ELSE "album"
          /\ scan'[w].file = scan[w].file /\ scan'[w].at = 1 /\ scan'[w].names = scan[w].names
          /\ artists' = artists /\ albums' = albums
      BY <1>1, <1>3, <2>2 DEF Stat, ScanInfo, ScanOK, KeepData, database, FileSteps
    <3>2. ~Linked(scan[w].file) => DOMAIN NamesOf[scan[w].file] = {}
      BY DEF Linked
    <3> QED BY <3>1, <3>2 DEF Found, NamesFound, AlbumFound, NamedSteps
  <2> QED BY <2>1, <2>2
<1>4. CASE FindArtist(w)
  <2>1. CASE AfterName(w, scan[w]) /\ Name(w) \in artists \cup scan[w].names
    <3>1. scan[w].at \in DOMAIN NamesOf[scan[w].file] /\ scan[w].file \in Files
      BY <1>1, <1>2, <1>4 DEF FindArtist, ScanOK, FileSteps
    <3>2. scan[w].at \in Nat
      BY <1>1 DEF ScanInfo
    <3>3. \A i \in 1 .. scan[w].at : NamesOf[scan[w].file][i] \in artists \cup scan[w].names
      <4> TAKE i \in 1 .. scan[w].at
      <4>1. i = scan[w].at \/ i \in 1 .. (scan[w].at - 1)
        BY <3>2
      <4> QED BY <1>1, <1>4, <2>1, <4>1 DEF FindArtist, Name, NamesFound
    <3> QED BY <1>1, <2>1, <3>1, <3>3, AfterNameFinds
  <2>2. CASE Goto(w, "addartist") /\ KeepData
    <3>1. /\ scan'[w].pc = "addartist" /\ scan'[w].file = scan[w].file
          /\ scan'[w].at = scan[w].at /\ scan'[w].names = scan[w].names
          /\ artists' = artists
      BY <1>1, <2>2 DEF Goto, ScanInfo, KeepData, database
    <3> QED BY <1>1, <1>4, <3>1 DEF Found, NamesFound, AlbumFound, NamedSteps, FindArtist
  <2> QED BY <1>4, <2>1, <2>2 DEF FindArtist
<1>5. CASE AddArtist(w)
  <2> DEFINE s == [scan[w] EXCEPT !.names = @ \cup {Name(w)}]
  <2>1. CASE AfterName(w, s)
    <3>1. scan[w].at \in DOMAIN NamesOf[scan[w].file] /\ scan[w].file \in Files
      BY <1>1, <1>2, <1>5 DEF AddArtist, ScanOK, FileSteps
    <3>2. scan[w].at \in Nat
      BY <1>1 DEF ScanInfo
    <3>3. Name(w) \in Artists
      BY <3>1, TagAssumption DEF Name
    <3>4. s \in ScanInfo /\ s.file = scan[w].file /\ s.at = scan[w].at
          /\ s.names = scan[w].names \cup {Name(w)}
      BY <1>1, <3>3 DEF ScanInfo
    <3>5. \A i \in 1 .. s.at : NamesOf[s.file][i] \in artists \cup s.names
      <4> TAKE i \in 1 .. s.at
      <4>1. i = scan[w].at \/ i \in 1 .. (scan[w].at - 1)
        BY <3>2, <3>4
      <4>2. i = scan[w].at => NamesOf[s.file][i] = Name(w)
        BY <3>4 DEF Name
      <4> QED BY <1>1, <1>5, <3>4, <4>1, <4>2 DEF AddArtist, NamesFound
    <3> HIDE DEF s
    <3> QED BY <2>1, <3>1, <3>4, <3>5, AfterNameFinds
  <2> QED BY <1>5, <2>1, RaiseFinds DEF AddArtist
<1>6. CASE FindAlbum(w)
  <2>1. CASE GoUpsert(w, scan[w]) /\ (AlbumOf[scan[w].file] = None \/ albums[AlbumOf[scan[w].file]] = 1)
    BY <1>1, <1>6, <2>1, GoUpsertFinds DEF FindAlbum, NamedSteps
  <2>2. CASE Goto(w, "addalbum") /\ KeepData /\ AlbumOf[scan[w].file] # None
    <3>1. /\ scan'[w].pc = "addalbum" /\ scan'[w].file = scan[w].file
          /\ scan'[w].names = scan[w].names /\ artists' = artists
      BY <1>1, <2>2 DEF Goto, ScanInfo, KeepData, database
    <3> QED BY <1>1, <1>6, <2>2, <3>1 DEF Found, NamesFound, AlbumFound, NamedSteps, FindAlbum
  <2>3. CASE RaiseInTry(w)
    BY <2>3, RaiseFinds DEF RaiseInTry
  <2> QED BY <1>6, <2>1, <2>2, <2>3 DEF FindAlbum
<1>7. CASE AddAlbum(w)
  <2> DEFINE s == [scan[w] EXCEPT !.album = TRUE]
  <2>1. s \in ScanInfo /\ s.pc = "addalbum" /\ s.album /\ s.file = scan[w].file
        /\ s.names = scan[w].names /\ s.at = scan[w].at
    BY <1>1, <1>7 DEF ScanInfo, AddAlbum
  <2>2. NamesFound(s)
    BY <1>1, <1>7, <2>1 DEF NamesFound, NamedSteps, AddAlbum
  <2>3. GoUpsert(w, s)
    BY <1>7 DEF AddAlbum
  <2> HIDE DEF s
  <2> QED BY <2>1, <2>2, <2>3, GoUpsertFinds DEF NamedSteps
<1>8. CASE Upsert(w) \/ Relink(w)
  <2>1. CASE SkipFile(w)
    BY <2>1, RaiseFinds
  <2>2. CASE ~SkipFile(w)
    <3>1. /\ scan[w].pc \in {"upsert", "relink"} /\ scan'[w].pc \in {"relink", "commit"}
          /\ scan'[w].file = scan[w].file /\ scan'[w].names = scan[w].names
          /\ scan'[w].album = scan[w].album /\ artists' = artists /\ albums' = albums
      BY <1>1, <1>8, <2>2 DEF Upsert, Relink, Goto, ScanInfo, KeepData, database
    <3> QED BY <1>1, <3>1 DEF Found, NamesFound, AlbumFound, NamedSteps
  <2> QED BY <2>1, <2>2
<1>9. CASE Begin(w) \/ ReadKnown(w) \/ ListStale(w) \/ IssueUnlink(w) \/ Unlink(w)
  <2>1. scan'[w].pc \in {"idle", "known", "next", "stat", "issue", "unlink", "delete"}
    <3>1. Begin(w) => scan'[w].pc \in {"next", "known"}
      BY BeginStarts
    <3>2. ReadKnown(w) => scan'[w].pc = "next"
      BY <1>1 DEF ReadKnown, ScanInfo
    <3>3. ListStale(w) => scan'[w].pc \in {"idle", "issue"}
      BY <1>1 DEF ListStale, Raise, Resting, ScanInfo
    <3>4. IssueUnlink(w) \/ Unlink(w) => scan'[w].pc \in {"unlink", "delete"}
      BY <1>1 DEF IssueUnlink, Unlink, Goto, ScanInfo
    <3> QED BY <1>9, <3>1, <3>2, <3>3, <3>4
  <2> QED BY <2>1, FoundNothing
<1>10. CASE DeleteStale(w) \/ DeadlockVictim(w)
  <2>1. scan'[w].pc = "idle"
    BY <1>1, <1>10 DEF DeleteStale, DeadlockVictim, RaiseInTry, Raise, Resting
  <2> QED BY <2>1, FoundNothing
<1>11. ASSUME NEW f \in Files, TakeFile(w, f) PROVE Found(w)'
  <2> DEFINE s == [scan[w] EXCEPT !.todo = @ \ {f}]
             t == [s EXCEPT !.pc = "stat", !.file = f, !.content = disk[f]]
  <2>1. scan'[w] \in {Resting, s, t} /\ scan[w].pc = "next"
    BY <1>1, <1>11 DEF TakeFile, Raise
  <2>2. s.pc = scan[w].pc /\ t.pc = "stat"
    BY <1>1 DEF ScanInfo
  <2> HIDE DEF s, t
  <2>3. scan'[w].pc \in {"idle", "next", "stat"}
    BY <2>1, <2>2 DEF Resting
  <2> QED BY <2>3, FoundNothing
<1>12. CASE Commit(w)
  <2>1. scan'[w] = NextFile(scan[w])
    BY <1>12 DEF Commit
  <2> QED BY <1>1, <2>1, NextFileRests, FoundNothing
<1> QED BY <1>3, <1>4, <1>5, <1>6, <1>7, <1>8, <1>9, <1>10, <1>11, <1>12 DEF Step

LEMMA FoundNext ==
  ASSUME ScanInv, FoundInv, [Next]_vars PROVE FoundInv'
<1>1. \A w \in Workers : Found(w) /\ scan[w] \in ScanInfo /\ ScanOK(scan[w])
  BY DEF FoundInv, Found, ScanInv, TypeOK
<1>2. ASSUME NEW w \in Workers, Step(w) PROVE FoundInv'
  <2>1. /\ artists \subseteq artists'
        /\ \A a \in Albums : albums'[a] \in Nat /\ albums[a] <= albums'[a]
    <3>1. CASE Commit(w)
      BY <3>1, CommitGrows
    <3>2. CASE ~Commit(w)
      BY <1>2, <3>2, StepKeepsRows DEF ScanInv, TypeOK
    <3> QED BY <3>1, <3>2
  <2>2. \A q \in Workers : Found(q)'
    <3> TAKE q \in Workers
    <3>1. CASE q = w
      BY <1>1, <1>2, <3>1, OwnFound
    <3>2. CASE q # w
      <4>1. SameWork(scan[q], scan'[q])
        BY <1>2, <3>2, OthersKeep
      <4> QED BY <1>1, <2>1, <4>1, FoundKept DEF Found, NamesFound, AlbumFound
    <3> QED BY <3>1, <3>2
  <2>3. TracksComplete'
    <3> SUFFICES ASSUME NEW f \in Files, track'[f] # NoRow
                 PROVE  /\ \A i \in DOMAIN NamesOf[f] : NamesOf[f][i] \in artists'
                        /\ AlbumOf[f] # None => albums'[AlbumOf[f]] > 0
      BY DEF TracksComplete
    <3>1. CASE track[f] # NoRow
      <4>1. \A i \in DOMAIN NamesOf[f] : NamesOf[f][i] \in artists'
        BY <2>1, <3>1 DEF FoundInv, TracksComplete
      <4>2. AlbumOf[f] # None => AlbumOf[f] \in Albums /\ albums[AlbumOf[f]] > 0
        BY <3>1, TagAssumption DEF FoundInv, TracksComplete
      <4>3. AlbumOf[f] # None => albums[AlbumOf[f]] \in Nat
        BY <4>2 DEF ScanInv, TypeOK
      <4> QED BY <2>1, <4>1, <4>2, <4>3
    <3>2. CASE track[f] = NoRow
      <4>1. Commit(w) /\ f = scan[w].file
        BY <1>2, <3>2, StepKeepsRows DEF DeleteStale, KeepData, database, Commit, ScanInv, TypeOK
      <4>2. NamesFound(scan[w]) /\ AlbumFound(scan[w]) /\ scan[w].pc = "commit"
        BY <1>1, <4>1 DEF Found, Commit
      <4>3. \A i \in DOMAIN NamesOf[f] : NamesOf[f][i] \in artists'
        BY <4>1, <4>2 DEF NamesFound, NamedSteps, Commit
      <4>4. ASSUME AlbumOf[f] # None PROVE albums'[AlbumOf[f]] > 0
        <5>1. AlbumOf[f] \in Albums /\ albums[AlbumOf[f]] \in Nat
          BY <4>4, TagAssumption DEF ScanInv, TypeOK
        <5>2. scan[w].album \/ albums[AlbumOf[f]] > 0
          BY <4>1, <4>2, <4>4 DEF AlbumFound
        <5> QED BY <4>1, <5>1, <5>2 DEF Commit
      <4> QED BY <4>3, <4>4
    <3> QED BY <3>1, <3>2
  <2> QED BY <2>2, <2>3 DEF FoundInv, Found
<1>3. ASSUME NEW w \in Workers, Crash(w) PROVE FoundInv'
  <2>1. Found(w)'
    BY <1>3, RaiseFinds DEF Crash
  <2>2. \A q \in Workers \ {w} : scan'[q] = scan[q]
    BY <1>3 DEF Crash, Raise, ScanInv, TypeOK
  <2>3. UNCHANGED <<track, artists, albums>>
    BY <1>3 DEF Crash, database
  <2>4. \A q \in Workers \ {w} : Found(q)'
    BY <1>1, <2>2, <2>3 DEF Found, NamesFound, AlbumFound
  <2> QED BY <2>1, <2>3, <2>4 DEF FoundInv, Found, TracksComplete
<1>4. ASSUME \/ UNCHANGED vars
             \/ \E w \in Workers, full \in BOOLEAN : Accept(w, full)
             \/ \E f \in Files, m \in Times : Touch(f, m)
      PROVE  FoundInv'
  <2>1. UNCHANGED <<track, artists, albums, scan>>
    BY <1>4 DEF Accept, Touch, vars, database
  <2> QED BY <2>1 DEF FoundInv, TracksComplete, NamesFound, AlbumFound
<1> QED BY <1>2, <1>3, <1>4 DEF Next

\* TracksComplete for any scans at once: whatever crashes, deadlocks and skipped
\* files come in between, a track is never without its artists and its album.
THEOREM TracksWhole == Spec => []TracksComplete
<1>1. Init => FoundInv
  BY DEF Init, FoundInv, TracksComplete, NamesFound, AlbumFound, Resting, NamedSteps
<1>2. ScanInv /\ FoundInv /\ [Next]_vars => FoundInv'
  BY FoundNext
<1>3. FoundInv => TracksComplete
  BY DEF FoundInv
<1> QED BY <1>1, <1>2, <1>3, ScanInvariant, PTL DEF Spec

-----------------------------------------------------------------------------
(* The library that readers see *)

\* Every track is whole, so what is whole is what is there.
LEMMA WholeIsKept ==
  ASSUME TracksComplete
  PROVE  Whole = {f \in Files : track[f] # NoRow}
BY DEF TracksComplete, Whole

\* One commit is one step of the library, the removal of what is stale another,
\* and nothing else is seen.
LEMMA LibraryStep ==
  ASSUME ScanInv, TracksComplete, TracksComplete', [Next]_vars
  PROVE  Shelf!Next \/ UNCHANGED <<track, Whole>>
<1>1. /\ track \in [Files -> Row]
      /\ Whole = {f \in Files : track[f] # NoRow}
      /\ Whole' = {f \in Files : track'[f] # NoRow}
  <2>1. Whole' = {f \in Files : track'[f] # NoRow}
    BY DEF TracksComplete, Whole
  <2> QED BY <2>1, WholeIsKept DEF ScanInv, TypeOK
<1>2. ASSUME UNCHANGED track PROVE UNCHANGED <<track, Whole>>
  BY <1>1, <1>2
<1>3. ASSUME NEW w \in Workers, Commit(w) PROVE Shelf!Next
  <2> DEFINE f == scan[w].file
             row == [content |-> scan[w].content, mtime |-> scan[w].mtime]
  <2>1. f \in Files /\ scan[w].content # 0
    BY <1>3 DEF Commit, ScanInv, TypeOK, ScanInfo, ScanOK, FileSteps
  <2>2. track' = [track EXCEPT ![f] = row]
    BY <1>3 DEF Commit
  <2>3. row # NoRow
    BY <2>1 DEF NoRow
  <2> HIDE DEF f, row
  <2>4. track'[f] = row /\ Whole' = Whole \cup {f}
    BY <1>1, <2>1, <2>2, <2>3
  <2>5. Shelf!Put(f)
    BY <2>2, <2>3, <2>4 DEF Shelf!Put
  <2> QED BY <2>1, <2>5 DEF Shelf!Next
<1>4. ASSUME NEW w \in Workers, DeleteStale(w) PROVE Shelf!Next \/ UNCHANGED track
  <2> DEFINE gone == {f \in scan[w].stale : track[f] # NoRow}
  <2>1. CASE track' = [f \in Files |-> IF f \in scan[w].stale THEN NoRow ELSE track[f]]
    <3>1. scan[w].stale \subseteq Files
      BY DEF ScanInv, TypeOK, ScanInfo
    <3>2. gone \in SUBSET Files /\ gone \subseteq Shelf!Kept
      BY <3>1 DEF Shelf!Kept
    <3>3. \A f \in Files : (IF f \in scan[w].stale THEN NoRow ELSE track[f])
                             = (IF f \in gone THEN NoRow ELSE track[f])
      OBVIOUS
    <3>4. track' = [f \in Files |-> IF f \in gone THEN NoRow ELSE track[f]]
      BY <2>1, <3>3
    <3> HIDE DEF gone
    <3>5. Whole' = Whole \ gone
      BY <1>1, <3>4
    <3>6. Shelf!Remove(gone)
      BY <3>2, <3>4, <3>5 DEF Shelf!Remove
    <3> QED BY <3>2, <3>6 DEF Shelf!Next
  <2> QED BY <1>4, <2>1 DEF DeleteStale, KeepData, database
<1>5. ASSUME NEW w \in Workers, Step(w) PROVE Shelf!Next \/ UNCHANGED track
  BY <1>3, <1>4, <1>5, StepKeepsRows
<1> QED BY <1>2, <1>5 DEF Next, Crash, Accept, Touch, vars, database

\* KeepsLibrary for any scans at once: a reader of the tables never sees half a
\* track, nor a track that a commit of another one, a rollback or a deadlock has
\* changed or broken.
THEOREM LibraryKept == Spec => KeepsLibrary
<1>1. Init => Shelf!Init
  BY DEF Init, Shelf!Init, Whole
<1>2. ScanInv /\ TracksComplete /\ TracksComplete' /\ [Next]_vars => [Shelf!Next]_(Shelf!vars)
  BY LibraryStep DEF Shelf!vars
<1> QED BY <1>1, <1>2, TracksWhole, ScanInvariant, PTL DEF Spec, KeepsLibrary, Shelf!Spec

-----------------------------------------------------------------------------
(* Albums without overlap *)

\* The part of AloneInv about one scan.
AlbumNew(w) ==
  /\ scan[w].pc = "addalbum" => albums[AlbumOf[scan[w].file]] = 0
  /\ scan[w].album => /\ scan[w].pc \in {"upsert", "relink", "commit"}
                      /\ AlbumOf[scan[w].file] # None
                      /\ albums[AlbumOf[scan[w].file]] = 0

\* Behind an artist comes the next one, or the album.
LEMMA AfterNameGoesOn ==
  ASSUME ScanInv, NEW w \in Workers, NEW s \in ScanInfo, AfterName(w, s)
  PROVE  scan'[w].pc \in {"artist", "album"} /\ scan'[w].album = s.album
<1>1. scan'[w] = IF s.at < Len(NamesOf[s.file]) THEN [s EXCEPT !.pc = "artist", !.at = @ + 1]
                                                ELSE [s EXCEPT !.pc = "album"]
  BY DEF ScanInv, TypeOK, AfterName
<1>2. CASE s.at < Len(NamesOf[s.file])
  BY <1>1, <1>2 DEF ScanInfo
<1>3. CASE ~(s.at < Len(NamesOf[s.file]))
  BY <1>1, <1>3 DEF ScanInfo
<1> QED BY <1>2, <1>3

\* That two scans have overlapped is never forgotten.
LEMMA OverlapKept ==
  ASSUME [Next]_vars, overlap PROVE overlap'
<1>1. ASSUME NEW w \in Workers, Step(w) PROVE overlap'
  <2>1. CASE Begin(w)
    BY <2>1 DEF Begin
  <2>2. CASE ReadKnown(w) \/ Stat(w) \/ FindArtist(w) \/ AddArtist(w)
    BY <2>2 DEF ReadKnown, Stat, FindArtist, AddArtist, AfterName, SkipFile, RaiseInTry, KeepData,
                Keep, history
  <2>3. CASE FindAlbum(w) \/ AddAlbum(w) \/ Upsert(w) \/ Relink(w)
    BY <2>3 DEF FindAlbum, AddAlbum, Upsert, Relink, GoUpsert, SkipFile, RaiseInTry, KeepData, Keep,
                history
  <2>4. CASE \/ Commit(w) \/ ListStale(w) \/ IssueUnlink(w) \/ Unlink(w) \/ DeleteStale(w)
             \/ DeadlockVictim(w)
    BY <2>4 DEF Commit, ListStale, IssueUnlink, Unlink, DeleteStale, DeadlockVictim, Done,
                RaiseInTry, KeepData, Keep, history
  <2>5. ASSUME NEW f \in Files, TakeFile(w, f) PROVE overlap'
    BY <2>5 DEF TakeFile, Keep, history
  <2> QED BY <1>1, <2>1, <2>2, <2>3, <2>4, <2>5 DEF Step
<1>2. CASE UNCHANGED vars
  BY <1>2 DEF vars, history
<1> QED BY <1>1, <1>2 DEF Next, Crash, Accept, Touch, history

\* What a step of a scan that does not commit does about the album of its file.
AlbumMove(s, t) ==
  \/ t.pc \notin FileSteps \ {"stat"}
  \/ /\ s.pc \in {"stat", "artist", "addartist"} /\ t.pc \in {"artist", "addartist", "album"}
     /\ t.album = s.album
  \/ /\ t.file = s.file /\ t.album = s.album /\ s.pc = "album"
     /\ t.pc = "upsert" \/ (t.pc = "addalbum" /\ albums[AlbumOf[s.file]] = 0)
  \/ t.file = s.file /\ s.pc = "addalbum" /\ t.pc = "upsert"
  \/ /\ t.file = s.file /\ t.album = s.album
     /\ s.pc \in {"upsert", "relink"} /\ t.pc \in {"relink", "commit"}

LEMMA AlbumMoves ==
  ASSUME ScanInv, NEW w \in Workers, Step(w), ~Commit(w)
  PROVE  AlbumMove(scan[w], scan'[w])
<1>1. scan[w] \in ScanInfo /\ ScanOK(scan[w]) /\ scan \in [Workers -> ScanInfo]
  BY DEF ScanInv, TypeOK
<1>4. CASE scan'[w].pc \notin FileSteps \ {"stat"}
  BY <1>4 DEF AlbumMove
<1>5. CASE AddArtist(w) \/ FindArtist(w) \/ Stat(w)
  <2>1. CASE SkipFile(w) \/ RaiseInTry(w)
    <3>1. scan'[w] \in {Resting, NextFile(scan[w])}
      BY <1>1, <2>1 DEF SkipFile, RaiseInTry, Raise
    <3> QED BY <1>1, <1>4, <3>1, NextFileRests DEF Resting, FileSteps
  <2>2. CASE ~SkipFile(w) /\ ~RaiseInTry(w)
    <3>1. scan'[w].pc \in {"artist", "album", "addartist"} /\ scan'[w].album = scan[w].album
      <4>1. CASE Stat(w)
        BY <1>1, <2>2, <4>1 DEF Stat, ScanInfo
      <4>2. CASE FindArtist(w)
        <5>1. AfterName(w, scan[w]) \/ Goto(w, "addartist")
          BY <4>2 DEF FindArtist
        <5>2. Goto(w, "addartist") => scan'[w].pc = "addartist" /\ scan'[w].album = scan[w].album
          BY <1>1 DEF Goto, ScanInfo
        <5> QED BY <1>1, <5>1, <5>2, AfterNameGoesOn
      <4>3. CASE AddArtist(w)
        <5> DEFINE s == [scan[w] EXCEPT !.names = @ \cup {Name(w)}]
        <5>1. AfterName(w, s)
          BY <2>2, <4>3 DEF AddArtist
        <5>2. s \in ScanInfo
          <6>1. Name(w) \in Artists
            <7>1. scan[w].file \in Files /\ scan[w].at \in DOMAIN NamesOf[scan[w].file]
              BY <1>1, <4>3 DEF AddArtist, ScanOK, FileSteps, ScanInfo
            <7> QED BY <7>1, TagAssumption DEF Name
          <6> QED BY <1>1, <6>1 DEF ScanInfo
        <5>3. s.album = scan[w].album
          BY <1>1 DEF ScanInfo
        <5> HIDE DEF s
        <5> QED BY <5>1, <5>2, <5>3, AfterNameGoesOn
      <4> QED BY <1>5, <4>1, <4>2, <4>3
    <3>2. scan[w].pc \in {"stat", "artist", "addartist"}
      BY <1>5 DEF AddArtist, FindArtist, Stat
    <3> QED BY <3>1, <3>2 DEF AlbumMove
  <2> QED BY <2>1, <2>2
<1>6. ASSUME FindAlbum(w) \/ AddAlbum(w), scan'[w].pc \in FileSteps \ {"stat"}
      PROVE  AlbumMove(scan[w], scan'[w])
  <2>1. ~RaiseInTry(w)
    BY <1>1, <1>6 DEF RaiseInTry, Raise, Resting, FileSteps
  <2>2. CASE FindAlbum(w)
    <3>1. /\ scan'[w].file = scan[w].file /\ scan'[w].album = scan[w].album
          /\ scan[w].pc = "album"
          /\ scan'[w].pc \in {"addalbum", "upsert"}
          /\ scan'[w].pc = "addalbum" => albums[AlbumOf[scan[w].file]] = 0
      BY <1>1, <2>1, <2>2 DEF FindAlbum, GoUpsert, Goto, ScanInfo
    <3> QED BY <3>1 DEF AlbumMove
  <2>3. CASE AddAlbum(w)
    <3> DEFINE s == [scan[w] EXCEPT !.album = TRUE]
    <3>1. s \in ScanInfo /\ s.file = scan[w].file
      BY <1>1 DEF ScanInfo
    <3>2. scan'[w] = [s EXCEPT !.pc = "upsert"] /\ scan[w].pc = "addalbum"
      BY <1>1, <2>1, <2>3 DEF AddAlbum, GoUpsert
    <3> HIDE DEF s
    <3>3. scan'[w].pc = "upsert" /\ scan'[w].file = scan[w].file
      BY <3>1, <3>2 DEF ScanInfo
    <3> QED BY <3>2, <3>3 DEF AlbumMove
  <2> QED BY <1>6, <2>2, <2>3
<1>7. CASE Upsert(w) \/ Relink(w)
  <2>1. CASE SkipFile(w)
    <3>1. scan'[w] = NextFile(scan[w])
      BY <1>1, <2>1 DEF SkipFile
    <3> QED BY <1>1, <1>4, <3>1, NextFileRests DEF FileSteps
  <2>2. CASE ~SkipFile(w)
    <3>1. /\ scan'[w].file = scan[w].file /\ scan'[w].album = scan[w].album
          /\ scan[w].pc \in {"upsert", "relink"} /\ scan'[w].pc \in {"relink", "commit"}
      BY <1>1, <1>7, <2>2 DEF Upsert, Relink, Goto, ScanInfo
    <3> QED BY <3>1 DEF AlbumMove
  <2> QED BY <2>1, <2>2
<1>8. CASE \/ Begin(w) \/ ReadKnown(w) \/ ListStale(w) \/ IssueUnlink(w) \/ Unlink(w)
           \/ DeleteStale(w) \/ DeadlockVictim(w)
  <2>1. scan'[w].pc \in {"idle", "next", "known", "issue", "unlink", "delete"}
    <3>1. Begin(w) => scan'[w].pc \in {"next", "known"}
      BY BeginStarts
    <3>2. ReadKnown(w) => scan'[w].pc = "next"
      BY <1>1 DEF ReadKnown, ScanInfo
    <3>3. ListStale(w) => scan'[w].pc \in {"idle", "issue"}
      BY <1>1 DEF ListStale, Raise, Resting, ScanInfo
    <3>4. IssueUnlink(w) \/ Unlink(w) => scan'[w].pc \in {"unlink", "delete"}
      BY <1>1 DEF IssueUnlink, Unlink, Goto, ScanInfo
    <3>5. DeleteStale(w) \/ DeadlockVictim(w) => scan'[w].pc = "idle"
      BY <1>1 DEF DeleteStale, DeadlockVictim, RaiseInTry, Raise, Resting
    <3> QED BY <1>8, <3>1, <3>2, <3>3, <3>4, <3>5
  <2> QED BY <1>4, <2>1 DEF FileSteps
<1>9. ASSUME NEW f \in Files, TakeFile(w, f) PROVE AlbumMove(scan[w], scan'[w])
  <2> DEFINE s == [scan[w] EXCEPT !.todo = @ \ {f}]
             t == [s EXCEPT !.pc = "stat", !.file = f, !.content = disk[f]]
  <2>1. scan'[w] \in {Resting, s, t} /\ scan[w].pc = "next"
    BY <1>1, <1>9 DEF TakeFile, Raise
  <2>2. s.pc = scan[w].pc /\ t.pc = "stat"
    BY <1>1 DEF ScanInfo
  <2> HIDE DEF s, t
  <2>3. scan'[w].pc \in {"idle", "next", "stat"}
    BY <2>1, <2>2 DEF Resting
  <2> QED BY <1>4, <2>3 DEF FileSteps
<1> QED BY <1>4, <1>5, <1>6, <1>7, <1>8, <1>9 DEF Step

\* A step that keeps the albums keeps what its own scan knows of its album.
LEMMA OwnAlbum ==
  ASSUME ScanInv, NEW w \in Workers, Found(w), AlbumNew(w), Step(w), ~Commit(w)
  PROVE  AlbumNew(w)'
<1>1. albums' = albums /\ AlbumMove(scan[w], scan'[w])
  BY StepKeepsRows, AlbumMoves
<1>2. ScanInv'
  BY NextScan DEF Next
<1>3. CASE scan'[w].pc \notin FileSteps \ {"stat"}
  BY <1>2, <1>3 DEF ScanInv, ScanOK, AlbumNew, FileSteps
<1>4. CASE scan'[w].pc \in FileSteps \ {"stat"}
  BY <1>1, <1>4 DEF AlbumMove, AlbumNew, Found, AlbumFound
<1> QED BY <1>3, <1>4

LEMMA AloneNext ==
  ASSUME ScanInv, FoundInv, AloneInv, [Next]_vars PROVE AloneInv'
<1> SUFFICES ASSUME ~overlap'
             PROVE  /\ \A w, q \in Workers : Active(w)' /\ Active(q)' => w = q
                    /\ \A w \in Workers : AlbumNew(w)'
                    /\ \A a \in Albums : albums'[a] <= 1
  BY DEF AloneInv, AlbumNew
<1>1. ~overlap
  BY OverlapKept
<1>2. /\ \A w, q \in Workers : Active(w) /\ Active(q) => w = q
      /\ \A w \in Workers : AlbumNew(w)
      /\ \A a \in Albums : albums[a] <= 1
      /\ scan \in [Workers -> ScanInfo] /\ albums \in [Albums -> Nat]
  BY <1>1 DEF AloneInv, AlbumNew, ScanInv, TypeOK
<1>3. ASSUME NEW w \in Workers, Step(w)
      PROVE  /\ \A p, q \in Workers : Active(p)' /\ Active(q)' => p = q
             /\ \A q \in Workers : AlbumNew(q)'
             /\ \A a \in Albums : albums'[a] <= 1
  <2>1. \A q \in Workers : q # w => SameWork(scan[q], scan'[q])
    BY <1>3, OthersKeep
  <2>2. \A q \in Workers : q # w => (Active(q)' <=> Active(q))
    BY <2>1 DEF SameWork, Active
  <2>3. \A p, q \in Workers : Active(p)' /\ Active(q)' => p = q
    <3>1. CASE Begin(w)
      <4>1. Others(w) = {}
        BY <3>1 DEF Begin
      <4> QED BY <2>2, <4>1 DEF Others
    <3>2. CASE ~Begin(w)
      BY <1>2, <1>3, <3>2, StepKeepsStatus
    <3> QED BY <3>1, <3>2
  <2>4. CASE Commit(w)
    <3>1. Active(w) /\ scan[w].pc = "commit"
      BY <2>4 DEF Commit, Active
    <3>2. scan'[w] = NextFile(scan[w])
      BY <2>4 DEF Commit
    <3>3. AlbumNew(w)'
      BY <1>2, <3>2, NextFileRests DEF AlbumNew
    <3>4. ASSUME NEW q \in Workers, q # w PROVE AlbumNew(q)'
      <4>1. ~Active(q)
        BY <1>2, <3>1, <3>4
      <4>2. scan[q].pc = "idle" /\ ~scan[q].album
        BY <1>2, <4>1 DEF Active, AlbumNew
      <4> QED BY <2>1, <3>4, <4>2 DEF AlbumNew, SameWork
    <3>5. ASSUME NEW a \in Albums PROVE albums'[a] <= 1
      <4>1. scan[w].album /\ a = AlbumOf[scan[w].file] => albums[a] = 0
        BY <1>2 DEF AlbumNew
      <4>2. albums[a] <= 1 /\ albums[a] \in Nat
        BY <1>2
      <4>3. albums'[a] = IF scan[w].album /\ a = AlbumOf[scan[w].file] THEN albums[a] + 1
                                                                       ELSE albums[a]
        BY <2>4 DEF Commit
      <4> QED BY <4>1, <4>2, <4>3
    <3> QED BY <2>3, <3>3, <3>4, <3>5
  <2>5. CASE ~Commit(w)
    <3>1. albums' = albums
      BY <1>3, <2>5, StepKeepsRows
    <3>2. AlbumNew(w)'
      BY <1>2, <1>3, <2>5, OwnAlbum DEF FoundInv, Found
    <3>3. \A q \in Workers : q # w => AlbumNew(q)'
      BY <1>2, <2>1, <3>1 DEF AlbumNew, SameWork
    <3> QED BY <1>2, <2>3, <3>1, <3>2, <3>3
  <2> QED BY <2>4, <2>5
<1>4. ASSUME NEW w \in Workers, Crash(w)
      PROVE  /\ \A p, q \in Workers : Active(p)' /\ Active(q)' => p = q
             /\ \A q \in Workers : AlbumNew(q)'
             /\ \A a \in Albums : albums'[a] <= 1
  <2>1. scan' = [scan EXCEPT ![w] = Resting] /\ albums' = albums
    BY <1>4 DEF Crash, Raise, database
  <2>2. \A q \in Workers : scan'[q] = IF q = w THEN Resting ELSE scan[q]
    BY <1>2, <2>1
  <2>3. Resting.pc = "idle" /\ ~Resting.album
    BY DEF Resting
  <2> QED BY <1>2, <2>1, <2>2, <2>3 DEF Active, AlbumNew
<1>5. ASSUME \/ UNCHANGED vars
             \/ \E w \in Workers, full \in BOOLEAN : Accept(w, full)
             \/ \E f \in Files, m \in Times : Touch(f, m)
      PROVE  /\ \A p, q \in Workers : Active(p)' /\ Active(q)' => p = q
             /\ \A q \in Workers : AlbumNew(q)'
             /\ \A a \in Albums : albums'[a] <= 1
  <2>1. UNCHANGED <<albums, scan>>
    BY <1>5 DEF Accept, Touch, vars, database
  <2> QED BY <1>2, <2>1 DEF Active, AlbumNew
<1> QED BY <1>3, <1>4, <1>5 DEF Next

-----------------------------------------------------------------------------
(* Albums with overlap *)

\* The scans that have not found album a and are about to insert it, or have
\* done so and not committed.
Inserters(a) ==
  {w \in Workers : /\ AlbumOf[scan[w].file] = a
                   /\ scan[w].pc = "addalbum" \/ scan[w].album}

\* Every row of an album has an inserter of its own.
InsertersLeft ==
  /\ \A w \in Workers : scan[w].album => scan[w].pc \in {"upsert", "relink", "commit"}
  /\ \A a \in Albums : albums[a] + Cardinality(Inserters(a)) <= Cardinality(Workers)

LEMMA InsertersFinite ==
  ASSUME NEW a
  PROVE  /\ IsFiniteSet(Inserters(a)) /\ Cardinality(Inserters(a)) \in Nat
         /\ Cardinality(Inserters(a)) <= Cardinality(Workers)
         /\ Cardinality(Workers) \in Nat
<1>1. Inserters(a) \subseteq Workers
  BY DEF Inserters
<1> QED BY <1>1, FiniteAssumption, FS_Subset, FS_CardinalityType

\* Whoever becomes an inserter has seen no row, and has inserted nothing before.
LEMMA NewInserter ==
  ASSUME ScanInv, InsertersLeft, NEW w \in Workers, Step(w)
  PROVE  /\ scan'[w].album => scan'[w].pc \in {"upsert", "relink", "commit"}
         /\ \A a \in Albums :
              w \in Inserters(a)' => ~Commit(w) /\ (w \in Inserters(a) \/ albums[a] = 0)
<1>1. ScanInv'
  BY NextScan DEF Next
<1>2. CASE scan'[w].pc \notin FileSteps \ {"stat"}
  <2>1. ~scan'[w].album /\ scan'[w].pc # "addalbum"
    BY <1>1, <1>2 DEF ScanInv, ScanOK, FileSteps
  <2> QED BY <2>1 DEF Inserters
<1>3. CASE scan'[w].pc \in FileSteps \ {"stat"}
  <2>1. ~Commit(w)
    <3>1. Commit(w) => scan'[w] = NextFile(scan[w]) /\ scan[w] \in ScanInfo
      BY DEF Commit, ScanInv, TypeOK
    <3> QED BY <1>3, <3>1, NextFileRests DEF FileSteps
  <2>2. AlbumMove(scan[w], scan'[w])
    BY <2>1, AlbumMoves
  <2>3. scan[w].album => scan[w].pc \in {"upsert", "relink", "commit"}
    BY DEF InsertersLeft
  <2> QED BY <1>3, <2>1, <2>2, <2>3 DEF AlbumMove, Inserters
<1> QED BY <1>2, <1>3

\* As long as there is no row there may be an inserter in each worker; after that
\* there are no new ones.
LEMMA InsertersStep ==
  ASSUME ScanInv, InsertersLeft, NEW w \in Workers, Step(w)
  PROVE  InsertersLeft'
<1>1. \A q \in Workers : q # w => SameWork(scan[q], scan'[q])
  BY OthersKeep
<1>2. \A q \in Workers : scan'[q].album => scan'[q].pc \in {"upsert", "relink", "commit"}
  BY <1>1, NewInserter DEF InsertersLeft, SameWork
<1>3. ASSUME NEW a \in Albums
      PROVE  albums'[a] + Cardinality(Inserters(a)') <= Cardinality(Workers)
  <2> DEFINE I == Inserters(a)  J == Inserters(a)'
  <2>1. /\ albums[a] \in Nat /\ IsFiniteSet(I) /\ Cardinality(I) \in Nat
        /\ Cardinality(Workers) \in Nat /\ albums[a] + Cardinality(I) <= Cardinality(Workers)
    BY InsertersFinite DEF ScanInv, TypeOK, InsertersLeft
  <2>2. J \subseteq I \cup {w}
    BY <1>1 DEF Inserters, SameWork
  <2>3. Cardinality(J) \in Nat /\ Cardinality(J) <= Cardinality(Workers)
    <3>1. J \subseteq Workers
      BY DEF Inserters
    <3> QED BY <3>1, FiniteAssumption, FS_Subset, FS_CardinalityType
  <2>4. CASE Commit(w)
    <3>1. w \notin J
      BY <2>4, NewInserter
    <3>2. albums'[a] = IF scan[w].album /\ a = AlbumOf[scan[w].file] THEN albums[a] + 1
                                                                     ELSE albums[a]
      BY <2>4 DEF Commit
    <3>3. scan[w].album /\ a = AlbumOf[scan[w].file] => w \in I
      BY DEF Inserters
    <3> HIDE DEF I, J
    <3>4. /\ Cardinality(J) <= Cardinality(I)
          /\ w \in I => Cardinality(J) <= Cardinality(I) - 1
      <4>1. J \subseteq I /\ J \subseteq I \ {w}
        BY <2>2, <3>1
      <4>2. Cardinality(J) <= Cardinality(I)
        BY <2>1, <4>1, FS_Subset
      <4>3. IsFiniteSet(I \ {w}) /\ Cardinality(I \ {w}) =
              IF w \in I THEN Cardinality(I) - 1 ELSE Cardinality(I)
        BY <2>1, FS_RemoveElement
      <4>4. Cardinality(J) <= Cardinality(I \ {w})
        BY <4>1, <4>3, FS_Subset
      <4> QED BY <4>2, <4>3, <4>4
    <3>5. albums'[a] + Cardinality(J) <= Cardinality(Workers)
      BY <2>1, <2>3, <3>2, <3>3, <3>4
    <3> QED BY <3>5 DEF J
  <2>5. CASE ~Commit(w)
    <3>1. albums'[a] = albums[a]
      BY <2>5, StepKeepsRows
    <3>2. J \subseteq I \/ albums[a] = 0
      BY <2>2, NewInserter
    <3> HIDE DEF I, J
    <3>3. J \subseteq I => Cardinality(J) <= Cardinality(I)
      BY <2>1, FS_Subset
    <3>4. albums'[a] + Cardinality(J) <= Cardinality(Workers)
      BY <2>1, <2>3, <3>1, <3>2, <3>3
    <3> QED BY <3>4 DEF J
  <2> QED BY <2>4, <2>5
<1> QED BY <1>2, <1>3 DEF InsertersLeft

LEMMA InsertersNext ==
  ASSUME ScanInv, InsertersLeft, [Next]_vars PROVE InsertersLeft'
<1>1. ASSUME NEW w \in Workers, Step(w) PROVE InsertersLeft'
  BY <1>1, InsertersStep
<1>2. ASSUME NEW w \in Workers, Crash(w) PROVE InsertersLeft'
  <2>1. /\ \A q \in Workers : scan'[q] = IF q = w THEN Resting ELSE scan[q]
        /\ albums' = albums
    BY <1>2 DEF Crash, Raise, database, ScanInv, TypeOK
  <2>2. Resting.pc = "idle" /\ ~Resting.album
    BY DEF Resting
  <2>3. ASSUME NEW a \in Albums
        PROVE  albums'[a] + Cardinality(Inserters(a)') <= Cardinality(Workers)
    <3>1. Inserters(a)' \subseteq Inserters(a)
      BY <2>1, <2>2 DEF Inserters
    <3>2. /\ Cardinality(Inserters(a)') <= Cardinality(Inserters(a))
          /\ Cardinality(Inserters(a)') \in Nat
      BY <3>1, InsertersFinite, FS_Subset, FS_CardinalityType
    <3> QED BY <2>1, <3>2, InsertersFinite DEF InsertersLeft, ScanInv, TypeOK
  <2> QED BY <2>1, <2>2, <2>3 DEF InsertersLeft
<1>3. CASE UNCHANGED <<albums, scan>>
  BY <1>3 DEF InsertersLeft, Inserters
<1> QED BY <1>1, <1>2, <1>3 DEF Next, Accept, Touch, vars, database

\* Although the table has no unique index on the name, lookup and insert keep
\* albums unique as long as no two scans overlap, and to one row for each worker
\* if they do.
THEOREM AlbumsFew == Spec => []AlbumsBounded
<1>1. Init => AloneInv
  BY DEF Init, AloneInv, Active, Resting
<1>2. Init => FoundInv
  BY DEF Init, FoundInv, TracksComplete, NamesFound, AlbumFound, Resting, NamedSteps
<1>3. ScanInv /\ FoundInv /\ [Next]_vars => FoundInv'
  BY FoundNext
<1>4. ScanInv /\ FoundInv /\ AloneInv /\ [Next]_vars => AloneInv'
  BY AloneNext
<1>5. Init => InsertersLeft
  <2>1. ASSUME Init, NEW a \in Albums
        PROVE  albums[a] + Cardinality(Inserters(a)) <= Cardinality(Workers)
    <3>1. Inserters(a) = {} /\ albums[a] = 0
      BY <2>1 DEF Init, Inserters, Resting
    <3>2. Cardinality({}) = 0
      BY FS_EmptySet
    <3>3. Cardinality(Workers) \in Nat
      BY FiniteAssumption, FS_CardinalityType
    <3> QED BY <3>1, <3>2, <3>3
  <2>2. Init => \A w \in Workers : ~scan[w].album
    BY DEF Init, Resting
  <2> QED BY <2>1, <2>2 DEF InsertersLeft
<1>6. ScanInv /\ InsertersLeft /\ [Next]_vars => InsertersLeft'
  BY InsertersNext
<1>7. ScanInv /\ AloneInv /\ InsertersLeft => AlbumsBounded
  <2>1. ASSUME ScanInv, AloneInv, InsertersLeft, NEW a \in Albums
        PROVE  albums[a] <= IF overlap THEN Cardinality(Workers) ELSE 1
    <3>1. /\ albums[a] \in Nat /\ Cardinality(Inserters(a)) \in Nat
          /\ Cardinality(Workers) \in Nat
          /\ albums[a] + Cardinality(Inserters(a)) <= Cardinality(Workers)
      BY <2>1, InsertersFinite DEF ScanInv, TypeOK, InsertersLeft
    <3> QED BY <2>1, <3>1 DEF AloneInv
  <2> QED BY <2>1 DEF AlbumsBounded
<1> QED BY <1>1, <1>2, <1>3, <1>4, <1>5, <1>6, <1>7, ScanInvariant, PTL DEF Spec

-----------------------------------------------------------------------------
(* The way of a scan *)

\* The steps to the next file or to the end, at most.
NamesLeft(s) == Len(NamesOf[s.file]) - s.at
StepsLeft(s) ==
  CASE s.pc = "stat" -> 10 + 2 * Len(NamesOf[s.file])
    [] s.pc = "artist" -> 11 + 2 * NamesLeft(s)
    [] s.pc = "addartist" -> 10 + 2 * NamesLeft(s)
    [] s.pc = "album" -> 9
    [] s.pc = "addalbum" -> 8
    [] s.pc = "upsert" -> 7
    [] s.pc = "relink" -> 6
    [] s.pc \in {"commit", "known"} -> 5
    [] s.pc = "next" -> 4
    [] s.pc = "issue" -> 3
    [] s.pc = "unlink" -> 2
    [] s.pc = "delete" -> 1
    [] OTHER -> 0

\* Fewer files, or fewer steps of the same one.
Nearer(s, t) ==
  \/ t.todo \subseteq s.todo /\ t.todo # s.todo
  \/ t.todo = s.todo /\ StepsLeft(t) \in 0 .. StepsLeft(s) - 1

\* No scan ever goes back: whatever a scan meets, a lock, a deadlock, an error, a
\* crash, another scan, each of its steps brings it nearer to its end.
EveryScanAdvances ==
  [][\A w \in Workers : Active(w) =>
       \/ SameWork(scan[w], scan'[w])
       \/ Nearer(scan[w], scan'[w])]_vars

\* The lower bounds that the labels put on the steps left.
LEMMA StepsBounds ==
  ASSUME NEW s, Sound(s)
  PROVE  /\ StepsLeft(s) \in Nat
         /\ s.pc # "idle" => StepsLeft(s) > 0
         /\ s.pc \in FileSteps => StepsLeft(s) > 4
         /\ s.pc \in {"stat", "artist", "addartist"} => StepsLeft(s) > 9
         /\ s.pc \in FileSteps => s.file \in Files /\ Len(NamesOf[s.file]) \in Nat
         /\ s.pc \in {"artist", "addartist"} => s.at \in 1 .. Len(NamesOf[s.file])
<1>1. s.pc \in FileSteps => s.file \in Files /\ Len(NamesOf[s.file]) \in Nat
  BY TagAssumption DEF Sound, ScanOK, ScanInfo, FileSteps
<1>2. s.pc \in {"artist", "addartist"} => s.at \in 1 .. Len(NamesOf[s.file])
  <2>1. s.pc \in {"artist", "addartist"} => NamesOf[s.file] \in Seq(Artists)
    BY <1>1, TagAssumption DEF FileSteps
  <2> QED BY <2>1 DEF Sound, ScanOK
<1>3. s.pc \in Labels
  BY DEF Sound, ScanInfo
<1>4. CASE s.pc \in {"stat", "artist", "addartist"}
  <2> DEFINE n == Len(NamesOf[s.file])
  <2>1. n \in Nat /\ (s.pc # "stat" => s.at \in 1 .. n)
    BY <1>1, <1>2, <1>4 DEF FileSteps
  <2>2. StepsLeft(s) = CASE s.pc = "stat" -> 10 + 2 * n
                         [] s.pc = "artist" -> 11 + 2 * (n - s.at)
                         [] OTHER -> 10 + 2 * (n - s.at)
    BY <1>4 DEF StepsLeft, NamesLeft
  <2> HIDE DEF n
  <2>3. StepsLeft(s) \in Nat /\ StepsLeft(s) > 9
    BY <1>4, <2>1, <2>2
  <2> QED BY <1>1, <1>2, <2>3
<1>5. CASE s.pc \notin {"stat", "artist", "addartist"}
  <2>1. /\ StepsLeft(s) \in 0 .. 9
        /\ s.pc # "idle" => StepsLeft(s) > 0
        /\ s.pc \in FileSteps => StepsLeft(s) > 4
    BY <1>3, <1>5 DEF StepsLeft, FileSteps, Labels
  <2> QED BY <1>1, <1>2, <1>5, <2>1
<1> QED BY <1>4, <1>5

LEMMA RestIsNearer ==
  ASSUME NEW s, Sound(s), s.pc # "idle"
  PROVE  Nearer(s, Resting)
<1>1. Resting.todo = {} /\ StepsLeft(Resting) = 0
  BY DEF Resting, StepsLeft
<1> QED BY <1>1, StepsBounds DEF Nearer

LEMMA NextFileIsNearer ==
  ASSUME NEW s, Sound(s), s.pc \in FileSteps
  PROVE  Nearer(s, NextFile(s))
<1>1. NextFile(s).todo = s.todo /\ NextFile(s).pc = "next"
  BY DEF NextFile, Sound, ScanInfo
<1> QED BY <1>1, StepsBounds DEF Nearer, StepsLeft

\* A label further on, of those whose steps do not depend on the file.
LEMMA LabelIsNearer ==
  ASSUME NEW s, Sound(s), NEW t, t.todo = s.todo,
         \/ s.pc = "known" /\ t.pc = "next"
         \/ s.pc = "next" /\ t.pc = "issue"
         \/ s.pc = "issue" /\ t.pc = "unlink"
         \/ s.pc = "unlink" /\ t.pc = "delete"
         \/ s.pc = "upsert" /\ t.pc = "relink"
         \/ s.pc = "relink" /\ t.pc = "commit"
         \/ s.pc = "album" /\ t.pc = "addalbum"
         \/ s.pc \in {"album", "addalbum"} /\ t.pc = "upsert"
         \/ s.pc \in {"stat", "artist", "addartist"} /\ t.pc = "album"
         \/ s.pc = "stat" /\ t.pc = "artist" /\ t.file = s.file /\ t.at = 1
         \/ s.pc = "artist" /\ t.pc = "addartist" /\ t.file = s.file /\ t.at = s.at
         \/ /\ s.pc \in {"artist", "addartist"} /\ t.pc = "artist" /\ t.file = s.file
            /\ t.at = s.at + 1 /\ t.at <= Len(NamesOf[s.file])
  PROVE  Nearer(s, t)
<1> DEFINE n == Len(NamesOf[s.file])
<1>1. /\ s.pc \in {"stat", "artist", "addartist"} => n \in Nat /\ StepsLeft(s) > 9
      /\ s.pc \in {"artist", "addartist"} => s.at \in 1 .. n
      /\ StepsLeft(s) \in Nat
  BY StepsBounds DEF FileSteps
<1>2. CASE t.pc \notin {"artist", "addartist"}
  <2>1. CASE s.pc \in {"stat", "artist", "addartist"}
    <3>1. StepsLeft(t) = 9
      BY <1>2, <2>1 DEF StepsLeft
    <3> QED BY <1>1, <2>1, <3>1 DEF Nearer
  <2>2. CASE s.pc \notin {"stat", "artist", "addartist"}
    <3>1. StepsLeft(t) \in 0 .. StepsLeft(s) - 1
      BY <1>2, <2>2 DEF StepsLeft
    <3> QED BY <3>1 DEF Nearer
  <2> QED BY <2>1, <2>2
<1>3. CASE t.pc \in {"artist", "addartist"}
  <2> DEFINE before == StepsLeft(s)  after == StepsLeft(t)
  <2>1. /\ s.pc = "stat" => before = 10 + 2 * n
        /\ s.pc = "artist" => before = 11 + 2 * (n - s.at)
        /\ s.pc = "addartist" => before = 10 + 2 * (n - s.at)
        /\ t.pc = "artist" => after = 11 + 2 * (n - t.at)
        /\ t.pc = "addartist" => after = 10 + 2 * (n - t.at)
    BY <1>3 DEF StepsLeft, NamesLeft
  <2>2. \/ s.pc = "stat" /\ t.pc = "artist" /\ t.at = 1
        \/ s.pc = "artist" /\ t.pc = "addartist" /\ t.at = s.at
        \/ s.pc \in {"artist", "addartist"} /\ t.pc = "artist" /\ t.at = s.at + 1 /\ t.at <= n
    BY <1>3
  <2> HIDE DEF n, before, after
  <2>3. after \in 0 .. before - 1
    <3>1. CASE s.pc = "stat"
      BY <1>1, <2>1, <2>2, <3>1
    <3>2. CASE s.pc = "artist"
      BY <1>1, <2>1, <2>2, <3>2
    <3>3. CASE s.pc = "addartist"
      BY <1>1, <2>1, <2>2, <3>3
    <3> QED BY <2>2, <3>1, <3>2, <3>3
  <2> QED BY <2>3 DEF Nearer, before, after
<1> QED BY <1>2, <1>3

LEMMA AfterNameIsNearer ==
  ASSUME ScanInv, NEW w \in Workers, NEW s, Sound(s), s.pc \in {"artist", "addartist"},
         AfterName(w, s)
  PROVE  Nearer(s, scan'[w])
<1> DEFINE t == IF s.at < Len(NamesOf[s.file]) THEN [s EXCEPT !.pc = "artist", !.at = @ + 1]
                                               ELSE [s EXCEPT !.pc = "album"]
<1>1. scan'[w] = t
  BY DEF ScanInv, TypeOK, AfterName
<1>2. s.at \in 1 .. Len(NamesOf[s.file]) /\ Len(NamesOf[s.file]) \in Nat
  BY StepsBounds DEF FileSteps
<1>3. CASE s.at < Len(NamesOf[s.file])
  <2>1. /\ t.todo = s.todo /\ t.pc = "artist" /\ t.file = s.file /\ t.at = s.at + 1
        /\ t.at <= Len(NamesOf[s.file])
    BY <1>2, <1>3 DEF Sound, ScanInfo
  <2> HIDE DEF t
  <2> QED BY <1>1, <2>1, LabelIsNearer
<1>4. CASE ~(s.at < Len(NamesOf[s.file]))
  <2>1. t.todo = s.todo /\ t.pc = "album"
    BY <1>4 DEF Sound, ScanInfo
  <2> HIDE DEF t
  <2> QED BY <1>1, <2>1, LabelIsNearer
<1> QED BY <1>3, <1>4

\* A change of fields that the measure does not look at.
LEMMA SameIsNearer ==
  ASSUME NEW s, NEW r, NEW t, SameWork(s, r) \/ r = [s EXCEPT !.names = r.names], Nearer(r, t),
         s \in ScanInfo
  PROVE  Nearer(s, t)
<1>1. s.todo = r.todo /\ StepsLeft(s) = StepsLeft(r)
  BY DEF SameWork, StepsLeft, NamesLeft, ScanInfo
<1> QED BY <1>1 DEF Nearer

LEMMA StepIsNearer ==
  ASSUME ScanInv, StatusInv, NEW w \in Workers, Active(w), Step(w)
  PROVE  Nearer(scan[w], scan'[w])
<1> DEFINE s == scan[w]
<1>1. Sound(s) /\ s \in ScanInfo /\ scan \in [Workers -> ScanInfo] /\ s.pc # "idle"
  BY DEF ScanInv, TypeOK, Sound, Active
<1>2. Raise(w) \/ RaiseInTry(w) => Nearer(s, scan'[w])
  <2>1. Raise(w) \/ RaiseInTry(w) => scan'[w] = Resting
    BY <1>1 DEF Raise, RaiseInTry
  <2> QED BY <1>1, <2>1, RestIsNearer
<1>3. SkipFile(w) /\ s.pc \in FileSteps => Nearer(s, scan'[w])
  <2>1. SkipFile(w) => scan'[w] = NextFile(s)
    BY <1>1 DEF SkipFile
  <2> QED BY <1>1, <2>1, NextFileIsNearer
<1>4. ASSUME NEW l, Goto(w, l)
      PROVE  /\ scan'[w].pc = l /\ scan'[w].todo = s.todo /\ scan'[w].file = s.file
             /\ scan'[w].at = s.at
  BY <1>1, <1>4 DEF Goto, ScanInfo
<1>5. CASE Begin(w)
  BY <1>5 DEF Begin, StatusInv
<1>6. CASE ReadKnown(w) \/ Upsert(w) \/ Relink(w) \/ IssueUnlink(w) \/ Unlink(w)
  <2>1. CASE ReadKnown(w)
    <3>1. s.pc = "known" /\ scan'[w].pc = "next" /\ scan'[w].todo = s.todo
      BY <1>1, <2>1 DEF ReadKnown, ScanInfo
    <3> QED BY <1>1, <3>1, LabelIsNearer
  <2>2. CASE Upsert(w) \/ Relink(w)
    <3>1. CASE SkipFile(w)
      BY <1>3, <2>2, <3>1 DEF Upsert, Relink, FileSteps
    <3>2. CASE ~SkipFile(w)
      <4>1. \/ s.pc = "upsert" /\ Goto(w, "relink")
            \/ s.pc = "relink" /\ Goto(w, "commit")
        BY <2>2, <3>2 DEF Upsert, Relink
      <4> QED BY <1>1, <1>4, <4>1, LabelIsNearer
    <3> QED BY <3>1, <3>2
  <2>3. CASE IssueUnlink(w) \/ Unlink(w)
    <3>1. \/ s.pc = "issue" /\ Goto(w, "unlink")
          \/ s.pc = "unlink" /\ Goto(w, "delete")
      BY <2>3 DEF IssueUnlink, Unlink
    <3> QED BY <1>1, <1>4, <3>1, LabelIsNearer
  <2> QED BY <1>6, <2>1, <2>2, <2>3
<1>7. ASSUME NEW f \in Files, TakeFile(w, f) PROVE Nearer(s, scan'[w])
  <2> DEFINE r == [s EXCEPT !.todo = @ \ {f}]
             t == [r EXCEPT !.pc = "stat", !.file = f, !.content = disk[f]]
  <2>1. f \in s.todo /\ (scan'[w] \in {r, t} \/ Raise(w))
    BY <1>1, <1>7 DEF TakeFile
  <2>2. r.todo = s.todo \ {f} /\ t.todo = s.todo \ {f}
    BY <1>1 DEF ScanInfo
  <2>3. scan'[w] \in {r, t} => Nearer(s, scan'[w])
    BY <2>1, <2>2 DEF Nearer
  <2> QED BY <1>2, <2>1, <2>3
<1>8. CASE Stat(w)
  <2>1. CASE ~RaiseInTry(w)
    <3>1. /\ s.pc = "stat" /\ scan'[w].todo = s.todo /\ scan'[w].pc \in {"artist", "album"}
          /\ scan'[w].file = s.file /\ scan'[w].at = s.at
      BY <1>1, <1>8, <2>1 DEF Stat, ScanInfo
    <3>2. s.at = 1
      BY <1>1, <3>1 DEF Sound, ScanOK, FileSteps
    <3> QED BY <1>1, <3>1, <3>2, LabelIsNearer
  <2> QED BY <1>2, <2>1
<1>9. CASE FindArtist(w)
  <2>1. s.pc = "artist" /\ (AfterName(w, s) \/ Goto(w, "addartist"))
    BY <1>9 DEF FindArtist
  <2> QED BY <1>1, <1>4, <2>1, LabelIsNearer, AfterNameIsNearer
<1>10. CASE AddArtist(w)
  <2> DEFINE r == [s EXCEPT !.names = @ \cup {Name(w)}]
  <2>1. s.pc = "addartist" /\ (SkipFile(w) \/ AfterName(w, r))
    BY <1>10 DEF AddArtist
  <2>2. Sound(r) /\ r.pc = s.pc
    <3>1. s.file \in Files /\ NamesOf[s.file] \in Seq(Artists) /\ s.at \in DOMAIN NamesOf[s.file]
      BY <1>1, <2>1, TagAssumption DEF Sound, ScanOK, ScanInfo, FileSteps
    <3>2. Name(w) \in Artists
      BY <3>1 DEF Name
    <3> QED BY <1>1, <2>1, <3>2 DEF Sound, ScanOK, ScanInfo, FileSteps, StaleSteps
  <2>3. r = [s EXCEPT !.names = r.names]
    BY <1>1 DEF ScanInfo
  <2> HIDE DEF r
  <2>4. AfterName(w, r) => Nearer(s, scan'[w])
    BY <1>1, <2>1, <2>2, <2>3, AfterNameIsNearer, SameIsNearer
  <2> QED BY <1>3, <2>1, <2>4 DEF FileSteps
<1>11. CASE FindAlbum(w) \/ AddAlbum(w)
  <2>1. CASE ~RaiseInTry(w)
    <3>1. /\ s.pc \in {"album", "addalbum"} /\ scan'[w].todo = s.todo
          /\ \/ scan'[w].pc = "upsert"
             \/ s.pc = "album" /\ scan'[w].pc = "addalbum"
      <4>1. CASE FindAlbum(w)
        BY <1>1, <2>1, <4>1 DEF FindAlbum, GoUpsert, Goto, ScanInfo
      <4>2. CASE AddAlbum(w)
        <5> DEFINE r == [s EXCEPT !.album = TRUE]
        <5>1. r \in ScanInfo /\ r.todo = s.todo
          BY <1>1 DEF ScanInfo
        <5>2. scan'[w] = [r EXCEPT !.pc = "upsert"] /\ s.pc = "addalbum"
          BY <1>1, <2>1, <4>2 DEF AddAlbum, GoUpsert
        <5> HIDE DEF r
        <5> QED BY <5>1, <5>2 DEF ScanInfo
      <4> QED BY <1>11, <4>1, <4>2
    <3> QED BY <1>1, <3>1, LabelIsNearer
  <2> QED BY <1>2, <2>1
<1>12. CASE Commit(w)
  <2>1. scan'[w] = NextFile(s) /\ s.pc \in FileSteps
    BY <1>12 DEF Commit, FileSteps
  <2> QED BY <1>1, <2>1, NextFileIsNearer
<1>13. CASE ListStale(w)
  <2>1. CASE ~Raise(w)
    <3>1. s.pc = "next" /\ scan'[w].pc = "issue" /\ scan'[w].todo = s.todo
      BY <1>1, <1>13, <2>1 DEF ListStale, ScanInfo
    <3> QED BY <1>1, <3>1, LabelIsNearer
  <2> QED BY <1>2, <2>1
<1>14. CASE DeleteStale(w)
  <2>1. Raise(w) \/ scan'[w] = Resting
    BY <1>14 DEF DeleteStale
  <2> QED BY <1>1, <1>2, <2>1, RestIsNearer
<1>15. CASE DeadlockVictim(w)
  BY <1>2, <1>15 DEF DeadlockVictim
<1> QED BY <1>5, <1>6, <1>7, <1>8, <1>9, <1>10, <1>11, <1>12, <1>13, <1>14, <1>15 DEF Step

\* What is left of the claim that every scan ends is that somebody goes on: the
\* fairness of FairSpec.
THEOREM ScansAdvance == Spec => EveryScanAdvances
<1>1. Init => StatusInv
  BY DEF Init, StatusInv, Active, Resting
<1>2. ScanInv /\ StatusInv /\ [Next]_vars => StatusInv'
  BY StatusNext
<1>3. ASSUME ScanInv, StatusInv, [Next]_vars, NEW w \in Workers, Active(w)
      PROVE  SameWork(scan[w], scan'[w]) \/ Nearer(scan[w], scan'[w])
  <2>1. ASSUME NEW q \in Workers, Step(q)
        PROVE  SameWork(scan[w], scan'[w]) \/ Nearer(scan[w], scan'[w])
    BY <1>3, <2>1, StepIsNearer, OthersKeep
  <2>2. ASSUME NEW q \in Workers, Crash(q)
        PROVE  SameWork(scan[w], scan'[w]) \/ Nearer(scan[w], scan'[w])
    <3>1. Sound(scan[w]) /\ scan[w].pc # "idle" /\ scan'[w] \in {scan[w], Resting}
      BY <1>3, <2>2 DEF Crash, Raise, ScanInv, TypeOK, Sound, Active
    <3> QED BY <3>1, RestIsNearer DEF SameWork
  <2>3. CASE UNCHANGED scan
    BY <2>3 DEF SameWork
  <2> QED BY <1>3, <2>1, <2>2, <2>3 DEF Next, Accept, Touch, vars
<1>4. ScanInv /\ StatusInv /\ [Next]_vars =>
        [\A w \in Workers : Active(w) =>
           \/ SameWork(scan[w], scan'[w])
           \/ Nearer(scan[w], scan'[w])]_vars
  BY <1>3
<1> QED BY <1>1, <1>2, <1>4, ScanInvariant, PTL DEF Spec, EveryScanAdvances

=============================================================================
