-------------------------- MODULE ScanResultProofs --------------------------
(* Proofs about what a scan of MusicScan shows and leaves behind, for any
   workers, files, artists and albums. *)
EXTENDS MusicScanProofs

\* The percentage lags behind while a file is in hand, and is exact otherwise.
ProgressOf(w) ==
  Active(w) /\ scan[w].listed # {} =>
    /\ percentage[w] <= Percent(w)
    /\ scan[w].file = None => percentage[w] = Percent(w)
ProgressInv == \A w \in Workers : ProgressOf(w)

\* A file that names an artist twice never gets a row.
DuplicatedInv ==
  /\ \A f \in Files : f \in Duplicated => track[f] = NoRow
  /\ \A w \in Workers : scan[w].pc = "commit" => scan[w].file \notin Duplicated

\* The table has of f what a scan that has got through it promises.
Have(s, f) ==
  f \in Duplicated \/ /\ track[f].mtime >= disk[f]
                      /\ s.full => track[f] = [content |-> disk[f], mtime |-> disk[f]]

\* What a scan knows while nobody disturbs it is true.
CalmOf(s) ==
  /\ s.listed = {f \in Files : disk[f] # 0}
  /\ \A f \in s.listed \ s.todo : f # s.file => Have(s, f)
  /\ s.pc = "known" => s.todo = s.listed
  /\ ~s.full /\ s.pc # "known" => \A f \in s.todo : s.known[f] = track[f].mtime
  /\ s.file # None => s.file \notin s.todo /\ s.content = disk[s.file]
  /\ s.pc \in FileSteps \ {"stat"} => s.mtime = disk[s.file]
  /\ s.pc = "addartist" => NamesOf[s.file][s.at] \notin artists
  /\ s.pc \in StaleSteps => s.stale = {f \in Files : track[f] # NoRow /\ f \notin s.listed}
CalmInv ==
  \A w \in Workers : Active(w) /\ ~disturbed[w] => Others(w) = {} /\ CalmOf(scan[w])

-----------------------------------------------------------------------------
(* Percentages *)

LEMMA ShareGrows ==
  ASSUME NEW m \in Nat, NEW n \in Nat, NEW t \in Nat, t > 0, m <= n
  PROVE  (m * 100) \div t <= (n * 100) \div t
<1> DEFINE p == (m * 100) \div t
           q == (n * 100) \div t
<1>1. p \in Int /\ t * p <= m * 100
  <2>1. m * 100 = t * p + ((m * 100) % t) /\ (m * 100) % t \in 0 .. (t - 1) /\ p \in Int
    BY SMT
  <2> QED BY <2>1
<1>2. q \in Int /\ n * 100 < t * q + t
  <2>1. n * 100 = t * q + ((n * 100) % t) /\ (n * 100) % t \in 0 .. (t - 1) /\ q \in Int
    BY SMT
  <2> QED BY <2>1
<1> HIDE DEF p, q
<1>3. t * p < t * q + t
  BY <1>1, <1>2
<1>4. p <= q
  BY <1>1, <1>2, <1>3, SMT
<1> QED BY <1>4 DEF p, q

LEMMA ShareOfAll ==
  ASSUME NEW t \in Nat, t > 0 PROVE (t * 100) \div t = 100
<1> DEFINE q == (t * 100) \div t
<1>1. q \in Int /\ t * 100 = t * q + ((t * 100) % t) /\ (t * 100) % t \in 0 .. (t - 1)
  BY SMT
<1> HIDE DEF q
<1>2. t * q <= t * 100 /\ t * 100 < t * q + t
  BY <1>1
<1>3. q = 100
  BY <1>1, <1>2, SMT
<1> QED BY <1>3 DEF q

\* One file more has been reached.
LEMMA PercentGrows ==
  ASSUME NEW L \in SUBSET Files, NEW T \in SUBSET L, NEW U \in SUBSET T, L # {}
  PROVE  /\ ((Cardinality(L) - Cardinality(T)) * 100) \div Cardinality(L)
              <= ((Cardinality(L) - Cardinality(U)) * 100) \div Cardinality(L)
<1>1. IsFiniteSet(L) /\ IsFiniteSet(T) /\ IsFiniteSet(U)
  BY FiniteAssumption, FS_Subset
<1>2. Cardinality(U) <= Cardinality(T) /\ Cardinality(T) <= Cardinality(L)
  BY <1>1, FS_Subset
<1>3. Cardinality(L) \in Nat /\ Cardinality(T) \in Nat /\ Cardinality(U) \in Nat /\ Cardinality(L) # 0
  BY <1>1, FS_CardinalityType, FS_EmptySet
<1> DEFINE m == Cardinality(L) - Cardinality(T)
           n == Cardinality(L) - Cardinality(U)
           t == Cardinality(L)
<1>4. m \in Nat /\ n \in Nat /\ t \in Nat /\ t > 0 /\ m <= n
  BY <1>2, <1>3
<1> HIDE DEF m, n, t
<1>5. (m * 100) \div t <= (n * 100) \div t
  BY <1>4, ShareGrows
<1> QED BY <1>5 DEF m, n, t

\* A scan that has reached every file shows 100, one that has reached none 0.
LEMMA PercentEnds ==
  ASSUME NEW L \in SUBSET Files, L # {}
  PROVE  /\ ((Cardinality(L) - Cardinality({})) * 100) \div Cardinality(L) = 100
         /\ ((Cardinality(L) - Cardinality(L)) * 100) \div Cardinality(L) = 0
<1>1. IsFiniteSet(L)
  BY FiniteAssumption, FS_Subset
<1>2. Cardinality(L) \in Nat /\ Cardinality(L) > 0 /\ Cardinality({}) = 0
  BY <1>1, FS_CardinalityType, FS_EmptySet
<1> DEFINE t == Cardinality(L)
<1>3. t \in Nat /\ t > 0
  BY <1>2
<1> HIDE DEF t
<1>4. ((t - 0) * 100) \div t = 100
  BY <1>3, ShareOfAll
<1>5. ((t - t) * 100) \div t = 0
  BY <1>3, SMT
<1> QED BY <1>2, <1>4, <1>5 DEF t

-----------------------------------------------------------------------------
(* The progress that is shown *)

\* A step with a file in hand, or behind the last file, leaves listing and todo
\* alone; it leaves the percentage alone or brings it up to date.
LEMMA OwnProgress ==
  ASSUME ScanInv, NEW w \in Workers, Step(w), ~Begin(w), \A f \in Files : ~TakeFile(w, f)
  PROVE  /\ Active(w)' => scan'[w].listed = scan[w].listed /\ scan'[w].todo = scan[w].todo
         /\ \A q \in Workers \ {w} : percentage'[q] = percentage[q]
         /\ \/ percentage'[w] = percentage[w] /\ (Active(w)' => scan'[w].file = scan[w].file)
            \/ percentage'[w] = Percent(w) /\ scan[w].file # None
<1> DEFINE Goal ==
       /\ Active(w)' => scan'[w].listed = scan[w].listed /\ scan'[w].todo = scan[w].todo
       /\ \A q \in Workers \ {w} : percentage'[q] = percentage[q]
       /\ \/ percentage'[w] = percentage[w] /\ (Active(w)' => scan'[w].file = scan[w].file)
          \/ percentage'[w] = Percent(w) /\ scan[w].file # None
<1>1. /\ scan[w] \in ScanInfo /\ ScanOK(scan[w]) /\ scan \in [Workers -> ScanInfo]
      /\ percentage \in [Workers -> 0 .. 100]
  BY DEF ScanInv, TypeOK
<1>2. ASSUME RaiseInTry(w), scan[w].file # None PROVE Goal
  BY <1>1, <1>2 DEF RaiseInTry, Raise, Resting, Active
<1>3. ASSUME SkipFile(w), scan[w].file # None PROVE Goal
  BY <1>1, <1>3 DEF SkipFile, NextFile, ScanInfo
<1>4. ASSUME NEW s \in ScanInfo, s.listed = scan[w].listed, s.todo = scan[w].todo,
             s.file = scan[w].file, scan' = [scan EXCEPT ![w] = s], KeepData
      PROVE  Goal
  BY <1>1, <1>4 DEF KeepData, scanStates
<1>5. ASSUME NEW l \in Labels, Goto(w, l), KeepData PROVE Goal
  BY <1>1, <1>5 DEF Goto, KeepData, scanStates, ScanInfo
<1>6. scan[w].pc \in FileSteps => scan[w].file # None
  BY <1>1 DEF ScanOK
<1>7. ASSUME NEW s \in ScanInfo, s.listed = scan[w].listed, s.todo = scan[w].todo,
             s.file = scan[w].file, AfterName(w, s)
      PROVE  Goal
  BY <1>1, <1>7 DEF AfterName, KeepData, scanStates, ScanInfo
<1>8. ASSUME NEW s \in ScanInfo, s.listed = scan[w].listed, s.todo = scan[w].todo,
             s.file = scan[w].file, scan[w].file # None, GoUpsert(w, s)
      PROVE  Goal
  <2>1. CASE RaiseInTry(w)
    BY <1>2, <1>8, <2>1
  <2>2. CASE scan' = [scan EXCEPT ![w] = [s EXCEPT !.pc = "upsert"]] /\ KeepData
    BY <1>1, <1>8, <2>2 DEF KeepData, scanStates, ScanInfo
  <2> QED BY <1>8, <2>1, <2>2 DEF GoUpsert
<1>9. CASE ReadKnown(w)
  BY <1>1, <1>9 DEF ReadKnown, KeepData, scanStates, ScanInfo
<1>10. CASE Stat(w)
  <2>1. CASE RaiseInTry(w)
    BY <1>2, <1>6, <1>10, <2>1 DEF Stat, FileSteps
  <2>2. CASE ~RaiseInTry(w)
    BY <1>1, <1>10, <2>2 DEF Stat, KeepData, scanStates, ScanInfo
  <2> QED BY <2>1, <2>2
<1>11. CASE FindArtist(w)
  BY <1>1, <1>5, <1>7, <1>11 DEF FindArtist, Labels
<1>12. CASE AddArtist(w)
  <2>1. CASE SkipFile(w)
    BY <1>3, <1>6, <1>12, <2>1 DEF AddArtist, FileSteps
  <2>2. CASE ~SkipFile(w)
    <3> DEFINE s == [scan[w] EXCEPT !.names = @ \cup {Name(w)}]
    <3>1. AfterName(w, s)
      BY <1>12, <2>2 DEF AddArtist
    <3>2. Name(w) \in Artists
      BY <1>1, <1>12, TagAssumption DEF AddArtist, ScanOK, FileSteps, ScanInfo, Name
    <3>3. s \in ScanInfo /\ s.listed = scan[w].listed /\ s.todo = scan[w].todo /\ s.file = scan[w].file
      BY <1>1, <3>2 DEF ScanInfo
    <3> HIDE DEF s
    <3> QED BY <1>7, <3>1, <3>3
  <2> QED BY <2>1, <2>2
<1>13. CASE FindAlbum(w)
  <2>1. scan[w].file # None
    BY <1>6, <1>13 DEF FindAlbum, FileSteps
  <2> QED BY <1>1, <1>2, <1>5, <1>8, <1>13, <2>1 DEF FindAlbum, Labels
<1>14. CASE AddAlbum(w)
  <2> DEFINE s == [scan[w] EXCEPT !.album = TRUE]
  <2>1. s \in ScanInfo /\ s.listed = scan[w].listed /\ s.todo = scan[w].todo /\ s.file = scan[w].file
    BY <1>1 DEF ScanInfo
  <2>2. GoUpsert(w, s) /\ scan[w].file # None
    BY <1>6, <1>14 DEF AddAlbum, FileSteps
  <2> HIDE DEF s
  <2> QED BY <1>8, <2>1, <2>2
<1>15. CASE Upsert(w) \/ IssueUnlink(w) \/ Unlink(w)
  BY <1>5, <1>15 DEF Upsert, IssueUnlink, Unlink, Labels
<1>16. CASE Relink(w)
  BY <1>3, <1>5, <1>6, <1>16 DEF Relink, FileSteps, Labels
<1>17. CASE Commit(w)
  <2>1. scan'[w] = NextFile(scan[w]) /\ scan[w].file # None
    BY <1>6, <1>17 DEF Commit, FileSteps
  <2>2. percentage' = [percentage EXCEPT ![w] = Percent(w)]
    BY <1>17 DEF Commit
  <2> QED BY <1>1, <2>1, <2>2 DEF NextFile, ScanInfo
<1>18. CASE ListStale(w)
  BY <1>1, <1>18 DEF ListStale, Raise, Resting, Done, KeepData, scanStates, Active, ScanInfo
<1>19. CASE DeleteStale(w)
  BY <1>1, <1>19 DEF DeleteStale, Raise, Resting, Done, KeepData, scanStates, Active
<1>20. CASE DeadlockVictim(w)
  <2>1. CASE scan[w].file = None
    BY <1>1, <1>20, <2>1 DEF DeadlockVictim, Raise, Resting, KeepData, scanStates, Active
  <2>2. CASE scan[w].file # None
    BY <1>2, <1>20, <2>2 DEF DeadlockVictim
  <2> QED BY <2>1, <2>2
<1> QED BY <1>9, <1>10, <1>11, <1>12, <1>13, <1>14, <1>15, <1>16, <1>17, <1>18, <1>19, <1>20 DEF Step

\* The listing of a scan, and what it has not reached, are its own.
LEMMA OthersListing ==
  ASSUME ScanInv, NEW w \in Workers, Step(w), NEW q \in Workers, q # w
  PROVE  scan'[q].listed = scan[q].listed /\ scan'[q].todo = scan[q].todo
<1>1. scan[q] \in ScanInfo /\ scan \in [Workers -> ScanInfo]
  BY DEF ScanInv, TypeOK
<1>2. CASE Commit(w)
  BY <1>1, <1>2 DEF Commit, NoticeRelink, ScanInfo
<1>3. CASE DeleteStale(w)
  BY <1>1, <1>3 DEF DeleteStale, Raise, ScanInfo
<1>4. CASE ReadKnown(w) \/ Stat(w) \/ FindArtist(w) \/ AddArtist(w) \/ FindAlbum(w) \/ AddAlbum(w)
  BY <1>1, <1>4 DEF ReadKnown, Stat, FindArtist, AddArtist, FindAlbum, AddAlbum, AfterName,
     GoUpsert, SkipFile, RaiseInTry, Raise, Goto
<1>5. CASE \/ Upsert(w) \/ Relink(w) \/ ListStale(w) \/ IssueUnlink(w) \/ Unlink(w)
           \/ DeadlockVictim(w) \/ Begin(w)
  BY <1>1, <1>5 DEF Upsert, Relink, ListStale, IssueUnlink, Unlink, DeadlockVictim, Begin,
     SkipFile, RaiseInTry, Raise, Goto
<1>6. ASSUME NEW f \in Files, TakeFile(w, f) PROVE scan'[q] = scan[q]
  BY <1>1, <1>6 DEF TakeFile, Raise
<1> QED BY <1>2, <1>3, <1>4, <1>5, <1>6 DEF Step

LEMMA BeginProgress ==
  ASSUME ScanInv, NEW w \in Workers, Begin(w)
  PROVE  ProgressOf(w)' /\ \A q \in Workers \ {w} : percentage'[q] = percentage[q]
<1> DEFINE present == {f \in Files : disk[f] # 0}
<1>1. scan \in [Workers -> ScanInfo] /\ percentage \in [Workers -> 0 .. 100]
  BY DEF ScanInv, TypeOK
<1>2. scan'[w].listed = present /\ scan'[w].todo = present
  BY <1>1 DEF Begin, Resting
<1>3. percentage'[w] = 0 /\ \A q \in Workers \ {w} : percentage'[q] = percentage[q]
  BY <1>1 DEF Begin
<1>4. present \in SUBSET Files
  OBVIOUS
<1> HIDE DEF present
<1>5. present # {} => ((Cardinality(present) - Cardinality(present)) * 100) \div Cardinality(present) = 0
  BY <1>4, PercentEnds
<1>6. present # {} => Percent(w)' = 0
  BY <1>2, <1>5 DEF Percent
<1> QED BY <1>2, <1>3, <1>6 DEF ProgressOf

LEMMA TakeFileProgress ==
  ASSUME ScanInv, NEW w \in Workers, NEW f \in Files, TakeFile(w, f), ProgressOf(w)
  PROVE  /\ ProgressOf(w)' /\ percentage'[w] >= percentage[w]
         /\ \A q \in Workers \ {w} : percentage'[q] = percentage[q]
<1> DEFINE L == scan[w].listed
           T == scan[w].todo
           s == [scan[w] EXCEPT !.todo = @ \ {f}]
           p == ((Cardinality(L) - Cardinality(T \ {f})) * 100) \div Cardinality(L)
<1>1. /\ scan[w] \in ScanInfo /\ ScanOK(scan[w]) /\ scan \in [Workers -> ScanInfo]
      /\ percentage \in [Workers -> 0 .. 100]
  BY DEF ScanInv, TypeOK
<1>2. L \in SUBSET Files /\ T \in SUBSET L /\ f \in T
  BY <1>1 DEF ScanInfo, ScanOK, TakeFile
<1>3. percentage[w] = Percent(w) /\ scan[w].pc = "next" /\ scan[w].file = None
  BY <1>1, <1>2 DEF TakeFile, ScanOK, ProgressOf, Active, FileSteps
<1>4. s.listed = L /\ s.todo = T \ {f} /\ s.file = None /\ s.pc = "next"
  BY <1>1, <1>3 DEF ScanInfo
<1>5. percentage[w] <= p /\ p \in 0 .. 100
  <2>1. ((Cardinality(L) - Cardinality(T)) * 100) \div Cardinality(L) <= p
    BY <1>2, PercentGrows
  <2>2. p \in 0 .. 100
    BY <1>2, PercentOfFiles
  <2> QED BY <1>3, <2>1, <2>2 DEF Percent
<1>6. \A q \in Workers \ {w} : percentage'[q] = percentage[q]
  BY <1>1 DEF TakeFile
<1>7. percentage'[w] \in {percentage[w], p}
  BY <1>1, <1>4 DEF TakeFile
<1>8. \/ scan'[w] = Resting
      \/ scan'[w] = s /\ percentage'[w] = p
      \/ scan'[w] = [s EXCEPT !.pc = "stat", !.file = f, !.content = disk[f]]
  BY <1>1, <1>4 DEF TakeFile, Raise
<1>9. f # None
  BY NoneAssumption
<1>10. ProgressOf(w)'
  <2>1. CASE scan'[w] = Resting
    BY <2>1 DEF ProgressOf, Active, Resting
  <2>2. CASE scan'[w] = s /\ percentage'[w] = p
    <3>1. Percent(w)' = p
      BY <1>4, <2>2 DEF Percent
    <3> HIDE DEF p
    <3> QED BY <1>5, <2>2, <3>1 DEF ProgressOf
  <2>3. CASE scan'[w] = [s EXCEPT !.pc = "stat", !.file = f, !.content = disk[f]]
    <3>1. scan'[w].listed = L /\ scan'[w].todo = T \ {f} /\ scan'[w].file = f
      BY <1>1, <2>3 DEF ScanInfo
    <3>2. Percent(w)' = p
      BY <3>1 DEF Percent
    <3> HIDE DEF p
    <3> QED BY <1>5, <1>7, <1>9, <3>1, <3>2 DEF ProgressOf
  <2> QED BY <1>8, <2>1, <2>2, <2>3
<1> HIDE DEF p
<1> QED BY <1>1, <1>5, <1>6, <1>7, <1>10

\* What a step of its own does to the progress of a scan.
LEMMA StepProgress ==
  ASSUME ScanInv, ProgressInv, NEW w \in Workers, Step(w)
  PROVE  /\ ProgressOf(w)'
         /\ ~Begin(w) => percentage'[w] >= percentage[w]
         /\ \A q \in Workers \ {w} : percentage'[q] = percentage[q]
<1>1. /\ scan[w] \in ScanInfo /\ ScanOK(scan[w]) /\ scan \in [Workers -> ScanInfo]
      /\ percentage \in [Workers -> 0 .. 100] /\ ProgressOf(w)
  BY DEF ScanInv, TypeOK, ProgressInv
<1>2. CASE Begin(w)
  BY <1>2, BeginProgress
<1>3. ASSUME NEW f \in Files, TakeFile(w, f), ~Begin(w)
      PROVE  /\ ProgressOf(w)' /\ percentage'[w] >= percentage[w]
             /\ \A q \in Workers \ {w} : percentage'[q] = percentage[q]
  BY <1>1, <1>3, TakeFileProgress
<1>4. CASE ~Begin(w) /\ \A f \in Files : ~TakeFile(w, f)
  <2>1. /\ Active(w)' => scan'[w].listed = scan[w].listed /\ scan'[w].todo = scan[w].todo
        /\ \A q \in Workers \ {w} : percentage'[q] = percentage[q]
        /\ \/ percentage'[w] = percentage[w] /\ (Active(w)' => scan'[w].file = scan[w].file)
           \/ percentage'[w] = Percent(w) /\ scan[w].file # None
    BY <1>4, OwnProgress
  <2>2. Active(w)' => Active(w)
    BY <1>4, StepKeepsStatus
  <2>3. Active(w)' => Percent(w)' = Percent(w)
    BY <2>1 DEF Percent
  <2>4. scan[w].file # None => Percent(w) \in 0 .. 100 /\ Active(w) /\ scan[w].listed # {}
    BY <1>1, PercentType DEF ScanOK, Active, FileSteps
  <2>5. CASE percentage'[w] = percentage[w] /\ (Active(w)' => scan'[w].file = scan[w].file)
    BY <1>1, <2>1, <2>2, <2>3, <2>5 DEF ProgressOf
  <2>6. CASE percentage'[w] = Percent(w) /\ scan[w].file # None
    <3>1. percentage'[w] >= percentage[w]
      BY <1>1, <2>4, <2>6 DEF ProgressOf
    <3>2. ProgressOf(w)'
      BY <2>1, <2>3, <2>4, <2>6 DEF ProgressOf
    <3> QED BY <2>1, <3>1, <3>2
  <2> QED BY <2>1, <2>5, <2>6
<1> QED BY <1>2, <1>3, <1>4

LEMMA ProgressNext ==
  ASSUME ScanInv, ProgressInv, [Next]_vars PROVE ProgressInv'
<1>1. scan \in [Workers -> ScanInfo] /\ percentage \in [Workers -> 0 .. 100]
  BY DEF ScanInv, TypeOK
<1>2. ASSUME NEW w \in Workers, Step(w) PROVE ProgressInv'
  <2>1. ASSUME NEW q \in Workers, q # w PROVE ProgressOf(q)'
    <3>1. percentage'[q] = percentage[q]
      BY <1>2, <2>1, StepProgress
    <3>2. scan'[q].listed = scan[q].listed /\ scan'[q].todo = scan[q].todo
      BY <1>2, <2>1, OthersListing
    <3>3. scan'[q].pc = scan[q].pc /\ scan'[q].file = scan[q].file
      BY <1>2, <2>1, OthersKeep DEF SameWork
    <3>4. Percent(q)' = Percent(q)
      BY <3>2 DEF Percent
    <3> QED BY <3>1, <3>2, <3>3, <3>4 DEF ProgressInv, ProgressOf, Active
  <2> QED BY <1>2, <2>1, StepProgress DEF ProgressInv
<1>3. ASSUME NEW w \in Workers, Crash(w) PROVE ProgressInv'
  <2>1. scan'[w] = Resting
    BY <1>1, <1>3 DEF Crash, Raise
  <2>2. \A q \in Workers \ {w} : scan'[q] = scan[q] /\ percentage'[q] = percentage[q]
    BY <1>1, <1>3 DEF Crash, Raise
  <2>3. ProgressOf(w)'
    BY <2>1 DEF ProgressOf, Active, Resting
  <2>4. \A q \in Workers \ {w} : ProgressOf(q)'
    BY <2>2 DEF ProgressInv, ProgressOf, Active, Percent
  <2> QED BY <2>3, <2>4 DEF ProgressInv
<1>4. ASSUME UNCHANGED <<scan, percentage>> PROVE ProgressInv'
  BY <1>4 DEF ProgressInv, ProgressOf, Active, Percent
<1>5. ASSUME \/ UNCHANGED vars
             \/ \E w \in Workers, full \in BOOLEAN : Accept(w, full)
             \/ \E f \in Files, m \in Times : Touch(f, m)
      PROVE  UNCHANGED <<scan, percentage>>
  BY <1>5 DEF vars, Accept, Touch, scanStates
<1> QED BY <1>2, <1>3, <1>4, <1>5 DEF Next

\* Only the end of run_scan sets the status to done, behind the last file.
LEMMA DoneBy ==
  ASSUME ScanInv, StatusInv, Next, NEW w \in Workers, status[w] # "done", status'[w] = "done"
  PROVE  /\ ListStale(w) \/ DeleteStale(w)
         /\ Active(w) /\ scan[w].todo = {} /\ scan[w].file = None
         /\ percentage' = percentage
<1>1. /\ scan[w] \in ScanInfo /\ ScanOK(scan[w])
      /\ status \in [Workers -> {"idle", "running", "done"}]
  BY DEF ScanInv, TypeOK
<1>2. \E q \in Workers : Step(q)
  BY <1>1 DEF Next, Crash, Accept, Touch, scanStates
<1>3. PICK q \in Workers : Step(q)
  BY <1>2
<1>4. ~Begin(q)
  BY <1>1 DEF Begin
<1>5. ListStale(q) \/ DeleteStale(q)
  <2>1. CASE ReadKnown(q) \/ Stat(q) \/ FindArtist(q) \/ AddArtist(q)
    BY <2>1 DEF ReadKnown, Stat, FindArtist, AddArtist, AfterName, SkipFile, RaiseInTry, KeepData,
                Keep, scanStates
  <2>2. CASE \/ FindAlbum(q) \/ AddAlbum(q) \/ Upsert(q) \/ Relink(q) \/ IssueUnlink(q)
             \/ Unlink(q)
    BY <2>2 DEF FindAlbum, AddAlbum, Upsert, Relink, IssueUnlink, Unlink, GoUpsert, SkipFile,
                RaiseInTry, KeepData, Keep, scanStates
  <2>3. CASE Commit(q) \/ DeadlockVictim(q)
    BY <2>3 DEF Commit, DeadlockVictim, RaiseInTry, KeepData, Keep, scanStates
  <2>4. ASSUME NEW f \in Files, TakeFile(q, f) PROVE FALSE
    BY <2>4 DEF TakeFile
  <2> QED BY <1>3, <1>4, <2>1, <2>2, <2>3, <2>4 DEF Step
<1>6. Done(q)
  BY <1>5 DEF ListStale, DeleteStale, KeepData, scanStates
<1>7. q = w /\ percentage' = percentage
  BY <1>1, <1>6 DEF Done
<1>8. scan[w].todo = {} /\ scan[w].pc \notin FileSteps /\ Active(w)
  BY <1>1, <1>5, <1>7 DEF ListStale, DeleteStale, ScanOK, StaleSteps, FileSteps, Active
<1> QED BY <1>1, <1>5, <1>7, <1>8 DEF ScanOK

\* ProgressShown for any number of files: the count of run_scan never goes back,
\* and every way out of the loop body brings the percentage up to date.
THEOREM ProgressTrue == Spec => ProgressShown
<1> DEFINE A == \A w \in Workers : Active(w) =>
         /\ percentage'[w] >= percentage[w] \/ status'[w] = "idle"
         /\ status'[w] = "done" /\ scan[w].listed # {} => percentage'[w] = 100
<1>1. Init => StatusInv
  BY DEF Init, StatusInv, Active, Resting
<1>2. ScanInv /\ StatusInv /\ [Next]_vars => StatusInv'
  BY StatusNext
<1>3. Init => ProgressInv
  BY DEF Init, ProgressInv, ProgressOf, Active, Resting
<1>4. ScanInv /\ ProgressInv /\ [Next]_vars => ProgressInv'
  BY ProgressNext
<1>5. ScanInv /\ StatusInv /\ ProgressInv /\ [Next]_vars => [A]_vars
  <2> SUFFICES ASSUME ScanInv, StatusInv, ProgressInv, Next, NEW w \in Workers, Active(w)
               PROVE  /\ percentage'[w] >= percentage[w] \/ status'[w] = "idle"
                      /\ status'[w] = "done" /\ scan[w].listed # {} => percentage'[w] = 100
    OBVIOUS
  <2>1. /\ scan[w] \in ScanInfo /\ percentage \in [Workers -> 0 .. 100]
        /\ status \in [Workers -> {"idle", "running", "done"}]
    BY DEF ScanInv, TypeOK
  <2>2. ASSUME NEW q \in Workers, Step(q) PROVE percentage'[w] >= percentage[w]
    <3>1. CASE q = w
      <4>1. ~Begin(w)
        BY DEF StatusInv, Begin
      <4> QED BY <2>2, <3>1, <4>1, StepProgress
    <3>2. CASE q # w
      <4>1. percentage'[w] = percentage[w]
        BY <2>2, <3>2, StepProgress
      <4> QED BY <2>1, <4>1
    <3> QED BY <3>1, <3>2
  <2>3. ASSUME NEW q \in Workers, Crash(q)
        PROVE  percentage'[w] >= percentage[w] \/ status'[w] = "idle"
    <3>1. percentage'[w] = percentage[w] \/ status'[w] = "idle"
      BY <2>1, <2>3 DEF Crash
    <3>2. percentage[w] \in 0 .. 100
      BY <2>1
    <3> QED BY <3>1, <3>2
  <2>4. ASSUME \/ \E q \in Workers, full \in BOOLEAN : Accept(q, full)
               \/ \E f \in Files, m \in Times : Touch(f, m)
        PROVE  percentage'[w] >= percentage[w]
    <3>1. percentage' = percentage
      BY <2>4 DEF Accept, Touch, scanStates
    <3>2. percentage[w] \in 0 .. 100
      BY <2>1
    <3> QED BY <3>1, <3>2
  <2>5. ASSUME status'[w] = "done", scan[w].listed # {} PROVE percentage'[w] = 100
    <3>1. status[w] # "done"
      BY DEF StatusInv
    <3>2. scan[w].todo = {} /\ scan[w].file = None /\ percentage' = percentage
      BY <2>5, <3>1, DoneBy
    <3>3. percentage[w] = Percent(w)
      BY <2>5, <3>2 DEF ProgressInv, ProgressOf
    <3>4. Percent(w) = 100
      BY <2>1, <2>5, <3>2, PercentEnds DEF Percent, ScanInfo
    <3> QED BY <3>2, <3>3, <3>4
  <2> QED BY <2>2, <2>3, <2>4, <2>5 DEF Next
<1> QED BY <1>1, <1>2, <1>3, <1>4, <1>5, ScanInvariant, PTL DEF Spec, ProgressShown

-----------------------------------------------------------------------------
(* What a scan leaves behind *)

\* Steps of a scan leave the disk alone, and who is disturbed but at its begin.
LEMMA StepKeepsDisk ==
  ASSUME NEW w \in Workers, Step(w)
  PROVE  disk' = disk /\ (~Begin(w) => disturbed' = disturbed)
<1>1. CASE Begin(w)
  BY <1>1 DEF Begin
<1>2. CASE ReadKnown(w) \/ Stat(w) \/ FindArtist(w) \/ AddArtist(w)
  BY <1>2 DEF ReadKnown, Stat, FindArtist, AddArtist, AfterName, SkipFile, RaiseInTry, KeepData,
              Keep, history
<1>3. CASE FindAlbum(w) \/ AddAlbum(w) \/ Upsert(w) \/ Relink(w)
  BY <1>3 DEF FindAlbum, AddAlbum, Upsert, Relink, GoUpsert, SkipFile, RaiseInTry, KeepData, Keep,
              history
<1>4. CASE \/ Commit(w) \/ ListStale(w) \/ IssueUnlink(w) \/ Unlink(w) \/ DeleteStale(w)
           \/ DeadlockVictim(w)
  BY <1>4 DEF Commit, ListStale, IssueUnlink, Unlink, DeleteStale, DeadlockVictim, Done,
              RaiseInTry, KeepData, Keep, history
<1>5. ASSUME NEW f \in Files, TakeFile(w, f) PROVE disk' = disk /\ disturbed' = disturbed
  BY <1>5 DEF TakeFile, Keep, history
<1> QED BY <1>1, <1>2, <1>3, <1>4, <1>5 DEF Step

\* A transaction gets to its commit by writing its links.
LEMMA CommitsAfterRelink ==
  ASSUME ScanInv, NEW w \in Workers, Step(w), scan'[w].pc = "commit"
  PROVE  scan'[w].file = scan[w].file /\ scan[w].file \notin Duplicated
<1>1. scan[w] \in ScanInfo /\ ScanOK(scan[w]) /\ scan \in [Workers -> ScanInfo]
  BY DEF ScanInv, TypeOK
<1>2. ~RaiseInTry(w) /\ ~SkipFile(w)
  BY <1>1, NextFileRests DEF RaiseInTry, SkipFile, Raise, Resting
<1>3. CASE Relink(w)
  BY <1>1, <1>2, <1>3 DEF Relink, Goto, ScanInfo
<1>4. CASE Begin(w)
  BY <1>4, BeginStarts
<1>5. CASE ReadKnown(w) \/ Stat(w) \/ Upsert(w) \/ IssueUnlink(w) \/ Unlink(w)
  BY <1>1, <1>2, <1>5 DEF ReadKnown, Stat, Upsert, IssueUnlink, Unlink, Goto, ScanInfo
<1>6. CASE FindArtist(w) \/ AddArtist(w)
  <2> DEFINE s == [scan[w] EXCEPT !.names = @ \cup {Name(w)}]
  <2>1. AfterName(w, scan[w]) \/ AfterName(w, s) \/ Goto(w, "addartist")
    BY <1>2, <1>6 DEF FindArtist, AddArtist
  <2>2. Name(w) \in Artists
    BY <1>1, <1>6, TagAssumption DEF FindArtist, AddArtist, ScanOK, FileSteps, ScanInfo, Name
  <2>3. s \in ScanInfo
    BY <1>1, <2>2 DEF ScanInfo
  <2> HIDE DEF s
  <2>4. Goto(w, "addartist") => scan'[w].pc = "addartist"
    BY <1>1 DEF Goto, ScanInfo
  <2>5. scan'[w].pc \in {"artist", "album", "addartist"}
    BY <1>1, <2>1, <2>3, <2>4, AfterNameGoesOn
  <2> QED BY <2>5
<1>7. CASE FindAlbum(w) \/ AddAlbum(w)
  BY <1>1, <1>2, <1>7 DEF FindAlbum, AddAlbum, GoUpsert, Goto, ScanInfo
<1>8. CASE Commit(w)
  BY <1>1, <1>8, NextFileRests DEF Commit
<1>9. CASE ListStale(w) \/ DeleteStale(w) \/ DeadlockVictim(w)
  BY <1>1, <1>2, <1>9 DEF ListStale, DeleteStale, DeadlockVictim, Raise, Resting, ScanInfo
<1>10. ASSUME NEW f \in Files, TakeFile(w, f) PROVE FALSE
  <2> DEFINE s == [scan[w] EXCEPT !.todo = @ \ {f}]
             t == [s EXCEPT !.pc = "stat", !.file = f, !.content = disk[f]]
  <2>1. scan'[w] \in {Resting, s, t} /\ scan[w].pc = "next"
    BY <1>1, <1>10 DEF TakeFile, Raise
  <2>2. s.pc = scan[w].pc /\ t.pc = "stat"
    BY <1>1 DEF ScanInfo
  <2> HIDE DEF s, t
  <2> QED BY <2>1, <2>2 DEF Resting
<1> QED BY <1>3, <1>4, <1>5, <1>6, <1>7, <1>8, <1>9, <1>10 DEF Step

LEMMA DuplicatedNext ==
  ASSUME ScanInv, DuplicatedInv, [Next]_vars PROVE DuplicatedInv'
<1>1. scan \in [Workers -> ScanInfo] /\ track \in [Files -> Row]
  BY DEF ScanInv, TypeOK
<1>2. ASSUME NEW w \in Workers, Step(w) PROVE DuplicatedInv'
  <2>1. ASSUME NEW f \in Files, f \in Duplicated PROVE track'[f] = NoRow
    <3>1. CASE Commit(w)
      <4>1. scan[w].file # f
        BY <2>1, <3>1 DEF Commit, DuplicatedInv
      <4> QED BY <1>1, <2>1, <3>1, <4>1 DEF Commit, DuplicatedInv
    <3>2. CASE DeleteStale(w)
      BY <2>1, <3>2 DEF DeleteStale, DuplicatedInv, KeepData, database
    <3>3. CASE ~Commit(w) /\ ~DeleteStale(w)
      BY <1>2, <2>1, <3>3, StepKeepsRows DEF DuplicatedInv
    <3> QED BY <3>1, <3>2, <3>3
  <2>2. ASSUME NEW q \in Workers, scan'[q].pc = "commit" PROVE scan'[q].file \notin Duplicated
    <3>1. CASE q = w
      BY <1>2, <2>2, <3>1, CommitsAfterRelink
    <3>2. CASE q # w
      BY <1>2, <2>2, <3>2, OthersKeep DEF SameWork, DuplicatedInv
    <3> QED BY <3>1, <3>2
  <2> QED BY <2>1, <2>2 DEF DuplicatedInv
<1>3. ASSUME NEW w \in Workers, Crash(w) PROVE DuplicatedInv'
  BY <1>1, <1>3 DEF Crash, Raise, Resting, DuplicatedInv, database
<1>4. ASSUME \/ UNCHANGED vars
             \/ \E w \in Workers, full \in BOOLEAN : Accept(w, full)
             \/ \E f \in Files, m \in Times : Touch(f, m)
      PROVE  DuplicatedInv'
  <2>1. UNCHANGED <<track, scan>>
    BY <1>4 DEF vars, Accept, Touch, database
  <2> QED BY <2>1 DEF DuplicatedInv
<1> QED BY <1>2, <1>3, <1>4 DEF Next

\* While the rows stay, a scan is calm when its record is.
LEMMA CalmKept ==
  ASSUME NEW w \in Workers, NEW s, CalmOf(s), scan'[w] = s, UNCHANGED <<disk, track, artists>>
  PROVE  CalmOf(scan[w])'
BY DEF CalmOf, Have

\* The file in hand is done.
LEMMA NextFileCalm ==
  ASSUME NEW s \in ScanInfo, CalmOf(s), s.pc \in FileSteps, Have(s, s.file)
  PROVE  CalmOf(NextFile(s))
<1> DEFINE n == NextFile(s)
<1>1. /\ n.pc = "next" /\ n.file = None /\ n.listed = s.listed /\ n.todo = s.todo
      /\ n.full = s.full /\ n.known = s.known
  BY DEF NextFile, ScanInfo
<1> HIDE DEF n
<1>2. \A f \in n.listed \ n.todo : Have(n, f)
  BY <1>1 DEF CalmOf, Have
<1> QED BY <1>1, <1>2 DEF CalmOf, FileSteps, StaleSteps, n

\* A move to another step of the same file.
LEMMA MoveCalm ==
  ASSUME NEW s, NEW t, CalmOf(s), s.pc \in FileSteps \ {"stat"}, t.pc \in FileSteps \ {"stat"},
         t.listed = s.listed, t.todo = s.todo, t.full = s.full, t.known = s.known,
         t.file = s.file, t.content = s.content, t.mtime = s.mtime,
         t.pc = "addartist" => NamesOf[t.file][t.at] \notin artists
  PROVE  CalmOf(t)
<1>1. \A f \in t.listed \ t.todo : f # t.file => Have(t, f)
  BY DEF CalmOf, Have
<1> QED BY <1>1 DEF CalmOf, FileSteps, StaleSteps

LEMMA TakeFileCalm ==
  ASSUME ScanInv, NEW w \in Workers, NEW f \in Files, TakeFile(w, f), CalmOf(scan[w]), Active(w)'
  PROVE  CalmOf(scan[w])'
<1> DEFINE s == [scan[w] EXCEPT !.todo = @ \ {f}]
           t == [s EXCEPT !.pc = "stat", !.file = f, !.content = disk[f]]
<1>1. /\ scan[w] \in ScanInfo /\ ScanOK(scan[w]) /\ scan \in [Workers -> ScanInfo]
      /\ disk \in [Files -> Times] /\ UNCHANGED <<disk, track, artists>>
  BY DEF ScanInv, TypeOK, TakeFile, Keep, database
<1>2. /\ s.listed = scan[w].listed /\ s.todo = scan[w].todo \ {f} /\ s.full = scan[w].full
      /\ s.known = scan[w].known /\ s.file = scan[w].file /\ s.pc = "next"
  BY <1>1 DEF TakeFile, ScanInfo
<1>3. /\ t.listed = s.listed /\ t.todo = s.todo /\ t.full = s.full /\ t.known = s.known
      /\ t.file = f /\ t.pc = "stat" /\ t.content = disk[f]
  BY <1>1 DEF ScanInfo
<1>4. scan[w].pc = "next" /\ scan[w].file = None /\ f \in scan[w].todo
  BY <1>1 DEF TakeFile, ScanOK, FileSteps
<1>5. \/ scan'[w] = s /\ UpToDate(w, f)
      \/ scan'[w] = t
  <2>1. \/ scan'[w] = Resting
        \/ scan'[w] = s /\ UpToDate(w, f)
        \/ scan'[w] = t
    BY <1>1 DEF TakeFile, Raise
  <2> QED BY <2>1 DEF Active, Resting
<1> HIDE DEF s, t
<1>6. CASE scan'[w] = s /\ UpToDate(w, f)
  <2>1. ~s.full /\ track[f].mtime >= disk[f]
    BY <1>2, <1>4, <1>6 DEF UpToDate, CalmOf
  <2>2. \A g \in s.listed \ s.todo : Have(s, g)
    BY <1>2, <1>4, <2>1, NoneAssumption DEF CalmOf, Have, ScanInv, TypeOK
  <2>3. CalmOf(s)
    BY <1>2, <1>4, <2>2 DEF CalmOf, FileSteps, StaleSteps
  <2> QED BY <1>1, <1>6, <2>3, CalmKept
<1>7. CASE scan'[w] = t
  <2>1. \A g \in t.listed \ t.todo : g # t.file => Have(t, g)
    BY <1>1, <1>2, <1>3, <1>4, NoneAssumption DEF CalmOf, Have, ScanInfo
  <2>2. CalmOf(t)
    BY <1>2, <1>3, <1>4, <2>1 DEF CalmOf, FileSteps, StaleSteps
  <2> QED BY <1>1, <1>7, <2>2, CalmKept
<1> QED BY <1>5, <1>6, <1>7

LEMMA CommitCalm ==
  ASSUME ScanInv, NEW w \in Workers, Commit(w), CalmOf(scan[w])
  PROVE  CalmOf(scan[w])'
<1> DEFINE s == scan[w]
<1>1. /\ s \in ScanInfo /\ ScanOK(s) /\ disk \in [Files -> Times] /\ track \in [Files -> Row]
      /\ disk' = disk /\ scan'[w] = NextFile(s)
  BY DEF ScanInv, TypeOK, Commit, Keep
<1>2. /\ scan'[w].pc = "next" /\ scan'[w].file = None /\ scan'[w].listed = s.listed
      /\ scan'[w].todo = s.todo /\ scan'[w].full = s.full /\ scan'[w].known = s.known
  BY <1>1 DEF NextFile, ScanInfo
<1>3. s.pc = "commit" /\ s.file \in Files /\ s.file # None
  BY <1>1 DEF Commit, ScanOK, FileSteps, ScanInfo
<1>4. /\ track'[s.file] = [content |-> disk[s.file], mtime |-> disk[s.file]]
      /\ \A f \in Files : f # s.file => track'[f] = track[f]
  BY <1>1, <1>3 DEF Commit, CalmOf, FileSteps
<1>5. disk[s.file] \in Nat
  BY <1>1, <1>3 DEF Times
<1>6. ASSUME NEW f \in s.listed, f \notin s.todo PROVE Have(scan[w], f)'
  <2>1. f \in Files
    BY <1>1 DEF ScanInfo
  <2>2. CASE f = s.file
    BY <1>1, <1>4, <1>5, <2>2 DEF Have
  <2>3. CASE f # s.file
    <3>1. Have(s, f)
      BY <1>6, <2>3 DEF CalmOf
    <3>2. track'[f] = track[f] /\ disk'[f] = disk[f]
      BY <1>1, <1>4, <2>1, <2>3
    <3> QED BY <1>2, <3>1, <3>2 DEF Have
  <2> QED BY <2>2, <2>3
<1>7. ~s.full => \A f \in s.todo : s.known[f] = track'[f].mtime
  <2>1. \A f \in s.todo : f # s.file /\ f \in Files
    BY <1>1, <1>3 DEF CalmOf, ScanInfo
  <2> QED BY <1>3, <1>4, <2>1 DEF CalmOf
<1>8. s.listed = {f \in Files : disk[f] # 0}
  BY DEF CalmOf
<1> QED BY <1>1, <1>2, <1>6, <1>7, <1>8 DEF CalmOf, FileSteps, StaleSteps

\* A scan that is on its own stays calm by its own steps.
LEMMA OwnCalm ==
  ASSUME ScanInv, DuplicatedInv, NEW w \in Workers, CalmOf(scan[w]), Step(w), ~Begin(w), Active(w)'
  PROVE  CalmOf(scan[w])'
<1> DEFINE s == scan[w]
<1>1. /\ s \in ScanInfo /\ ScanOK(s) /\ scan \in [Workers -> ScanInfo]
      /\ disk \in [Files -> Times] /\ track \in [Files -> Row] /\ disk' = disk
  BY StepKeepsDisk DEF ScanInv, TypeOK
<1>2. CASE Commit(w)
  BY <1>2, CommitCalm
<1>3. ASSUME NEW f \in Files, TakeFile(w, f) PROVE CalmOf(scan[w])'
  BY <1>3, TakeFileCalm
<1>4. CASE ~Commit(w) /\ \A f \in Files : ~TakeFile(w, f)
  <2>1. ~DeleteStale(w)
    <3>1. DeleteStale(w) => scan'[w] = Resting
      BY <1>1 DEF DeleteStale, Raise
    <3>2. Resting.pc = "idle"
      BY DEF Resting
    <3>3. QED
      BY <3>1, <3>2 DEF Active
  <2>2. UNCHANGED <<disk, track, artists>>
    BY <1>1, <1>4, <2>1, StepKeepsRows
  <2>3. ~RaiseInTry(w) /\ ~Raise(w)
    BY <1>1 DEF RaiseInTry, Raise, Active, Resting
  <2>4. ASSUME SkipFile(w), s.pc \in FileSteps, s.file \in Duplicated PROVE CalmOf(scan[w])'
    <3>1. scan'[w] = NextFile(s)
      BY <1>1, <2>4 DEF SkipFile
    <3>2. CalmOf(NextFile(s))
      BY <1>1, <2>4, NextFileCalm DEF Have
    <3> QED BY <2>2, <3>1, <3>2, CalmKept
  <2>5. ASSUME NEW t, scan'[w] = t, s.pc \in FileSteps \ {"stat"}, t.pc \in FileSteps \ {"stat"},
               t.listed = s.listed, t.todo = s.todo, t.full = s.full, t.known = s.known,
               t.file = s.file, t.content = s.content, t.mtime = s.mtime,
               t.pc = "addartist" => NamesOf[t.file][t.at] \notin artists
        PROVE  CalmOf(scan[w])'
    <3>1. CalmOf(t)
      BY <2>5, MoveCalm
    <3> QED BY <2>2, <2>5, <3>1, CalmKept
  <2>6. ASSUME NEW l \in FileSteps \ {"stat", "addartist"}, s.pc \in FileSteps \ {"stat"}, Goto(w, l)
        PROVE  CalmOf(scan[w])'
    <3> DEFINE t == [s EXCEPT !.pc = l]
    <3>1. scan'[w] = t
      BY <1>1, <2>6 DEF Goto
    <3>2. /\ t.pc = l /\ t.listed = s.listed /\ t.todo = s.todo /\ t.full = s.full
          /\ t.known = s.known /\ t.file = s.file /\ t.content = s.content /\ t.mtime = s.mtime
      BY <1>1 DEF ScanInfo
    <3> HIDE DEF t
    <3> QED BY <2>5, <2>6, <3>1, <3>2
  <2>7. ASSUME NEW t \in ScanInfo, s.pc \in FileSteps \ {"stat"}, AfterName(w, t),
               t.listed = s.listed, t.todo = s.todo, t.full = s.full, t.known = s.known,
               t.file = s.file, t.content = s.content, t.mtime = s.mtime
        PROVE  CalmOf(scan[w])'
    <3> DEFINE u == IF t.at < Len(NamesOf[t.file]) THEN [t EXCEPT !.pc = "artist", !.at = @ + 1]
                                                   ELSE [t EXCEPT !.pc = "album"]
    <3>1. scan'[w] = u
      BY <1>1, <2>7 DEF AfterName
    <3>2. /\ u.pc \in {"artist", "album"} /\ u.listed = s.listed /\ u.todo = s.todo
          /\ u.full = s.full /\ u.known = s.known /\ u.file = s.file /\ u.content = s.content
          /\ u.mtime = s.mtime
      BY <2>7 DEF ScanInfo
    <3> HIDE DEF u
    <3> QED BY <2>5, <2>7, <3>1, <3>2 DEF FileSteps
  <2>8. ASSUME NEW t \in ScanInfo, s.pc \in FileSteps \ {"stat"}, GoUpsert(w, t),
               t.listed = s.listed, t.todo = s.todo, t.full = s.full, t.known = s.known,
               t.file = s.file, t.content = s.content, t.mtime = s.mtime
        PROVE  CalmOf(scan[w])'
    <3> DEFINE u == [t EXCEPT !.pc = "upsert"]
    <3>1. scan'[w] = u
      BY <1>1, <2>3, <2>8 DEF GoUpsert
    <3>2. /\ u.pc = "upsert" /\ u.listed = s.listed /\ u.todo = s.todo
          /\ u.full = s.full /\ u.known = s.known /\ u.file = s.file /\ u.content = s.content
          /\ u.mtime = s.mtime
      BY <2>8 DEF ScanInfo
    <3> HIDE DEF u
    <3> QED BY <2>5, <2>8, <3>1, <3>2 DEF FileSteps
  <2>9. CASE ReadKnown(w)
    <3> DEFINE k == [f \in Files |-> track[f].mtime]
               t == [s EXCEPT !.pc = "next", !.known = k]
    <3>1. scan'[w] = t /\ s.pc = "known" /\ s.file = None
      BY <1>1, <2>9 DEF ReadKnown, ScanOK, FileSteps
    <3>2. /\ t.pc = "next" /\ t.known = k /\ t.listed = s.listed /\ t.todo = s.todo
          /\ t.full = s.full /\ t.file = s.file
      BY <1>1 DEF ScanInfo
    <3>3. s.todo \subseteq Files /\ s.todo = s.listed
      BY <1>1, <3>1 DEF ScanInfo, CalmOf
    <3> HIDE DEF t
    <3>4. CalmOf(t)
      BY <3>1, <3>2, <3>3 DEF CalmOf, FileSteps, StaleSteps
    <3> QED BY <2>2, <3>1, <3>4, CalmKept
  <2>10. CASE Stat(w)
    <3> DEFINE t == [s EXCEPT !.mtime = disk[s.file],
                              !.pc = IF Linked(s.file) THEN "artist" ELSE "album"]
    <3>1. scan'[w] = t /\ s.pc = "stat"
      BY <1>1, <2>3, <2>10 DEF Stat
    <3>2. /\ t.pc \in {"artist", "album"} /\ t.known = s.known /\ t.listed = s.listed
          /\ t.todo = s.todo /\ t.full = s.full /\ t.file = s.file /\ t.content = s.content
          /\ t.mtime = disk[s.file]
      BY <1>1 DEF ScanInfo
    <3> HIDE DEF t
    <3>3. \A f \in t.listed \ t.todo : f # t.file => Have(t, f)
      BY <3>2 DEF CalmOf, Have
    <3>4. CalmOf(t)
      BY <3>1, <3>2, <3>3 DEF CalmOf, FileSteps, StaleSteps
    <3> QED BY <2>2, <3>1, <3>4, CalmKept
  <2>11. CASE FindArtist(w)
    <3>1. CASE AfterName(w, s)
      BY <1>1, <2>7, <2>11, <3>1 DEF FindArtist, FileSteps
    <3>2. CASE Name(w) \notin artists /\ Goto(w, "addartist")
      <4> DEFINE t == [s EXCEPT !.pc = "addartist"]
      <4>1. scan'[w] = t
        BY <1>1, <3>2 DEF Goto
      <4>2. /\ t.pc = "addartist" /\ t.listed = s.listed /\ t.todo = s.todo /\ t.full = s.full
            /\ t.known = s.known /\ t.file = s.file /\ t.content = s.content /\ t.mtime = s.mtime
            /\ t.at = s.at
        BY <1>1 DEF ScanInfo
      <4> HIDE DEF t
      <4> QED BY <2>5, <2>11, <3>2, <4>1, <4>2 DEF FindArtist, FileSteps, Name
    <3> QED BY <2>11, <3>1, <3>2 DEF FindArtist
  <2>12. CASE AddArtist(w)
    <3> DEFINE t == [s EXCEPT !.names = @ \cup {Name(w)}]
    <3>1. s.pc = "addartist" /\ Name(w) \notin artists
      BY <2>12 DEF AddArtist, CalmOf, Name
    <3>2. Name(w) \in Artists
      BY <1>1, <3>1, TagAssumption DEF ScanOK, FileSteps, ScanInfo, Name
    <3>3. /\ t \in ScanInfo /\ t.listed = s.listed /\ t.todo = s.todo /\ t.full = s.full
          /\ t.known = s.known /\ t.file = s.file /\ t.content = s.content /\ t.mtime = s.mtime
      BY <1>1, <3>2 DEF ScanInfo
    <3>4. AfterName(w, t)
      BY <2>12, <3>1 DEF AddArtist
    <3> HIDE DEF t
    <3> QED BY <2>7, <3>1, <3>3, <3>4 DEF FileSteps
  <2>13. CASE FindAlbum(w)
    <3>1. GoUpsert(w, s) \/ Goto(w, "addalbum")
      BY <2>3, <2>13 DEF FindAlbum
    <3> QED BY <1>1, <2>6, <2>8, <2>13, <3>1 DEF FindAlbum, FileSteps
  <2>14. CASE AddAlbum(w)
    <3> DEFINE t == [s EXCEPT !.album = TRUE]
    <3>1. /\ t \in ScanInfo /\ t.listed = s.listed /\ t.todo = s.todo /\ t.full = s.full
          /\ t.known = s.known /\ t.file = s.file /\ t.content = s.content /\ t.mtime = s.mtime
      BY <1>1 DEF ScanInfo
    <3>2. GoUpsert(w, t) /\ s.pc = "addalbum"
      BY <2>14 DEF AddAlbum
    <3> HIDE DEF t
    <3> QED BY <2>8, <3>1, <3>2 DEF FileSteps
  <2>15. CASE Upsert(w) \/ Relink(w)
    BY <2>4, <2>6, <2>15 DEF Upsert, Relink, FileSteps
  <2>16. CASE ListStale(w)
    <3> DEFINE b == {f \in Files : track[f] # NoRow /\ f \notin s.listed}
               t == [s EXCEPT !.pc = "issue", !.stale = b]
    <3>1. scan'[w] = t /\ s.pc = "next" /\ s.file = None
      BY <1>1, <2>3, <2>16 DEF ListStale, ScanOK, FileSteps
    <3>2. /\ t.pc = "issue" /\ t.known = s.known /\ t.listed = s.listed /\ t.todo = s.todo
          /\ t.full = s.full /\ t.file = s.file /\ t.stale = b
      BY <1>1 DEF ScanInfo
    <3> HIDE DEF t
    <3>3. \A f \in t.listed \ t.todo : f # t.file => Have(t, f)
      BY <3>2 DEF CalmOf, Have
    <3>4. CalmOf(t)
      BY <3>1, <3>2, <3>3 DEF CalmOf, FileSteps, StaleSteps
    <3> QED BY <2>2, <3>1, <3>4, CalmKept
  <2>17. CASE IssueUnlink(w) \/ Unlink(w)
    <3> DEFINE l == IF s.pc = "issue" THEN "unlink" ELSE "delete"
               t == [s EXCEPT !.pc = l]
    <3>1. scan'[w] = t /\ s.pc \in {"issue", "unlink"} /\ s.file = None
      BY <1>1, <2>17 DEF IssueUnlink, Unlink, Goto, ScanOK, FileSteps
    <3>2. /\ t.pc \in {"unlink", "delete"} /\ t.known = s.known /\ t.listed = s.listed
          /\ t.todo = s.todo /\ t.full = s.full /\ t.file = s.file /\ t.stale = s.stale
      BY <1>1 DEF ScanInfo
    <3> HIDE DEF t
    <3>3. \A f \in t.listed \ t.todo : f # t.file => Have(t, f)
      BY <3>2 DEF CalmOf, Have
    <3>4. CalmOf(t)
      BY <3>1, <3>2, <3>3 DEF CalmOf, FileSteps, StaleSteps
    <3> QED BY <2>2, <3>1, <3>4, CalmKept
  <2>18. ~DeadlockVictim(w)
    BY <2>3 DEF DeadlockVictim
  <2> QED BY <1>4, <2>1, <2>9, <2>10, <2>11, <2>12, <2>13, <2>14, <2>15, <2>16, <2>17, <2>18 DEF Step
<1> QED BY <1>2, <1>3, <1>4

\* A scan begins with the listing of the disk.
LEMMA BeginCalm ==
  ASSUME ScanInv, NEW w \in Workers, Begin(w)
  PROVE  CalmOf(scan[w])'
<1> DEFINE present == {f \in Files : disk[f] # 0}
           l == IF Head(tasks[w]) THEN "next" ELSE "known"
           t == [Resting EXCEPT !.pc = l, !.full = Head(tasks[w]), !.listed = present,
                                !.todo = present]
<1>1. scan'[w] = t /\ disk' = disk
  BY DEF Begin, ScanInv, TypeOK
<1>2. /\ t.pc = l /\ t.full = Head(tasks[w]) /\ t.listed = present /\ t.todo = present
      /\ t.file = None
  BY DEF Resting
<1>3. ~t.full => t.pc = "known"
  BY <1>2
<1> HIDE DEF t
<1> QED BY <1>1, <1>2, <1>3 DEF CalmOf, FileSteps, StaleSteps

\* Of a worker at rest the next step is the begin of a scan.
LEMMA RestingBegins ==
  ASSUME NEW w \in Workers, Step(w), ~Active(w) PROVE Begin(w)
<1>1. ~DeadlockVictim(w)
  <2>1. Waits(w) = {}
    BY DEF Waits, Active
  <2> QED BY <2>1 DEF DeadlockVictim, Deadlocked
<1> QED BY <1>1 DEF Step, Active, ReadKnown, TakeFile, Stat, FindArtist, AddArtist, FindAlbum,
     AddAlbum, Upsert, Relink, Commit, ListStale, IssueUnlink, Unlink, DeleteStale

LEMMA CalmNext ==
  ASSUME ScanInv, StatusInv, DuplicatedInv, CalmInv, [Next]_vars PROVE CalmInv'
<1>1. /\ scan \in [Workers -> ScanInfo] /\ disturbed \in [Workers -> BOOLEAN]
  BY DEF ScanInv, TypeOK
<1>2. SUFFICES ASSUME NEW w \in Workers, Active(w)', ~disturbed'[w]
               PROVE  Others(w)' = {} /\ CalmOf(scan[w])'
  BY DEF CalmInv
<1>3. CASE Begin(w)
  <2>1. Others(w) = {}
    BY <1>1, <1>2, <1>3 DEF Begin
  <2>2. \A q \in Workers : q # w => scan'[q] = scan[q]
    BY <1>1, <1>3 DEF Begin
  <2> QED BY <1>3, <2>1, <2>2, BeginCalm DEF Others, Active
<1>4. CASE Step(w) /\ ~Begin(w)
  <2>1. Active(w) /\ ~disturbed[w]
    BY <1>2, <1>4, StepKeepsStatus, StepKeepsDisk
  <2>2. Others(w) = {} /\ CalmOf(scan[w])
    BY <2>1 DEF CalmInv
  <2>3. \A q \in Workers : Active(q)' => Active(q)
    BY <1>4, StepKeepsStatus
  <2> QED BY <1>2, <1>4, <2>2, <2>3, OwnCalm DEF Others
<1>5. ASSUME NEW q \in Workers, Step(q), q # w PROVE FALSE
  <2>1. Active(w)
    BY <1>2, <1>5, OthersKeep DEF SameWork, Active
  <2>2. CASE Begin(q)
    BY <1>1, <1>2, <1>5, <2>1, <2>2 DEF Begin, Others
  <2>3. CASE ~Begin(q)
    <3>1. ~disturbed[w]
      BY <1>2, <1>5, <2>3, StepKeepsDisk
    <3>2. Others(w) = {}
      BY <2>1, <3>1 DEF CalmInv
    <3>3. ~Active(q)
      BY <1>5, <3>2 DEF Others
    <3> QED BY <1>5, <2>3, <3>3, RestingBegins
  <2> QED BY <2>2, <2>3
<1>6. ASSUME NEW q \in Workers, Crash(q) PROVE Others(w)' = {} /\ CalmOf(scan[w])'
  <2>1. UNCHANGED <<disk, track, artists, disturbed>>
    BY <1>6 DEF Crash, database, history
  <2>2. \A p \in Workers : scan'[p] = IF p = q THEN Resting ELSE scan[p]
    BY <1>1, <1>6 DEF Crash, Raise
  <2>3. q # w /\ scan'[w] = scan[w]
    BY <1>2, <2>2 DEF Active, Resting
  <2>4. Others(w) = {} /\ CalmOf(scan[w])
    BY <1>2, <2>1, <2>3 DEF CalmInv, Active
  <2>5. Others(w)' = {}
    BY <2>2, <2>4 DEF Others, Active, Resting
  <2> QED BY <2>1, <2>3, <2>4, <2>5, CalmKept
<1>7. ASSUME NEW q \in Workers, NEW full \in BOOLEAN, Accept(q, full)
      PROVE  Others(w)' = {} /\ CalmOf(scan[w])'
  <2>1. UNCHANGED <<disk, track, artists, disturbed, scan>>
    BY <1>7 DEF Accept, database, history
  <2> QED BY <1>2, <2>1, CalmKept DEF CalmInv, Active, Others
<1>8. ASSUME NEW f \in Files, NEW m \in Times, Touch(f, m) PROVE FALSE
  BY <1>1, <1>2, <1>8 DEF Touch, Active
<1>9. CASE UNCHANGED vars
  <2>1. UNCHANGED <<disk, track, artists, disturbed, scan>>
    BY <1>9 DEF vars, database, history
  <2> QED BY <1>2, <2>1, CalmKept DEF CalmInv, Active, Others
<1> QED BY <1>3, <1>4, <1>5, <1>6, <1>7, <1>8, <1>9 DEF Next

\* ScanIsComplete for any files: a scan that nobody disturbed leaves in the table
\* the readable files of the disk and nothing else.
THEOREM ScanWhole == Spec => ScanIsComplete
<1> DEFINE A == \A w \in Workers :
       status[w] # "done" /\ status'[w] = "done" /\ ~disturbed[w] =>
         \A f \in Files :
           IF disk[f] = 0 \/ f \in Duplicated
             THEN track'[f] = NoRow
             ELSE /\ track'[f].mtime >= disk[f]
                  /\ scan[w].full =>
                       track'[f] = [content |-> disk[f], mtime |-> disk[f]]
<1>1. Init => StatusInv /\ DuplicatedInv /\ CalmInv
  BY DEF Init, StatusInv, DuplicatedInv, CalmInv, Active, Resting
<1>2. ScanInv /\ StatusInv /\ [Next]_vars => StatusInv'
  BY StatusNext
<1>3. ScanInv /\ DuplicatedInv /\ [Next]_vars => DuplicatedInv'
  BY DuplicatedNext
<1>4. ScanInv /\ StatusInv /\ DuplicatedInv /\ CalmInv /\ [Next]_vars => CalmInv'
  BY CalmNext
<1>5. ScanInv /\ StatusInv /\ DuplicatedInv /\ CalmInv /\ [Next]_vars => [A]_vars
  <2> SUFFICES ASSUME ScanInv, StatusInv, DuplicatedInv, CalmInv, Next, NEW w \in Workers,
                      status[w] # "done", status'[w] = "done", ~disturbed[w], NEW f \in Files
               PROVE  IF disk[f] = 0 \/ f \in Duplicated
                        THEN track'[f] = NoRow
                        ELSE /\ track'[f].mtime >= disk[f]
                             /\ scan[w].full =>
                                  track'[f] = [content |-> disk[f], mtime |-> disk[f]]
    OBVIOUS
  <2>1. /\ ListStale(w) \/ DeleteStale(w)
        /\ Active(w) /\ scan[w].todo = {} /\ scan[w].file = None
    BY DoneBy
  <2>2. CalmOf(scan[w])
    BY <2>1 DEF CalmInv
  <2>3. f \in scan[w].listed <=> disk[f] # 0
    BY <2>2 DEF CalmOf
  <2>4. f \in scan[w].listed => Have(scan[w], f) /\ f # None
    BY <2>1, <2>2, NoneAssumption DEF CalmOf
  <2>5. f \in scan[w].listed => track'[f] = track[f]
    <3>1. CASE ListStale(w)
      BY <3>1 DEF ListStale, KeepData, database
    <3>2. CASE DeleteStale(w)
      BY <2>2, <3>2 DEF DeleteStale, CalmOf, StaleSteps, KeepData, database
    <3> QED BY <2>1, <3>1, <3>2
  <2>6. f \notin scan[w].listed => track'[f] = NoRow
    <3>1. CASE ListStale(w)
      <4>1. track' = track /\ {g \in Files : track[g] # NoRow /\ g \notin scan[w].listed} = {}
        BY <3>1 DEF ListStale, KeepData, scanStates
      <4> QED BY <4>1
    <3>2. CASE DeleteStale(w)
      <4>1. track'[f] = IF f \in scan[w].stale THEN NoRow ELSE track[f]
        BY <3>2 DEF DeleteStale, KeepData, scanStates
      <4>2. scan[w].stale = {g \in Files : track[g] # NoRow /\ g \notin scan[w].listed}
        BY <2>2, <3>2 DEF DeleteStale, CalmOf, StaleSteps
      <4> QED BY <4>1, <4>2
    <3> QED BY <2>1, <3>1, <3>2
  <2>7. f \in Duplicated => track[f] = NoRow
    BY DEF DuplicatedInv
  <2> QED BY <2>3, <2>4, <2>5, <2>6, <2>7 DEF Have
<1> QED BY <1>1, <1>2, <1>3, <1>4, <1>5, ScanInvariant, PTL DEF Spec, ScanIsComplete

=============================================================================
