-------------------------- MODULE MusicStreamProofs --------------------------
(***************************************************************************)
(* Proofs about MusicStream, for every chunk size, every file and every    *)
(* range.                                                                  *)
(***************************************************************************)
EXTENDS MusicStream, TLAPS

\* A response starts from nothing.
Clean == pc \in {"lookup", "stat"} => sent = 0 /\ ~spoilt

\* What holds of a response that is about to open the file.
Promised ==
  pc = "open" =>
    /\ start <= end /\ remaining = end - start + 1 /\ sent = 0
    /\ ~spoilt => exists /\ end < size

\* What holds of a response that reads it.
Backed ==
  pc = "read" =>
    /\ start <= end
    /\ same => held = size
    /\ ~spoilt => end < held

StreamInv == TypeOK /\ WithinPromise /\ LengthKept /\ Clean /\ Promised /\ Backed

-----------------------------------------------------------------------------
(* parse_range *)

\* A valid header of a file that is not empty gives a range inside the file.
LEMMA RangeInFile ==
  ASSUME NEW h \in Headers, NEW n \in Nat, n > 0, Valid(h, n)
  PROVE  /\ Start(h, n) \in Nat /\ End(h, n) \in Nat
         /\ Start(h, n) <= End(h, n) /\ End(h, n) < n
BY DEF Headers, Valid, Start, End, Least, Greatest

\* parse_range against the meaning of the header, byte by byte: it is rejected
\* exactly when no byte is asked for, and gives exactly these bytes otherwise.
THEOREM RangeCorrect ==
  ASSUME NEW h \in Headers, NEW n \in Nat, n > 0
  PROVE  /\ Valid(h, n) <=> Wanted(h, n) # {}
         /\ Valid(h, n) => Start(h, n) .. End(h, n) = Wanted(h, n)
<1>1. ASSUME Valid(h, n)
      PROVE  Start(h, n) .. End(h, n) = Wanted(h, n)
  <2>1. ASSUME NEW i \in Start(h, n) .. End(h, n)
        PROVE  i \in Wanted(h, n)
    <3>1. i \in Int /\ Start(h, n) <= i /\ i <= End(h, n)
      BY <1>1, RangeInFile
    <3> QED BY <1>1, <3>1 DEF Headers, Valid, Start, End, Least, Greatest, Wanted
  <2>2. ASSUME NEW i \in Wanted(h, n)
        PROVE  i \in Start(h, n) .. End(h, n)
    BY <1>1, <2>2 DEF Headers, Valid, Start, End, Least, Greatest, Wanted
  <2> QED BY <2>1, <2>2, Zenon
<1>2. Valid(h, n) => Wanted(h, n) # {}
  <2>1. Valid(h, n) => Start(h, n) \in Start(h, n) .. End(h, n)
    BY RangeInFile
  <2> QED BY <1>1, <2>1
<1>3. ASSUME NEW i \in Wanted(h, n) PROVE Valid(h, n)
  BY <1>3 DEF Headers, Valid, Wanted
<1> QED BY <1>1, <1>2, <1>3

-----------------------------------------------------------------------------
(* The invariant *)

LEMMA StreamInit ==
  ASSUME Init PROVE StreamInv
<1>1. TypeOK
  <2>1. header \in Headers
    BY DEF Init, Headers, NoHeader
  <2>2. size \in Nat
    BY SizeAssumption DEF Init
  <2> QED BY <2>1, <2>2 DEF Init, TypeOK, Labels
<1>2. WithinPromise /\ LengthKept /\ Clean /\ Promised /\ Backed
  BY DEF Init, WithinPromise, LengthKept, Clean, Promised, Backed
<1> QED BY <1>1, <1>2 DEF StreamInv

\* A request starts from nothing.
LEMMA RequestStep ==
  ASSUME StreamInv, NEW h \in SentHeaders, Request(h)
  PROVE  StreamInv'
<1>1. h \in Headers
  BY SizeAssumption DEF SentHeaders, Headers
<1> QED BY <1>1 DEF StreamInv, TypeOK, WithinPromise, LengthKept, Clean, Promised,
           Backed, Labels, Request, file

\* The steps before the file is opened: what is promised is inside it.
LEMMA StatStep ==
  ASSUME StreamInv, Lookup \/ Stat
  PROVE  StreamInv'
<1>1. CASE Lookup
  BY <1>1 DEF StreamInv, TypeOK, WithinPromise, LengthKept, Clean, Promised, Backed,
     Labels, Lookup, file, promise, body
<1>2. CASE Stat /\ exists /\ size > 0 /\ Valid(header, size)
  <2>1. /\ start' \in Nat /\ end' \in Nat /\ start' <= end' /\ end' < size
        /\ remaining' = end' - start' + 1
        /\ pc' = "open"
        /\ UNCHANGED <<exists, size, header, pos, held, same, sent, spoilt>>
    BY <1>2, RangeInFile DEF Stat, StreamInv, TypeOK, file
  <2>2. sent = 0 /\ ~spoilt
    BY <1>2 DEF Stat, StreamInv, Clean
  <2>3. TypeOK'
    <3>1. remaining' \in Nat
      <4> DEFINE s == start'  e == end'
      <4>1. s \in Nat /\ e \in Nat /\ s <= e /\ remaining' = e - s + 1
        BY <2>1
      <4> HIDE DEF s, e
      <4> QED BY <4>1
    <3> QED BY <2>1, <3>1 DEF StreamInv, TypeOK, Labels
  <2>4. (WithinPromise /\ LengthKept /\ Clean /\ Promised /\ Backed)'
    BY <1>2, <2>1, <2>2 DEF WithinPromise, LengthKept, Clean, Promised, Backed
  <2> QED BY <2>3, <2>4 DEF StreamInv
<1>3. CASE Stat /\ ~(exists /\ size > 0 /\ Valid(header, size))
  BY <1>3 DEF StreamInv, TypeOK, WithinPromise, LengthKept, Clean, Promised, Backed,
     Labels, Stat, file
<1> QED BY <1>1, <1>2, <1>3

\* Opening: the file that is there is as long as was promised, or spoilt.
LEMMA OpenStep ==
  ASSUME StreamInv, Open
  PROVE  StreamInv'
<1>1. CASE exists
  BY <1>1 DEF StreamInv, TypeOK, WithinPromise, LengthKept, Clean, Promised,
     Backed, Labels, Open, file, promise
<1>2. CASE ~exists
  BY <1>2 DEF StreamInv, TypeOK, WithinPromise, LengthKept, Clean, Promised,
     Backed, Labels, Open, file, promise
<1> QED BY <1>1, <1>2

\* One turn of the loop: a chunk is never longer than what remains, and is
\* empty early only if the file was cut.
LEMMA ReadStep ==
  ASSUME StreamInv, Read
  PROVE  StreamInv'
<1> DEFINE n == Least(Least(ChunkSize, remaining), Greatest(held - pos, 0))
<1>1. /\ n \in Nat /\ n <= remaining
      /\ n = 0 => remaining = 0 \/ held <= pos
  BY ChunkAssumption DEF StreamInv, TypeOK, Least, Greatest
<1>2. /\ pc = "read" /\ pc' = IF n = 0 THEN "done" ELSE "read"
      /\ remaining' = remaining - n /\ pos' = pos + n /\ sent' = sent + n
      /\ UNCHANGED <<exists, size, header, start, end, held, same, spoilt>>
  BY DEF Read, file, promise
<1> HIDE DEF n
<1>3. TypeOK'
  BY <1>1, <1>2 DEF StreamInv, TypeOK, Labels
<1>4. WithinPromise'
  BY <1>1, <1>2 DEF StreamInv, TypeOK, WithinPromise
<1>5. LengthKept'
  BY <1>1, <1>2 DEF StreamInv, TypeOK, WithinPromise, LengthKept, Backed
<1>6. (Clean /\ Promised /\ Backed)'
  BY <1>2 DEF StreamInv, Clean, Promised, Backed
<1> QED BY <1>3, <1>4, <1>5, <1>6 DEF StreamInv

LEMMA BreakOffStep ==
  ASSUME StreamInv, BreakOff
  PROVE  StreamInv'
BY DEF StreamInv, TypeOK, WithinPromise, LengthKept, Clean, Promised, Backed,
   Labels, BreakOff, file, promise, body

\* What others do to the file: only a cut can break the promise, and it is
\* remembered.
LEMMA FileStep ==
  ASSUME StreamInv, NEW n \in 0 .. MaxSize, Resize(n) \/ Replace(n) \/ Remove
  PROVE  StreamInv'
<1>0. n \in Nat
  BY SizeAssumption
<1>1. CASE Resize(n)
  <2>1. /\ size' = n /\ held' = (IF pc = "read" /\ same THEN n ELSE held)
        /\ spoilt' = (spoilt \/ ((pc = "open" \/ (pc = "read" /\ same)) /\ n < size))
        /\ UNCHANGED <<exists, pc, header, start, end, remaining, pos, same, sent>>
    BY <1>1 DEF Resize, Pending, Reading, promise
  <2>2. TypeOK'
    BY <1>0, <2>1 DEF StreamInv, TypeOK
  <2>3. (WithinPromise /\ LengthKept /\ Clean)'
    BY <2>1 DEF StreamInv, WithinPromise, LengthKept, Clean
  <2>4. Promised' /\ Backed'
    BY <1>0, <2>1 DEF StreamInv, TypeOK, Promised, Backed
  <2> QED BY <2>2, <2>3, <2>4 DEF StreamInv
<1>2. CASE Replace(n)
  <2>1. /\ exists' = TRUE /\ size' = n /\ same' = FALSE
        /\ spoilt' = (spoilt \/ (pc = "open" /\ n < size))
        /\ UNCHANGED <<pc, header, start, end, remaining, pos, held, sent>>
    BY <1>2 DEF Replace, Pending, promise
  <2>2. TypeOK'
    BY <1>0, <2>1 DEF StreamInv, TypeOK
  <2>3. (WithinPromise /\ LengthKept /\ Clean)'
    BY <2>1 DEF StreamInv, WithinPromise, LengthKept, Clean
  <2>4. Promised' /\ Backed'
    BY <1>0, <2>1 DEF StreamInv, TypeOK, Promised, Backed
  <2> QED BY <2>2, <2>3, <2>4 DEF StreamInv
<1>3. CASE Remove
  BY <1>3 DEF StreamInv, TypeOK, WithinPromise, LengthKept, Clean, Promised,
     Backed, Remove, Pending, promise
<1> QED BY <1>1, <1>2, <1>3

LEMMA StreamStep ==
  ASSUME StreamInv, [Next]_vars
  PROVE  StreamInv'
<1>1. CASE UNCHANGED vars
  BY <1>1 DEF StreamInv, TypeOK, WithinPromise, LengthKept, Clean, Promised,
     Backed, vars, file, promise, body
<1>2. CASE \E h \in SentHeaders : Request(h)
  BY <1>2, RequestStep
<1>3. CASE Serve \/ BreakOff
  BY <1>3, StatStep, OpenStep, ReadStep, BreakOffStep DEF Serve
<1>4. CASE \E n \in 0 .. MaxSize : Resize(n) \/ Replace(n)
  BY <1>4, FileStep
<1>5. CASE Remove
  <2>1. 0 \in 0 .. MaxSize
    BY SizeAssumption
  <2> QED BY <1>5, <2>1, FileStep
<1> QED BY <1>1, <1>2, <1>3, <1>4, <1>5 DEF Next

-----------------------------------------------------------------------------
(* The theorems *)

THEOREM StreamInvariant == Spec => []StreamInv
<1>1. Init => StreamInv
  BY StreamInit
<1>2. StreamInv /\ [Next]_vars => StreamInv'
  BY StreamStep
<1> QED BY <1>1, <1>2, PTL DEF Spec

\* Every variable of MusicStream keeps its type: no offset or counter of
\* iter_file is ever negative.
THEOREM StreamTypes == Spec => []TypeOK
<1>1. StreamInv => TypeOK
  BY DEF StreamInv
<1> QED BY <1>1, StreamInvariant, PTL

\* iter_file sends the promised bytes in order and nothing beyond them, and all
\* of them unless the file was cut.
THEOREM StreamKeepsPromise == Spec => []KeepsPromise
<1>1. StreamInv => KeepsPromise
  BY DEF StreamInv, KeepsPromise
<1> QED BY <1>1, StreamInvariant, PTL

\* The bytes that a response promises are those that its header asks for.
THEOREM StreamPromises == Spec => PromisesWanted
<1> DEFINE Promise ==
      pc = "stat" /\ exists /\ pc' \in {"open", "refused"} =>
        IF Wanted(header, size) = {}
          THEN pc' = "refused"
          ELSE pc' = "open" /\ start' .. end' = Wanted(header, size)
<1>1. ASSUME StreamInv, [Next]_vars PROVE [Promise]_vars
  <2>1. SUFFICES ASSUME pc = "stat", exists, pc' \in {"open", "refused"}
                 PROVE  IF Wanted(header, size) = {}
                          THEN pc' = "refused"
                          ELSE pc' = "open" /\ start' .. end' = Wanted(header, size)
    OBVIOUS
  <2>2. Stat
    BY <1>1, <2>1 DEF Next, Serve, Request, Lookup, Open, Read, BreakOff, Resize,
       Replace, Remove, vars
  <2>3. header \in Headers /\ size \in Nat
    BY <1>1 DEF StreamInv, TypeOK
  <2>4. CASE size > 0
    BY <2>1, <2>2, <2>3, <2>4, RangeCorrect DEF Stat
  <2>5. CASE size = 0
    <3>1. Wanted(header, size) = {}
      BY <2>5 DEF Wanted
    <3> QED BY <2>1, <2>2, <2>5, <3>1 DEF Stat
  <2> QED BY <2>3, <2>4, <2>5
<1> QED BY <1>1, StreamInvariant, PTL DEF Spec, PromisesWanted

-----------------------------------------------------------------------------
(* The way of a response *)

Stage(l) ==
  CASE l = "lookup" -> 4 [] l = "stat" -> 3 [] l = "open" -> 2 [] l = "read" -> 1 [] OTHER -> 0

Ongoing == pc \in {"lookup", "stat", "open", "read"}
Onward ==
  \/ UNCHANGED <<pc, remaining>>
  \/ Stage(pc') \in 0 .. Stage(pc) - 1
  \/ pc' = pc /\ remaining' \in 0 .. remaining - 1

\* No response goes back: each step of iter_file takes a byte at least, or the
\* response is over, whatever becomes of the file in the middle of it.
ResponseAdvances == [][Ongoing => Onward]_vars

\* What is left of the claim that a response ends is that the client reads: the
\* fairness of FairSpec.
THEOREM StreamAdvances == Spec => ResponseAdvances
<1>1. ASSUME StreamInv, [Next]_vars, Ongoing
      PROVE  Onward
  <2>1. CASE Read
    <3> DEFINE n == Least(Least(ChunkSize, remaining), Greatest(held - pos, 0))
    <3>1. remaining \in Nat /\ held \in Nat /\ pos \in Nat /\ ChunkSize \in Nat
      BY <1>1, ChunkAssumption DEF StreamInv, TypeOK
    <3>2. n \in 0 .. remaining
      BY <3>1 DEF Least, Greatest
    <3>3. pc = "read" /\ remaining' = remaining - n /\ pc' = IF n = 0 THEN "done" ELSE "read"
      BY <2>1 DEF Read
    <3> HIDE DEF n
    <3> QED BY <3>1, <3>2, <3>3 DEF Stage, Onward
  <2>2. CASE Lookup \/ Stat \/ Open \/ BreakOff
    BY <1>1, <2>2 DEF Lookup, Stat, Open, BreakOff, Stage, Onward
  <2>3. CASE ~Read /\ ~Lookup /\ ~Stat /\ ~Open /\ ~BreakOff
    BY <1>1, <2>3 DEF Next, Serve, Request, Resize, Replace, Remove, vars, body, Ongoing, Onward
  <2> QED BY <2>1, <2>2, <2>3
<1>2. StreamInv /\ [Next]_vars => [Ongoing => Onward]_vars
  BY <1>1
<1> QED BY <1>2, StreamInvariant, PTL DEF Spec, ResponseAdvances

=============================================================================
