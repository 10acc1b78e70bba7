----------------------------- MODULE MusicStream -----------------------------
(***************************************************************************)
(* GET /music/stream/{id}: stream_music, parse_range and iter_file of      *)
(* app/service/music.py, one response after another, over a file that      *)
(* others truncate, extend, replace or remove meanwhile.                   *)
(*                                                                         *)
(* The size of the file is taken before the response starts and the file   *)
(* is opened after that: what was promised and what is sent may differ.    *)
(***************************************************************************)
EXTENDS Integers

CONSTANTS
  ChunkSize,  \* the 1024 * 1024 of iter_file
  MaxSize     \* bound on file sizes and on the numbers in a header

ASSUME ChunkAssumption == ChunkSize \in Nat \ {0}
ASSUME SizeAssumption == MaxSize \in Nat

VARIABLES
  exists,     \* file_path.is_file()
  size,       \* its size
  pc,         \* what the response is doing
  header,     \* the Range header of the request
  start,      \* byte_range of the response
  end,
  remaining,  \* of iter_file
  pos,        \* position in the open file
  held,       \* size of the open file
  same,       \* the open file is the one that the path names
  sent,       \* bytes sent
  spoilt      \* history: the file was cut after its size was taken

file == <<exists, size>>
promise == <<header, start, end>>
body == <<remaining, pos, held, same, sent>>
vars == <<file, pc, promise, body, spoilt>>

Labels == {"idle", "lookup", "stat", "open", "read", "done", "refused", "failed"}

\* The forms of a Range header that parse_range tells apart: a-b, a- and -b,
\* where b is whatever int() makes of it, and anything else.
Headers == [kind : {"none", "malformed", "span", "from", "suffix"},
            a : Nat, b : Int]
NoHeader == [kind |-> "none", a |-> 0, b |-> 0]

\* Bound: the numbers that a client sends.
SentHeaders ==
  [kind : {"none", "malformed"}, a : {0}, b : {0}]
    \cup [kind : {"span"}, a : 0 .. MaxSize, b : -1 .. MaxSize]
    \cup [kind : {"from"}, a : 0 .. MaxSize, b : {0}]
    \cup [kind : {"suffix"}, a : {0}, b : -1 .. MaxSize]

TypeOK ==
  /\ exists \in BOOLEAN /\ size \in Nat
  /\ pc \in Labels
  /\ header \in Headers
  /\ start \in Nat /\ end \in Nat
  /\ remaining \in Nat /\ pos \in Nat /\ held \in Nat /\ sent \in Nat
  /\ same \in BOOLEAN /\ spoilt \in BOOLEAN

Init ==
  /\ exists = TRUE /\ size \in 0 .. MaxSize
  /\ pc = "idle" /\ header = NoHeader
  /\ start = 0 /\ end = 0
  /\ remaining = 0 /\ pos = 0 /\ held = 0 /\ same = FALSE /\ sent = 0
  /\ spoilt = FALSE

-----------------------------------------------------------------------------
(* parse_range *)

Least(x, y) == IF x <= y THEN x ELSE y
Greatest(x, y) == IF x >= y THEN x ELSE y

\* Mutant: start > file_size.
ValidLoose(h, n) ==
  \/ h.kind = "none"
  \/ h.kind = "suffix" /\ h.b > 0
  \/ h.kind \in {"span", "from"} /\ h.a <= n
       /\ (h.kind = "span" => h.b >= h.a)

\* It does not raise InvalidRange.
Valid(h, n) ==
  \/ h.kind = "none"
  \/ h.kind = "suffix" /\ h.b > 0
  \/ h.kind \in {"span", "from"} /\ h.a < n
       /\ (h.kind = "span" => h.b >= h.a)

\* Mutant: file_size - suffix_length, which may be negative.
StartUnbounded(h, n) ==
  CASE h.kind = "none" -> 0 [] h.kind = "suffix" -> n - h.b [] OTHER -> h.a

Start(h, n) ==
  CASE h.kind = "none" -> 0
    [] h.kind = "suffix" -> Greatest(n - h.b, 0)
    [] OTHER -> h.a

\* Mutant: end = int(end_str), without the minimum.
EndUnbounded(h, n) == IF h.kind = "span" THEN h.b ELSE n - 1

End(h, n) == IF h.kind = "span" THEN Least(h.b, n - 1) ELSE n - 1

-----------------------------------------------------------------------------
(* stream_music *)

\* A request, once the one before is over.
Request(h) ==
  /\ pc \in {"idle", "done", "refused", "failed"}
  /\ pc' = "lookup" /\ header' = h
  /\ start' = 0 /\ end' = 0
  /\ remaining' = 0 /\ pos' = 0 /\ held' = 0 /\ same' = FALSE /\ sent' = 0
  /\ spoilt' = FALSE
  /\ UNCHANGED file

\* get_single_track: TRACK_NOT_FOUND, or a row with the path of the file.
Lookup ==
  /\ pc = "lookup"
  /\ pc' \in {"stat", "refused"}
  /\ UNCHANGED <<file, promise, body, spoilt>>

\* From is_file() to the return of the response there is no await.
Stat ==
  /\ pc = "stat"
  /\ IF exists /\ size > 0 /\ Valid(header, size)
       THEN /\ pc' = "open"
            /\ start' = Start(header, size) /\ end' = End(header, size)
            /\ remaining' = end' - start' + 1
       ELSE /\ pc' = "refused"
            /\ UNCHANGED <<start, end, remaining>>
  /\ UNCHANGED <<file, header, pos, held, same, sent, spoilt>>

-----------------------------------------------------------------------------
(* iter_file *)

\* aiofiles.open and seek.  The headers are out: an exception breaks off.
Open ==
  /\ pc = "open"
  /\ IF exists
       THEN pc' = "read" /\ pos' = start /\ held' = size /\ same' = TRUE
       ELSE pc' = "failed" /\ UNCHANGED <<pos, held, same>>
  /\ UNCHANGED <<file, promise, remaining, sent, spoilt>>

\* Mutant: chunks of 1024 * 1024 bytes, without the minimum.
ReadWholeChunks ==
  LET n == Least(ChunkSize, Greatest(held - pos, 0)) IN
  /\ pc = "read"
  /\ pc' = IF remaining <= 0 \/ n = 0 THEN "done" ELSE "read"
  /\ remaining' = IF remaining <= 0 THEN remaining ELSE remaining - n
  /\ pos' = IF remaining <= 0 THEN pos ELSE pos + n
  /\ sent' = IF remaining <= 0 THEN sent ELSE sent + n
  /\ UNCHANGED <<file, promise, held, same, spoilt>>

\* Mutant: the loop does not stop when a chunk is empty.
ReadPastEnd ==
  LET n == Least(Least(ChunkSize, remaining), Greatest(held - pos, 0)) IN
  /\ pc = "read"
  /\ pc' = IF remaining = 0 THEN "done" ELSE "read"
  /\ remaining' = remaining - n /\ pos' = pos + n /\ sent' = sent + n
  /\ UNCHANGED <<file, promise, held, same, spoilt>>

\* One turn of the loop; it ends with the range or with the file.
Read ==
  LET n == Least(Least(ChunkSize, remaining), Greatest(held - pos, 0)) IN
  /\ pc = "read"
  /\ pc' = IF n = 0 THEN "done" ELSE "read"
  /\ remaining' = remaining - n /\ pos' = pos + n /\ sent' = sent + n
  /\ UNCHANGED <<file, promise, held, same, spoilt>>

\* The client goes away, or reading fails.
BreakOff ==
  /\ pc \in {"lookup", "stat", "open", "read"}
  /\ pc' = "failed"
  /\ UNCHANGED <<file, promise, body, spoilt>>

-----------------------------------------------------------------------------
(* The file *)

\* The path is still to be opened.
Pending == pc = "open"
Reading == pc = "read" /\ same

\* Somebody writes to the file in place.
Resize(n) ==
  /\ exists /\ n # size
  /\ size' = n
  /\ held' = IF Reading THEN n ELSE held
  /\ spoilt' = (spoilt \/ ((Pending \/ Reading) /\ n < size))
  /\ UNCHANGED <<exists, pc, promise, remaining, pos, same, sent>>

\* Another file takes its path: what is open already stays as it is.
Replace(n) ==
  /\ exists' = TRUE /\ size' = n /\ same' = FALSE
  /\ spoilt' = (spoilt \/ (Pending /\ n < size))
  /\ UNCHANGED <<pc, promise, remaining, pos, held, sent>>

Remove ==
  /\ exists
  /\ exists' = FALSE /\ same' = FALSE
  /\ spoilt' = (spoilt \/ Pending)
  /\ UNCHANGED <<size, pc, promise, remaining, pos, held, sent>>

Serve == Lookup \/ Stat \/ Open \/ Read

\* Bound: the sizes that files take.
Next ==
  \/ \E h \in SentHeaders : Request(h)
  \/ Serve \/ BreakOff
  \/ \E n \in 0 .. MaxSize : Resize(n) \/ Replace(n)
  \/ Remove

Spec == Init /\ [][Next]_vars

\* The event loop goes on with the response as long as the client reads.
FairSpec == Spec /\ WF_vars(Serve)

-----------------------------------------------------------------------------
(* Properties *)

\* The bytes of a file of n bytes that a header asks for: what "first-last",
\* "first-" and "-length" mean, byte by byte.
Wanted(h, n) ==
  {i \in 0 .. n - 1 :
     \/ h.kind = "none"
     \/ h.kind = "span" /\ h.a <= i /\ i <= h.b
     \/ h.kind = "from" /\ h.a <= i
     \/ h.kind = "suffix" /\ i >= n - h.b}

\* parse_range and the checks before it: the response promises exactly the
\* bytes that were asked for, in the file as it is at that moment, and is
\* refused when there are none.
PromisesWanted ==
  [][pc = "stat" /\ exists /\ pc' \in {"open", "refused"} =>
       IF Wanted(header, size) = {}
         THEN pc' = "refused"
         ELSE pc' = "open" /\ start' .. end' = Wanted(header, size)]_vars

\* iter_file sends the promised bytes in order, without gaps, and never more
\* than the Content-Length, whatever happens to the file.
WithinPromise ==
  pc \in {"read", "done"} =>
    /\ pos = start + sent
    /\ sent + remaining = end - start + 1
    /\ sent > 0 => pos <= end + 1

\* The Content-Length is kept, however the file was replaced, removed or
\* extended, unless it was cut: before it was opened, or in place.
LengthKept == pc = "done" /\ ~spoilt => sent = end - start + 1

\* What is sent is what was promised: at every moment a beginning of it, in the
\* end all of it, or the file was cut.
KeepsPromise == WithinPromise /\ LengthKept

\* Every response ends, however often the file changes.
StreamsEnd == pc = "lookup" ~> pc \in {"done", "refused", "failed"}

=============================================================================
