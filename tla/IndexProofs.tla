----------------------------- MODULE IndexProofs -----------------------------
(***************************************************************************)
(* For every set of documents, any number of workers, buffers of any size  *)
(* and index files of any length: what the workers of CsvIndex::build make *)
(* of a document is what one parser makes of it, and whatever was torn,    *)
(* failed or written over, an index that loads is that of the document it  *)
(* identifies.                                                             *)
(*                                                                         *)
(* The build's invariant is about every chunk that has been claimed: it    *)
(* has been parsed, or is about to be, or lies at or past a failure that   *)
(* has been.  The index file's is about its header and its checksums: a    *)
(* header that identifies a document stands before that document's         *)
(* entries only, and a checksum of a header behind that of its document's  *)
(* entries only, whatever else the file is made of; and what is yet to be  *)
(* written keeps it so, because it continues what has been.                *)
(***************************************************************************)
EXTENDS CsvIndex, Arithmetic, SequenceTheorems

Chunks == DOMAIN cut
Ahead(w) == pc[w] \in {"check", "parse"}
Failures == {r \in parsed : r.result.state = "err"}

(* The document and its cut, and what the workers can have of them.        *)
Cutting ==
    /\ WellFormed(doc)
    /\ cut \in Cuts(doc)
    /\ cursor \in Nat \ {0}
    /\ pc \in [Workers -> {"idle", "claim", "check", "parse", "fence", "done"}]
    /\ chunk \in [Workers -> Nat]
    /\ seen \in [Workers -> published]
    /\ barrier \in published

(* A worker that is in a chunk has claimed it, and one that is to publish  *)
(* a failure has kept it.                                                  *)
Claimed ==
    \A w \in Workers :
        /\ pc[w] \in {"check", "parse", "fence"} => chunk[w] \in Chunks
        /\ pc[w] = "fence" => ParsedChunk(chunk[w]) \in Failures

(* What has been published is a failure that somebody has met.             *)
Published ==
    \A v \in published : v = NO_FAILURE \/ \E r \in Failures : v = r.result.at

(* No chunk is lost but those at or past a failure.                        *)
Cover ==
    \A c \in Chunks : c < cursor =>
        \/ ParsedChunk(c) \in parsed
        \/ \E w \in Workers : Ahead(w) /\ chunk[w] = c
        \/ \E v \in published : v <= ChunkStart(c)

(* A worker ends once all chunks are claimed, and one that was never       *)
(* spawned does nothing.                                                   *)
Exhausted ==
    \A w \in Workers :
        /\ pc[w] = "done" => cursor \notin Chunks
        /\ w \notin Spawned => pc[w] = "idle"

ParsedFrom(first) == {ParsedChunk(c) : c \in {d \in Chunks : first <= d}}

Working ==
    Cutting /\ Claimed /\ Published /\ Cover /\ Exhausted /\ parsed \subseteq ParsedFrom(1)

(* While the chunks are put together, none of them failed, and the first   *)
(* ones have been.                                                         *)
Assembled ==
    /\ doc.failing = {}
    /\ \A w \in Workers : pc[w] \in {"idle", "done"}
    /\ \E c \in Chunks :
          /\ parsed = ParsedFrom(c)
          /\ outcome.starts = SubSeq(doc.starts, 1, cut[c] - 1)

(* What is known of a build, at each of its stages.                        *)
Sound ==
    /\ outcome.state \in {"none", "running", "merging", "ok", "err"}
    /\ outcome.state # "none" => WellFormed(doc)
    /\ outcome.state = "running" => Working
    /\ outcome.state = "merging" => Cutting /\ Assembled
    /\ BuildIsSerial

-----------------------------------------------------------------------------
IsSeq(s) == s \in Seq({s[i] : i \in DOMAIN s})
Whole(d) == WellFormed(d) /\ d.failing = {}

StreamCells(offsets) == <<Zeroed, Counts(0)>> \o EntryCells(offsets)
SaveCells(d) == Header(d, Len(d.starts)) \o EntryCells(d.starts) \o Trailers(d, d.starts)
Script(d) == StreamPlan(d.starts) \o ClosingPlan(d, d.starts)

(* A header that identifies a document is followed by its entries, as far  *)
(* as they have been written, and by nobody else's.                        *)
TrueHeader(cells) ==
    cells # <<>> /\ cells[1].cell = "identity" /\ cells[1].identity # <<>> =>
        LET d == Stored(cells)
        IN  /\ cells[1] = Identifies(d) /\ Whole(d)
            /\ 2 \in DOMAIN cells /\ cells[2].cell = "count" => cells[2].count \in {0, Len(d.starts)}
            /\ \A r \in DOMAIN d.starts :
                  2 + r \in DOMAIN cells /\ cells[2 + r].cell = "entry" =>
                      cells[2 + r] = Entry(d.starts[r])

(* A checksum of a header stands behind the checksum of that document's    *)
(* entries, if behind one at all.                                          *)
TrueSums(cells) ==
    \A i \in DOMAIN cells : cells[i].cell = "headerSum" =>
        LET d == cells[i].header[1].identity[1]
        IN  /\ cells[i] = HeaderSum(Identifies(d), Counts(Len(d.starts))) /\ Whole(d)
            /\ i - 1 \in DOMAIN cells /\ cells[i - 1].cell = "entriesSum" =>
                  cells[i - 1] = EntriesSum(d.starts)

(* What a stream that has made n writes has put into the file.             *)
Streamed(cells, offsets, n) ==
    /\ n <= Len(cells)
    /\ \A i \in 1..n : cells[i] = StreamCells(offsets)[i]

Saving ==
    task.doing = "save" =>
        LET cells == SaveCells(task.of)
        IN  /\ Whole(task.of)
            /\ Len(file) + Len(plan) = Len(cells)
            /\ \A i \in DOMAIN file : file[i] = cells[i]
            /\ \A j \in DOMAIN plan : plan[j] = [at |-> Len(file) + j, cell |-> cells[Len(file) + j]]

Generating ==
    task.doing = "generate" =>
        LET offsets == task.starts
            n       == Len(offsets) + 2 - Len(plan)
        IN  /\ Whole(task.of)
            /\ task = [doing |-> "generate", of |-> task.of, headers |-> task.headers,
                       starts |-> offsets, flushed |-> task.flushed, buffered |-> task.buffered]
            /\ offsets \in Seq(Nat) /\ Len(offsets) <= Len(task.of.starts)
            /\ \A r \in DOMAIN offsets : offsets[r] = task.of.starts[r]
            /\ task.flushed \in Nat /\ task.buffered \in Nat
            /\ task.flushed + task.buffered = Upto(task.of, Len(offsets)).length
            /\ n \in Nat /\ Streamed(file, offsets, n)
            /\ \A j \in DOMAIN plan : plan[j] = [at |-> n + j, cell |-> StreamCells(offsets)[n + j]]

(* And what it has once the header is gone back to, n - Len(d.starts) - 2  *)
(* writes of the closing later.                                            *)
Closed(cells, d, n) ==
    LET m == Len(d.starts) + 2
    IN  /\ m <= Len(cells)
        /\ cells[1] = Identifies(d)
        /\ cells[2] = Counts(IF n = m + 1 THEN 0 ELSE Len(d.starts))
        /\ \A r \in DOMAIN d.starts : cells[2 + r] = Entry(d.starts[r])
        /\ n = m + 3 => Len(cells) > m /\ cells[Len(cells)] = EntriesSum(d.starts)
        /\ n = m + 4 => /\ Len(cells) > m + 1
                        /\ cells[Len(cells) - 1] = EntriesSum(d.starts)
                        /\ cells[Len(cells)] = HeaderSum(Identifies(d), Counts(Len(d.starts)))

Creating ==
    task.doing = "create" =>
        LET d == task.of
            m == Len(d.starts) + 2
            n == m + 4 - Len(plan)
        IN  /\ Whole(d)
            /\ n \in Nat
            /\ n <= m => Streamed(file, d.starts, n)
            /\ n > m => Closed(file, d, n)
            /\ \A j \in DOMAIN plan : plan[j] = Script(d)[n + j]

GivingUp ==
    task.doing = "abandon" =>
        /\ \A j \in DOMAIN plan :
              /\ plan[j].at \in Nat \ {0}
              /\ plan[j].cell = Zeroed \/ plan[j].cell.cell \in {"count", "entry"}
              /\ plan[j].at = 1 => plan[j].cell = Zeroed
        /\ plan # <<>> => \/ file # <<>> /\ file[1] = Zeroed
                          \/ plan[1] = [at |-> 1, cell |-> Zeroed]

(* What is known of the index file, of what is yet to be written to it, of *)
(* what a caller was told and of the index in memory.                      *)
Writing == task.doing \in {"save", "create", "generate", "abandon"}

Filed ==
    /\ IsSeq(file) /\ IsSeq(plan) /\ TrueHeader(file) /\ TrueSums(file)
    /\ task.doing \in {"nothing", "build"} \/ Writing
    /\ ~Writing => plan = <<>>
    /\ Saving /\ Generating /\ Creating /\ GivingUp

Announced == CompletedLoads /\ (Writing => completed = NoSource)

Remembered == memory # NoIndex => Whole(memory.of) /\ memory.starts = memory.of.starts

IInv == WellFormed(source) /\ Sound /\ Filed /\ Announced /\ Remembered

-----------------------------------------------------------------------------
(* Min finds the least of the numbers there are.                           *)
LEMMA MinIsLeast ==
    ASSUME NEW S, S \subseteq Nat, S # {}
    PROVE  Min(S) \in S /\ \A n \in S : Min(S) <= n
<1>1. \E m \in S : \A n \in S : m <= n
  BY LeastExists
<1> QED  BY <1>1 DEF Min

LEMMA MinUnique ==
    ASSUME NEW S, S \subseteq Nat, NEW m \in S, \A n \in S : m <= n
    PROVE  Min(S) = m
<1>1. Min(S) \in S /\ Min(S) <= m
  BY MinIsLeast
<1>2. m <= Min(S) /\ m \in Nat /\ Min(S) \in Nat
  BY <1>1
<1> QED  BY <1>1, <1>2

(* A cut is increasing, and its parts lie within the document.             *)
LEMMA CutBounds ==
    ASSUME WellFormed(doc), cut \in Cuts(doc)
    PROVE  /\ Len(cut) \in Nat \ {0} /\ Chunks = 1..Len(cut) /\ cut[1] = 1
           /\ Len(doc.starts) \in Nat
           /\ \A c \in Chunks :
                 /\ cut[c] \in Nat \ {0} /\ cut[c] <= Len(doc.starts) + 1
                 /\ c > 1 => cut[c] <= Len(doc.starts)
                 /\ cut[c] <= LastRecord(c) + 1 /\ LastRecord(c) \in 0..Len(doc.starts)
           /\ \A b, c \in Chunks : b < c => cut[b] < cut[c]
<1>1. doc.starts \in Seq(Nat) /\ DOMAIN doc.starts = 1..Len(doc.starts) /\ Len(doc.starts) \in Nat
  BY DEF WellFormed
<1>2. PICK n \in 1..Len(doc.starts) + 1 : cut \in [1..n -> {1} \cup DOMAIN doc.starts]
  BY <1>1 DEF Cuts
<1>3. n \in Nat \ {0} /\ cut \in Seq(Nat) /\ Len(cut) = n /\ Chunks = 1..n
  BY <1>1, <1>2 DEF Chunks
<1>4. cut[1] = 1 /\ \A b, c \in Chunks : b < c => cut[b] < cut[c]
  BY DEF Cuts, Chunks
<1>5. ASSUME NEW c \in Chunks
      PROVE  /\ cut[c] \in Nat \ {0} /\ cut[c] <= Len(doc.starts) + 1
             /\ c > 1 => cut[c] <= Len(doc.starts)
  <2>1. cut[c] \in {1} \cup 1..Len(doc.starts)
    BY <1>1, <1>2, <1>3
  <2>2. c > 1 => 1 < cut[c]
    BY <1>3, <1>4
  <2> QED  BY <1>1, <2>1, <2>2
<1>6. ASSUME NEW c \in Chunks
      PROVE  cut[c] <= LastRecord(c) + 1 /\ LastRecord(c) \in 0..Len(doc.starts)
  <2>1. CASE c < Len(cut)
    <3>1. c + 1 \in Chunks /\ c < c + 1
      BY <1>3, <2>1
    <3>2. cut[c] < cut[c + 1] /\ cut[c + 1] \in Nat /\ cut[c + 1] <= Len(doc.starts) + 1
      BY <1>4, <1>5, <3>1
    <3>3. LastRecord(c) = cut[c + 1] - 1
      BY <2>1 DEF LastRecord
    <3> QED  BY <1>1, <1>5, <3>2, <3>3
  <2>2. CASE ~(c < Len(cut))
    <3>1. LastRecord(c) = Len(doc.starts)
      BY <2>2 DEF LastRecord
    <3> QED  BY <1>1, <1>5, <3>1
  <2> QED  BY <2>1, <2>2
<1> QED  BY <1>1, <1>3, <1>4, <1>5, <1>6

(* Every record is in a chunk.                                             *)
LEMMA ChunkOfRecord ==
    ASSUME WellFormed(doc), cut \in Cuts(doc), NEW r \in DOMAIN doc.starts
    PROVE  \E c \in Chunks : cut[c] <= r /\ r <= LastRecord(c)
<1> DEFINE Later == {c \in Chunks : r < cut[c]}
<1>1. /\ Len(cut) \in Nat \ {0} /\ Chunks = 1..Len(cut) /\ cut[1] = 1
      /\ \A c \in Chunks : cut[c] \in Nat \ {0}
  BY CutBounds
<1>2. r \in 1..Len(doc.starts) /\ Len(doc.starts) \in Nat
  BY DEF WellFormed
<1>3. CASE Later = {}
  <2>1. Len(cut) \in Chunks /\ ~(r < cut[Len(cut)])
    BY <1>1, <1>3
  <2>2. LastRecord(Len(cut)) = Len(doc.starts)
    BY <1>1 DEF LastRecord
  <2> QED  BY <1>1, <1>2, <2>1, <2>2
<1>4. CASE Later # {}
  <2> Later \subseteq Nat
    BY <1>1
  <2> HIDE DEF Later
  <2>1. PICK m \in Later : \A n \in Later : m <= n
    BY <1>4, LeastExists
  <2> USE DEF Later
  <2>2. m \in 1..Len(cut) /\ m # 1 /\ r < cut[m]
    BY <1>1, <1>2, <2>1
  <2>3. m - 1 \in Chunks /\ m - 1 < Len(cut) /\ (m - 1) + 1 = m
    BY <1>1, <2>2
  <2>4. ~(r < cut[m - 1])
    BY <1>1, <2>1, <2>3
  <2>5. LastRecord(m - 1) = cut[m] - 1
    BY <2>3 DEF LastRecord
  <2> QED  BY <1>1, <1>2, <2>2, <2>3, <2>4, <2>5
<1> QED  BY <1>3, <1>4

(* What the parse of a chunk comes to.                                     *)
LEMMA ParsedChunkIs ==
    ASSUME WellFormed(doc), cut \in Cuts(doc), NEW c \in Chunks
    PROVE  LET failures == doc.failing \cap (cut[c]..LastRecord(c))
               result == ParsedChunk(c).result
           IN  /\ ParsedChunk(c).chunk = c
               /\ result.state \in {"ok", "err"}
               /\ result.state = "err" <=> failures # {}
               /\ failures = {} => result.starts = SubSeq(doc.starts, cut[c], LastRecord(c))
               /\ \A m \in failures : (\A n \in failures : m <= n) => result.at = doc.starts[m]
<1> DEFINE failures == doc.failing \cap (cut[c]..LastRecord(c))
<1>1. failures \subseteq Nat
  BY CutBounds DEF WellFormed
<1>2. \A m \in failures : (\A n \in failures : m <= n) => Min(failures) = m
  BY <1>1, MinUnique
<1>3. ParsedChunk(c) = [chunk |-> c, result |->
          IF failures = {} THEN Positions(SubSeq(doc.starts, cut[c], LastRecord(c)))
          ELSE Failure(doc.starts[Min(failures)])]
  BY DEF ParsedChunk
<1> HIDE DEF failures
<1>4. CASE failures = {}
  BY <1>3, <1>4 DEF Positions, failures
<1>5. CASE failures # {}
  <2>1. ParsedChunk(c).chunk = c /\ ParsedChunk(c).result = Failure(doc.starts[Min(failures)])
    BY <1>3, <1>5
  <2>2. /\ ParsedChunk(c).result.state = "err"
        /\ ParsedChunk(c).result.at = doc.starts[Min(failures)]
    BY <2>1 DEF Failure
  <2> QED  BY <1>2, <1>5, <2>1, <2>2 DEF failures
<1> QED  BY <1>4, <1>5

(* A worker's failure is that of a record.                                 *)
LEMMA FailuresAreFailing ==
    ASSUME Working
    PROVE  \A r \in Failures : \E f \in doc.failing : r.result.at = doc.starts[f]
<1>1. /\ WellFormed(doc) /\ cut \in Cuts(doc) /\ doc.failing \subseteq Nat
      /\ parsed \subseteq ParsedFrom(1)
  BY DEF Working, Cutting, WellFormed
<1>2. TAKE r \in Failures
<1>3. PICK c \in Chunks : r = ParsedChunk(c)
  BY <1>1 DEF Failures, ParsedFrom
<1> DEFINE failures == doc.failing \cap (cut[c]..LastRecord(c))
<1>4. failures # {}
  BY <1>1, <1>3, ParsedChunkIs DEF Failures
<1>5. failures \subseteq Nat
  BY <1>1
<1> HIDE DEF failures
<1>6. PICK m \in failures : \A n \in failures : m <= n
  BY <1>4, <1>5, LeastExists
<1>7. r.result.at = doc.starts[m]
  BY <1>1, <1>3, <1>6, ParsedChunkIs DEF failures
<1> QED  BY <1>6, <1>7 DEF failures

LEMMA AtsAreOffsets ==
    ASSUME Working
    PROVE  \A r \in Failures : r.result.at \in Nat
<1>1. \A f \in doc.failing : doc.starts[f] \in Nat
  BY DEF Working, Cutting, WellFormed
<1> QED  BY <1>1, FailuresAreFailing

-----------------------------------------------------------------------------
(* The bytes that a generation has written are a document of their own.    *)
LEMMA UptoWellFormed ==
    ASSUME NEW d, WellFormed(d), NEW k \in 0..Len(d.starts)
    PROVE  WellFormed(Upto(d, k))
<1>1. /\ d.length \in Nat /\ d.starts \in Seq(Nat) /\ Len(d.starts) \in Nat
      /\ DOMAIN d.starts = 1..Len(d.starts)
      /\ \A r \in DOMAIN d.starts : d.starts[r] \in Nat /\ d.starts[r] < d.length
      /\ \A q, r \in DOMAIN d.starts : q < r => d.starts[q] < d.starts[r]
  BY DEF WellFormed
<1> DEFINE u == Upto(d, k)
<1>2. /\ u.starts = SubSeq(d.starts, 1, k) /\ u.failing = {}
      /\ u.length = IF k < Len(d.starts) THEN d.starts[k + 1] ELSE d.length
  BY DEF Upto
<1>3. /\ u.starts \in Seq(Nat) /\ DOMAIN u.starts = 1..k
      /\ \A r \in 1..k : u.starts[r] = d.starts[r]
  <2>1. \A r \in 1..k : d.starts[r] \in Nat
    BY <1>1
  <2>2. /\ u.starts \in Seq(Nat) /\ Len(u.starts) = (IF 1 <= k THEN k - 1 + 1 ELSE 0)
        /\ \A r \in 1..(k - 1 + 1) : u.starts[r] = d.starts[1 + r - 1]
    BY <1>2, <2>1, SubSeqProperties
  <2> QED  BY <2>2
<1>4. u.length \in Nat /\ \A r \in 1..k : u.starts[r] < u.length
  <2>1. CASE k < Len(d.starts)
    <3>1. k + 1 \in DOMAIN d.starts
      BY <1>1, <2>1
    <3>2. \A r \in 1..k : r \in DOMAIN d.starts /\ r < k + 1
      BY <1>1
    <3> QED  BY <1>1, <1>2, <1>3, <2>1, <3>1, <3>2
  <2>2. CASE k = Len(d.starts)
    BY <1>1, <1>2, <1>3, <2>2
  <2> QED  BY <1>1, <2>1, <2>2
<1>5. \A q, r \in 1..k : q < r => u.starts[q] < u.starts[r]
  <2> TAKE q, r \in 1..k
  <2>1. q \in DOMAIN d.starts /\ r \in DOMAIN d.starts
    BY <1>1
  <2> QED  BY <1>1, <1>3, <2>1
<1> QED  BY <1>2, <1>3, <1>4, <1>5 DEF WellFormed

-----------------------------------------------------------------------------
(* Once all workers are done: what the caller makes of their results.      *)
LEMMA GatherIsSerial ==
    ASSUME Working, Gather
    PROVE  \/ outcome' = Serial(doc) /\ outcome'.state = "err"
           \/ outcome' = Merging(<<>>) /\ doc.failing = {} /\ parsed = ParsedFrom(1)
<1>1. /\ Cutting /\ Claimed /\ Published /\ Cover /\ Exhausted /\ parsed \subseteq ParsedFrom(1)
      /\ \A w \in Spawned : pc[w] = "done"
      /\ outcome' = IF Failures = {} THEN Merging(<<>>) ELSE Failure(Min({r.result.at : r \in Failures}))
  BY DEF Working, Gather, Failures
<1> USE DEF Chunks
<1>2. /\ WellFormed(doc) /\ cut \in Cuts(doc) /\ cursor \in Nat \ {0}
      /\ Len(cut) \in Nat \ {0} /\ Chunks = 1..Len(cut)
      /\ \A c \in Chunks : cut[c] \in Nat \ {0}
  BY <1>1, CutBounds DEF Cutting
<1> DEFINE Ats == {r.result.at : r \in Failures}
<1>3. \A c \in Chunks : ParsedChunk(c) \in parsed \/ \E v \in published : v <= ChunkStart(c)
  <2>1. 1 \in Spawned /\ 1 \in Workers
    BY <1>2, ThreadsAssumption DEF Spawned, Workers
  <2>2. cursor \notin Chunks
    BY <1>1, <2>1 DEF Exhausted
  <2>3. \A c \in Chunks : c < cursor
    BY <1>2, <2>2
  <2>4. \A w \in Workers : ~Ahead(w)
    BY <1>1 DEF Exhausted, Ahead
  <2> QED  BY <1>1, <2>3, <2>4 DEF Cover
<1>4. /\ \A r \in DOMAIN doc.starts : doc.starts[r] \in Nat /\ doc.starts[r] < doc.length
      /\ \A q, r \in DOMAIN doc.starts : q <= r => doc.starts[q] <= doc.starts[r]
      /\ doc.length \in Nat /\ doc.failing \subseteq DOMAIN doc.starts
      /\ DOMAIN doc.starts \subseteq Nat
  <2>1. /\ doc.starts \in Seq(Nat) /\ DOMAIN doc.starts = 1..Len(doc.starts)
        /\ Len(doc.starts) \in Nat
        /\ \A r \in DOMAIN doc.starts : doc.starts[r] < doc.length
        /\ \A q, r \in DOMAIN doc.starts : q < r => doc.starts[q] < doc.starts[r]
        /\ doc.length \in Nat /\ doc.failing \subseteq DOMAIN doc.starts
    BY <1>2 DEF WellFormed
  <2>2. \A r \in DOMAIN doc.starts : doc.starts[r] \in Nat
    BY <2>1
  <2>3. ASSUME NEW q \in DOMAIN doc.starts, NEW r \in DOMAIN doc.starts, q <= r
        PROVE  doc.starts[q] <= doc.starts[r]
    <3>1. q < r \/ q = r
      BY <2>1, <2>3
    <3> QED  BY <2>1, <2>2, <3>1
  <2> QED  BY <2>1, <2>2, <2>3
<1>5. \A c \in Chunks : /\ ChunkStart(c) < NO_FAILURE
                        /\ cut[c] \in DOMAIN doc.starts => ChunkStart(c) = doc.starts[cut[c]]
  BY <1>4 DEF ChunkStart, NO_FAILURE
<1>6. \A r \in parsed : \E c \in Chunks : r = ParsedChunk(c)
  BY <1>1 DEF ParsedFrom
<1>7. CASE Failures = {}
  <2>1. \A v \in published : v = NO_FAILURE
    BY <1>1, <1>7 DEF Published
  <2>2. \A c \in Chunks : ChunkStart(c) \in Nat /\ NO_FAILURE \in Nat
    BY <1>4 DEF ChunkStart, NO_FAILURE
  <2>3. \A c \in Chunks : ParsedChunk(c) \in parsed
    BY <1>3, <1>5, <2>1, <2>2
  <2>4. parsed = ParsedFrom(1)
    BY <1>1, <2>3 DEF ParsedFrom
  <2>5. ASSUME NEW r \in doc.failing
        PROVE  FALSE
    <3>1. PICK c \in Chunks : cut[c] <= r /\ r <= LastRecord(c)
      BY <1>2, <1>4, ChunkOfRecord
    <3>2. r \in doc.failing \cap (cut[c]..LastRecord(c))
      BY <1>2, <1>4, <2>5, <3>1, CutBounds
    <3>3. ParsedChunk(c).result.state = "err"
      BY <1>2, <3>2, ParsedChunkIs
    <3> QED  BY <1>7, <2>3, <3>3 DEF Failures
  <2> QED  BY <1>1, <1>7, <2>4, <2>5
<1>8. CASE Failures # {}
  <2>1. \A r \in Failures : \E f \in doc.failing : r.result.at = doc.starts[f]
    BY FailuresAreFailing
  <2>2. doc.failing # {} /\ doc.failing \subseteq Nat
    BY <1>4, <1>8, <2>1
  <2>3. PICK m \in doc.failing : \A n \in doc.failing : m <= n
    BY <2>2, LeastExists
  <2>4. Serial(doc) = Failure(doc.starts[m])
    BY <2>2, <2>3, MinUnique DEF Serial
  <2>5. Ats \subseteq Nat /\ \A at \in Ats : doc.starts[m] <= at
    BY <1>4, <2>1, <2>3
  <2>6. PICK c \in Chunks : cut[c] <= m /\ m <= LastRecord(c)
    BY <1>2, <1>4, <2>3, ChunkOfRecord
  <2>7. doc.starts[m] \in Ats
    <3>1. CASE ParsedChunk(c) \in parsed
      <4> DEFINE failures == doc.failing \cap (cut[c]..LastRecord(c))
      <4>1. m \in failures /\ \A n \in failures : m <= n
        BY <1>2, <1>4, <2>3, <2>6, CutBounds
      <4>2. ParsedChunk(c).result.state = "err" /\ ParsedChunk(c).result.at = doc.starts[m]
        BY <1>2, <4>1, ParsedChunkIs
      <4> QED  BY <3>1, <4>2 DEF Failures
    <3>2. CASE \E v \in published : v <= ChunkStart(c)
      <4>1. PICK v \in published : v <= ChunkStart(c)
        BY <3>2
      <4>2. ChunkStart(c) \in Nat /\ NO_FAILURE \in Nat
        BY <1>4 DEF ChunkStart, NO_FAILURE
      <4>3. v # NO_FAILURE
        BY <1>5, <4>1, <4>2
      <4>4. v \in Ats
        BY <1>1, <4>3 DEF Published
      <4>5. cut[c] \in DOMAIN doc.starts
        BY <1>2, <1>4, <2>3, <2>6 DEF WellFormed
      <4>6. ChunkStart(c) <= doc.starts[m]
        BY <1>4, <1>5, <2>3, <2>6, <4>5
      <4>7. v = doc.starts[m]
        <5>1. doc.starts[m] <= v /\ v \in Nat /\ doc.starts[m] \in Nat
          BY <1>4, <2>3, <2>5, <4>4
        <5> QED  BY <4>1, <4>2, <4>6, <5>1
      <4> QED  BY <4>4, <4>7
    <3> QED  BY <1>3, <3>1, <3>2
  <2>8. Min(Ats) = doc.starts[m]
    BY <2>5, <2>7, MinUnique
  <2> QED  BY <1>1, <1>8, <2>4, <2>8 DEF Failure
<1> QED  BY <1>7, <1>8

(* The next chunk's records come behind those of the chunks before it.     *)
LEMMA MergeIsSerial ==
    ASSUME Cutting, Assembled, Merge
    PROVE  outcome' = Serial(doc) \/ (outcome'.state = "merging" /\ Assembled')
<1>1. /\ WellFormed(doc) /\ cut \in Cuts(doc) /\ doc.starts \in Seq(Nat)
      /\ Len(doc.starts) \in Nat /\ Len(cut) \in Nat \ {0} /\ Chunks = 1..Len(cut)
      /\ doc.failing = {} /\ UNCHANGED <<doc, cut, pc>>
  BY CutBounds DEF Cutting, Assembled, Merge, WellFormed
<1>2. PICK c \in Chunks : /\ parsed = ParsedFrom(c)
                         /\ outcome.starts = SubSeq(doc.starts, 1, cut[c] - 1)
  BY DEF Assembled
<1>3. \A d \in Chunks : ParsedChunk(d).chunk = d
  BY <1>1, ParsedChunkIs
<1>4. PICK r \in parsed : /\ NextMerged(r.chunk)
                        /\ parsed' = parsed \ {r}
                        /\ outcome' = IF parsed' = {}
                                        THEN Positions(outcome.starts \o r.result.starts)
                                        ELSE Merging(outcome.starts \o r.result.starts)
  BY DEF Merge
<1>5. r = ParsedChunk(c)
  <2>1. PICK d \in Chunks : c <= d /\ r = ParsedChunk(d)
    BY <1>2, <1>4 DEF ParsedFrom
  <2>2. ParsedChunk(c) \in parsed
    BY <1>1, <1>2 DEF ParsedFrom
  <2>3. d <= c
    BY <1>3, <1>4, <2>1, <2>2 DEF NextMerged
  <2> QED  BY <1>1, <2>1, <2>3
<1>6. r.result.starts = SubSeq(doc.starts, cut[c], LastRecord(c))
  BY <1>1, <1>5, ParsedChunkIs
<1>7. outcome.starts \o r.result.starts = SubSeq(doc.starts, 1, LastRecord(c))
  <2>1. /\ cut[c] \in Nat \ {0} /\ cut[c] <= Len(doc.starts) + 1
        /\ cut[c] <= LastRecord(c) + 1 /\ LastRecord(c) \in 0..Len(doc.starts)
    BY <1>1, CutBounds
  <2>2. /\ 1 \in 1..Len(doc.starts) + 1 /\ cut[c] - 1 \in 1 - 1..Len(doc.starts)
        /\ LastRecord(c) \in cut[c] - 1..Len(doc.starts) /\ (cut[c] - 1) + 1 = cut[c]
    BY <1>1, <2>1
  <2>3. SubSeq(doc.starts, 1, cut[c] - 1) \o SubSeq(doc.starts, (cut[c] - 1) + 1, LastRecord(c))
          = SubSeq(doc.starts, 1, LastRecord(c))
    BY <1>1, <2>2, ConcatAdjacentSubSeq
  <2> QED  BY <1>2, <1>6, <2>2, <2>3
<1>8. CASE c = Len(cut)
  <2>1. LastRecord(c) = Len(doc.starts)
    BY <1>1, <1>8 DEF LastRecord
  <2>2. SubSeq(doc.starts, 1, LastRecord(c)) = doc.starts
    BY <1>1, <2>1, SubSeqFull
  <2>3. parsed' = {}
    BY <1>1, <1>2, <1>4, <1>5, <1>8 DEF ParsedFrom
  <2> QED  BY <1>1, <1>4, <1>7, <2>2, <2>3 DEF Serial
<1>9. CASE c < Len(cut)
  <2>1. c + 1 \in Chunks /\ LastRecord(c) = cut[c + 1] - 1
    BY <1>1, <1>9 DEF LastRecord
  <2>2. parsed' = ParsedFrom(c + 1)
    <3>1. \A d \in Chunks : c <= d /\ ParsedChunk(d) # ParsedChunk(c) <=> c + 1 <= d
      BY <1>1, <1>3
    <3> QED  BY <1>2, <1>4, <1>5, <3>1 DEF ParsedFrom
  <2>3. parsed' # {}
    BY <1>1, <2>1, <2>2 DEF ParsedFrom
  <2>4. outcome' = Merging(SubSeq(doc.starts, 1, cut[c + 1] - 1))
    BY <1>4, <1>7, <2>1, <2>3
  <2>5. ParsedFrom(c + 1)' = ParsedFrom(c + 1) /\ Chunks' = Chunks
    BY <1>1 DEF ParsedFrom, Chunks, ParsedChunk, LastRecord
  <2> QED  BY <1>1, <2>1, <2>2, <2>4, <2>5 DEF Assembled, Merging
<1> QED  BY <1>1, <1>8, <1>9

-----------------------------------------------------------------------------
(* The workers' steps.  None of them touches the document or its cut.      *)
LEMMA SameChunks ==
    ASSUME UNCHANGED <<doc, cut>>
    PROVE  /\ Chunks' = Chunks /\ Spawned' = Spawned /\ NO_FAILURE' = NO_FAILURE
           /\ \A c : ParsedChunk(c)' = ParsedChunk(c) /\ ChunkStart(c)' = ChunkStart(c)
           /\ ParsedFrom(1)' = ParsedFrom(1)
  BY DEF Chunks, Spawned, NO_FAILURE, ParsedChunk, ChunkStart, LastRecord, ParsedFrom

LEMMA ClaimStep ==
    ASSUME Working, NEW w \in Workers, Claim(w)
    PROVE  Working'
<1>1. UNCHANGED <<doc, cut, barrier, published, seen, parsed>> /\ cursor' = cursor + 1
  BY DEF Claim
<1>2. /\ Cutting /\ cursor \in Nat \ {0} /\ Chunks = 1..Len(cut) /\ Len(cut) \in Nat
      /\ pc \in [Workers -> {"idle", "claim", "check", "parse", "fence", "done"}]
      /\ chunk \in [Workers -> Nat]
  BY CutBounds DEF Working, Cutting
<1>3. \/ /\ cursor \in Chunks /\ chunk' = [chunk EXCEPT ![w] = cursor]
         /\ pc' = [pc EXCEPT ![w] = "check"]
      \/ /\ cursor \notin Chunks /\ chunk' = chunk
         /\ pc' = [pc EXCEPT ![w] = "done"]
  BY DEF Claim, Chunks
<1>4. pc[w] = "claim"
  BY DEF Claim
<1> USE SameChunks
<1>5. Cutting'
  BY <1>1, <1>2, <1>3 DEF Cutting
<1>6. Claimed'
  BY <1>1, <1>2, <1>3 DEF Working, Claimed, Failures
<1>7. Published'
  BY <1>1 DEF Working, Published, Failures
<1>8. Cover'
  <2> SUFFICES ASSUME NEW c \in Chunks, c < cursor + 1
               PROVE  \/ ParsedChunk(c) \in parsed
                      \/ \E v \in Workers : Ahead(v)' /\ chunk'[v] = c
                      \/ \E v \in published : v <= ChunkStart(c)
    BY <1>1 DEF Cover
  <2>1. CASE c = cursor
    BY <1>2, <1>3, <2>1 DEF Ahead
  <2>2. CASE c < cursor
    <3>1. \A v \in Workers : Ahead(v) => v # w /\ Ahead(v)' /\ chunk'[v] = chunk[v]
      BY <1>2, <1>3, <1>4 DEF Ahead
    <3> QED  BY <2>2, <3>1 DEF Working, Cover
  <2> QED  BY <1>2, <2>1, <2>2
<1>9. Exhausted'
  <2>1. cursor \notin Chunks => cursor' \notin Chunks
    BY <1>1, <1>2
  <2> QED  BY <1>1, <1>2, <1>3, <1>4, <2>1 DEF Working, Exhausted
<1> QED  BY <1>1, <1>5, <1>6, <1>7, <1>8, <1>9 DEF Working

LEMMA CheckStep ==
    ASSUME Working, NEW w \in Workers, Check(w)
    PROVE  Working'
<1>1. UNCHANGED <<doc, cut, cursor, barrier, published, chunk, parsed>> /\ pc[w] = "check"
  BY DEF Check
<1>2. /\ Cutting /\ pc \in [Workers -> {"idle", "claim", "check", "parse", "fence", "done"}]
      /\ seen \in [Workers -> published] /\ chunk[w] \in Chunks
  BY <1>1 DEF Working, Cutting, Claimed
<1>3. PICK v \in published :
          /\ seen' = [seen EXCEPT ![w] = v]
          /\ pc' = [pc EXCEPT ![w] = IF ChunkStart(chunk[w]) >= v THEN "claim" ELSE "parse"]
  BY DEF Check, Blocked
<1>4. \/ pc' = [pc EXCEPT ![w] = "parse"]
      \/ v <= ChunkStart(chunk[w]) /\ pc' = [pc EXCEPT ![w] = "claim"]
  BY <1>3
<1> USE SameChunks
<1>5. Cutting'
  BY <1>1, <1>2, <1>3, <1>4 DEF Cutting
<1>6. Claimed'
  BY <1>1, <1>2, <1>4 DEF Working, Claimed, Failures
<1>7. Published'
  BY <1>1 DEF Working, Published, Failures
<1>8. Cover'
  <2>1. \A u \in Workers : Ahead(u) => Ahead(u)' \/ (u = w /\ v <= ChunkStart(chunk[w]))
    BY <1>2, <1>4 DEF Ahead
  <2> QED  BY <1>1, <2>1 DEF Working, Cover
<1>9. Exhausted'
  BY <1>1, <1>2, <1>4 DEF Working, Exhausted
<1> QED  BY <1>1, <1>5, <1>6, <1>7, <1>8, <1>9 DEF Working

LEMMA ParseStep ==
    ASSUME Working, NEW w \in Workers, Parse(w)
    PROVE  Working'
<1>1. /\ UNCHANGED <<doc, cut, cursor, barrier, published, seen, chunk>> /\ pc[w] = "parse"
      /\ parsed' = parsed \cup {ParsedChunk(chunk[w])}
      /\ pc' = [pc EXCEPT ![w] =
                   IF ParsedChunk(chunk[w]).result.state = "err" THEN "fence" ELSE "claim"]
  BY DEF Parse
<1>2. /\ Cutting /\ pc \in [Workers -> {"idle", "claim", "check", "parse", "fence", "done"}]
      /\ chunk[w] \in Chunks
  BY <1>1 DEF Working, Cutting, Claimed
<1>3. ParsedChunk(chunk[w]) \in ParsedFrom(1)
  BY <1>2, CutBounds DEF ParsedFrom, Cutting
<1> USE SameChunks
<1>4. Cutting'
  BY <1>1, <1>2 DEF Cutting
<1>5. Failures \subseteq Failures' /\ ParsedChunk(chunk[w]) \in parsed'
  BY <1>1 DEF Failures
<1>6. Claimed'
  BY <1>1, <1>2, <1>5 DEF Working, Claimed, Failures
<1>7. Published'
  BY <1>1, <1>5 DEF Working, Published
<1>8. Cover'
  <2>1. \A u \in Workers : Ahead(u) => Ahead(u)' \/ u = w
    BY <1>1, <1>2 DEF Ahead
  <2> QED  BY <1>1, <1>5, <2>1 DEF Working, Cover
<1>9. Exhausted'
  BY <1>1, <1>2 DEF Working, Exhausted
<1> QED  BY <1>1, <1>3, <1>4, <1>6, <1>7, <1>8, <1>9 DEF Working

LEMMA FenceStep ==
    ASSUME Working, NEW w \in Workers, Fence(w)
    PROVE  Working'
<1> DEFINE at == ParsedChunk(chunk[w]).result.at
<1>1. /\ UNCHANGED <<doc, cut, cursor, seen, chunk, parsed>> /\ pc[w] = "fence"
      /\ barrier' = Min({barrier, at}) /\ published' = published \cup {barrier'}
      /\ pc' = [pc EXCEPT ![w] = "claim"]
  BY DEF Fence
<1>2. /\ Cutting /\ pc \in [Workers -> {"idle", "claim", "check", "parse", "fence", "done"}]
      /\ barrier \in published /\ ParsedChunk(chunk[w]) \in Failures
      /\ chunk[w] \in Chunks
  BY <1>1 DEF Working, Cutting, Claimed
<1>3. \A r \in Failures : r.result.at \in Nat
  BY AtsAreOffsets DEF Working
<1>4. barrier \in Nat /\ at \in Nat
  <2>1. NO_FAILURE \in Nat
    BY DEF Working, Cutting, WellFormed, NO_FAILURE
  <2> QED  BY <1>2, <1>3, <2>1 DEF Working, Published
<1>5. barrier' \in {barrier, at}
  BY <1>1, <1>4, MinIsLeast
<1> HIDE DEF at
<1> USE SameChunks
<1>6. Cutting'
  BY <1>1, <1>2 DEF Cutting
<1>7. Claimed'
  BY <1>1, <1>2 DEF Working, Claimed, Failures
<1>8. Published'
  <2>1. Failures' = Failures
    BY <1>1 DEF Failures
  <2>2. barrier' \in published \/ barrier' = at
    BY <1>2, <1>5
  <2> QED  BY <1>1, <1>2, <2>1, <2>2 DEF Working, Published, at
<1>9. Cover'
  <2>1. \A u \in Workers : Ahead(u) => Ahead(u)'
    BY <1>1, <1>2 DEF Ahead
  <2> QED  BY <1>1, <2>1 DEF Working, Cover
<1>10. Exhausted'
  BY <1>1, <1>2 DEF Working, Exhausted
<1> QED  BY <1>1, <1>6, <1>7, <1>8, <1>9, <1>10 DEF Working

(* A build begins with nothing claimed.                                    *)
LEMMA SpawnStep ==
    ASSUME NEW d, WellFormed(d), Spawn(d)
    PROVE  outcome'.state = "running" /\ Working'
<1>1. /\ doc' = d /\ cut' \in Cuts(doc') /\ cursor' = 1 /\ barrier' = NO_FAILURE'
      /\ published' = {NO_FAILURE'} /\ seen' = [w \in Workers |-> NO_FAILURE']
      /\ pc' = [w \in Workers |-> IF w \in Spawned' THEN "claim" ELSE "idle"]
      /\ chunk' = [w \in Workers |-> 0] /\ parsed' = {} /\ outcome'.state = "running"
  <2> doc' = d /\ cut' \in Cuts(d)
    BY DEF Spawn
  <2> QED  BY DEF Spawn, Running, Nothing
<1>2. Cutting'
  BY <1>1 DEF Cutting
<1>3. Claimed' /\ Published' /\ Exhausted'
  BY <1>1 DEF Claimed, Published, Exhausted
<1>4. Cover'
  <2>1. Chunks' \subseteq Nat \ {0}
    <3> doc' = d /\ cut' \in Cuts(d) /\ d.starts \in Seq(Nat)
      BY DEF Spawn, WellFormed
    <3> Len(d.starts) + 1 \in Nat
      OBVIOUS
    <3> QED  BY DEF Cuts, Chunks
  <2> QED  BY <1>1, <2>1 DEF Cover
<1> QED  BY <1>1, <1>2, <1>3, <1>4 DEF Working

(* The steps of a build keep what is known of it.                          *)
LEMMA SpawnKeeps ==
    ASSUME NEW d, WellFormed(d), Spawn(d)
    PROVE  Sound'
<1>1. outcome'.state = "running" /\ Working' /\ doc' = d
  BY SpawnStep DEF Spawn
<1> QED  BY <1>1 DEF Sound, BuildIsSerial

LEMMA BuildStepKeeps ==
    ASSUME Sound, NEW w \in Workers, Work(w)
    PROVE  Sound'
<1>1. UNCHANGED <<doc, outcome>>
  BY DEF Work, Claim, Check, Parse, Fence
<1>2. /\ BuildIsSerial' /\ outcome'.state \in {"none", "running", "merging", "ok", "err"}
      /\ outcome'.state # "none" => WellFormed(doc')
  BY <1>1 DEF Sound, BuildIsSerial
<1>3. outcome.state # "merging"
  BY DEF Sound, Assembled, Work, Claim, Check, Parse, Fence
<1>4. CASE outcome.state = "running"
  <2>1. Working'
    BY <1>4, ClaimStep, CheckStep, ParseStep, FenceStep DEF Sound, Work
  <2> QED  BY <1>1, <1>2, <1>4, <2>1 DEF Sound
<1> QED  BY <1>1, <1>2, <1>3, <1>4 DEF Sound

LEMMA JoinKeeps ==
    ASSUME Sound, Gather \/ Merge
    PROVE  Sound'
<1>1. CASE Gather
  <2>1. /\ Working /\ UNCHANGED <<doc, cut, cursor, barrier, published, pc, seen, chunk, parsed>>
        /\ WellFormed(doc')
    BY <1>1 DEF Sound, Gather
  <2>2. CASE outcome' = Serial(doc) /\ outcome'.state = "err"
    <3>1. Serial(doc)' = Serial(doc)
      BY <2>1 DEF Serial
    <3> QED  BY <2>1, <2>2, <3>1 DEF Sound, BuildIsSerial
  <2>3. CASE outcome' = Merging(<<>>) /\ doc.failing = {} /\ parsed = ParsedFrom(1)
    <3>1. Cutting' /\ ParsedFrom(1)' = ParsedFrom(1) /\ Chunks' = Chunks
      BY <2>1, SameChunks DEF Working, Cutting
    <3>2. 1 \in Chunks /\ cut[1] - 1 = 0
      BY <2>1, CutBounds DEF Working, Cutting
    <3>3. SubSeq(doc.starts, 1, 0) = <<>>
      BY SubSeqEmpty
    <3>4. \A w \in Workers : pc[w] \in {"idle", "done"}
      BY <1>1, <2>1 DEF Gather, Working, Exhausted
    <3>5. Assembled'
      BY <2>1, <2>3, <3>1, <3>2, <3>3, <3>4 DEF Assembled, Merging
    <3> QED  BY <2>1, <2>3, <3>1, <3>5 DEF Sound, Merging, BuildIsSerial
  <2> QED  BY <1>1, <2>1, <2>2, <2>3, GatherIsSerial
<1>2. CASE Merge
  <2>1. /\ Cutting /\ Assembled
        /\ UNCHANGED <<doc, cut, cursor, barrier, published, pc, seen, chunk>>
        /\ WellFormed(doc')
    BY <1>2 DEF Sound, Merge
  <2>2. Cutting'
    BY <2>1 DEF Cutting
  <2>3. CASE outcome' = Serial(doc)
    <3>1. Serial(doc)' = Serial(doc) /\ Serial(doc).state \in {"ok", "err"}
      BY <2>1 DEF Serial, Positions, Failure
    <3> QED  BY <2>1, <2>3, <3>1 DEF Sound, BuildIsSerial
  <2>4. CASE outcome'.state = "merging" /\ Assembled'
    BY <2>1, <2>2, <2>4 DEF Sound, BuildIsSerial
  <2> QED  BY <1>2, <2>1, <2>3, <2>4, MergeIsSerial
<1> QED  BY <1>1, <1>2

LEMMA DismissKeeps ==
    ASSUME Dismiss
    PROVE  Sound'
<1>1. outcome'.state = "none"
  BY DEF Dismiss, Nothing
<1> QED  BY <1>1 DEF Sound, BuildIsSerial

LEMMA UnchangedKeeps ==
    ASSUME Sound, UNCHANGED build
    PROVE  Sound'
<1>1. UNCHANGED <<doc, cut, cursor, barrier, published, pc, seen, chunk, parsed, outcome>>
  BY DEF build
<1>2. Working => Working'
  BY <1>1, SameChunks DEF Working, Cutting, Claimed, Published, Cover, Exhausted, Ahead, Failures
<1>3. Cutting /\ Assembled => Cutting' /\ Assembled'
  BY <1>1 DEF Cutting, Assembled, ParsedFrom, ParsedChunk, Chunks, LastRecord
<1> QED  BY <1>1, <1>2, <1>3 DEF Sound, BuildIsSerial, Serial

(* A build that found positions found those of its document.               *)
LEMMA BuiltIsWhole ==
    ASSUME Sound, outcome.state = "ok"
    PROVE  Whole(doc) /\ outcome.starts = doc.starts
<1>1. WellFormed(doc) /\ outcome = Serial(doc)
  BY DEF Sound, BuildIsSerial
<1>2. doc.failing = {}
  BY <1>1 DEF Serial, Failure
<1> QED  BY <1>1, <1>2 DEF Whole, Serial, Positions

-----------------------------------------------------------------------------
(* Sequences, whatever they are of.                                        *)
LEMMA OwnSeq ==
    ASSUME NEW S, NEW s \in Seq(S)
    PROVE  /\ IsSeq(s) /\ Len(s) \in Nat /\ DOMAIN s = 1..Len(s)
           /\ s = <<>> <=> Len(s) = 0
  BY DEF IsSeq

LEMMA SeqIs ==
    ASSUME NEW s, IsSeq(s)
    PROVE  /\ Len(s) \in Nat /\ DOMAIN s = 1..Len(s)
           /\ s = <<>> <=> Len(s) = 0
  BY OwnSeq DEF IsSeq

LEMMA FunctionIs ==
    ASSUME NEW n \in Nat, NEW S, NEW f \in [1..n -> S]
    PROVE  IsSeq(f) /\ Len(f) = n
<1>1. f \in Seq(S) /\ Len(f) = n
  OBVIOUS
<1> QED  BY <1>1, OwnSeq

Joins(u, s, t, m, n) ==
    /\ IsSeq(u) /\ Len(u) = m + n
    /\ \A i \in 1..m : u[i] = s[i]
    /\ \A i \in 1..n : u[m + i] = t[i]

LEMMA ConcatIs ==
    ASSUME NEW s, NEW t, IsSeq(s), IsSeq(t), NEW m, NEW n, Len(s) = m, Len(t) = n
    PROVE  Joins(s \o t, s, t, m, n)
<1> DEFINE S == {s[i] : i \in DOMAIN s} \cup {t[i] : i \in DOMAIN t}
<1>1. s \in Seq(S) /\ t \in Seq(S)
  BY DEF IsSeq
<1> HIDE DEF S
<1>2. s \o t \in Seq(S)
  BY <1>1
<1>3. IsSeq(s \o t)
  BY <1>2, OwnSeq
<1>4. Len(s) \in Nat /\ Len(t) \in Nat /\ Len(s \o t) = Len(s) + Len(t)
  BY <1>1
<1>5. \A i \in 1..Len(s) : (s \o t)[i] = s[i]
  BY <1>1, <1>4
<1>6. \A i \in 1..Len(t) : (s \o t)[Len(s) + i] = t[i]
  BY <1>1, <1>4
<1> QED  BY <1>3, <1>4, <1>5, <1>6 DEF Joins

LEMMA TailIs ==
    ASSUME NEW s, IsSeq(s), s # <<>>
    PROVE  /\ IsSeq(Tail(s)) /\ Len(Tail(s)) = Len(s) - 1 /\ Head(s) = s[1]
           /\ 1 \in DOMAIN s
           /\ \A i \in DOMAIN Tail(s) : i + 1 \in DOMAIN s /\ Tail(s)[i] = s[i + 1]
<1> DEFINE S == {s[i] : i \in DOMAIN s}
<1>1. s \in Seq(S)
  BY DEF IsSeq
<1> HIDE DEF S
<1>2. Tail(s) \in Seq(S) /\ Len(Tail(s)) = Len(s) - 1 /\ Head(s) = s[1]
  BY <1>1
<1>3. IsSeq(Tail(s))
  BY <1>2, OwnSeq
<1>4. 1 \in DOMAIN s /\ \A i \in DOMAIN Tail(s) : i + 1 \in DOMAIN s /\ Tail(s)[i] = s[i + 1]
  BY <1>1, <1>2
<1> QED  BY <1>2, <1>3, <1>4

(* Where a write goes, and that it goes nowhere else.                      *)
Place(cells, write) ==
    IF write.at = AtEnd \/ write.at > Len(cells) THEN Len(cells) + 1 ELSE write.at

Puts(put, cells, place, cell) ==
    /\ IsSeq(put) /\ place \in 1..Len(cells) + 1
    /\ Len(put) = IF place = Len(cells) + 1 THEN Len(cells) + 1 ELSE Len(cells)
    /\ put[place] = cell
    /\ \A i \in DOMAIN cells : i # place => put[i] = cells[i]

LEMMA PutIs ==
    ASSUME NEW cells, IsSeq(cells), NEW write, write.at \in Nat
    PROVE  Puts(Put(cells, write), cells, Place(cells, write), write.cell)
<1> DEFINE S == {cells[i] : i \in DOMAIN cells} \cup {write.cell}
           place == Place(cells, write)
<1>1. cells \in Seq(S) /\ write.cell \in S
  BY DEF IsSeq
<1> HIDE DEF S
<1>2. Len(cells) \in Nat /\ DOMAIN cells = 1..Len(cells)
  BY <1>1
<1>3. CASE place = Len(cells) + 1
  <2>1. Put(cells, write) = Append(cells, write.cell)
    BY <1>2, <1>3 DEF Put, Place, AtEnd
  <2>2. /\ Append(cells, write.cell) \in Seq(S)
        /\ Len(Append(cells, write.cell)) = Len(cells) + 1
        /\ Append(cells, write.cell)[Len(cells) + 1] = write.cell
        /\ \A i \in 1..Len(cells) : Append(cells, write.cell)[i] = cells[i]
    BY <1>1, <1>2
  <2> DEFINE put == Append(cells, write.cell)
  <2> HIDE DEF put, place
  <2>3. IsSeq(put)
    BY <2>2, OwnSeq DEF put
  <2> QED  BY <1>2, <1>3, <2>1, <2>2, <2>3 DEF put, place, Puts
<1>4. CASE place # Len(cells) + 1
  <2>1. place \in 1..Len(cells) /\ place = write.at
    BY <1>2, <1>4 DEF Place, AtEnd
  <2>2. Put(cells, write) = [cells EXCEPT ![place] = write.cell]
    BY <1>2, <1>4, <2>1 DEF Put, Place, AtEnd
  <2>3. /\ [cells EXCEPT ![place] = write.cell] \in Seq(S)
        /\ Len([cells EXCEPT ![place] = write.cell]) = Len(cells)
        /\ \A i \in 1..Len(cells) : [cells EXCEPT ![place] = write.cell][i] =
                                        IF i = place THEN write.cell ELSE cells[i]
    BY <1>1, <1>2, <2>1, ExceptSeq
  <2> DEFINE put == [cells EXCEPT ![place] = write.cell]
  <2> HIDE DEF put, place
  <2>4. IsSeq(put)
    BY <2>3, OwnSeq DEF put
  <2> QED  BY <1>2, <1>4, <2>1, <2>2, <2>3, <2>4 DEF put, place, Puts
<1> QED  BY <1>3, <1>4

LEMMA PutsWithin ==
    ASSUME NEW cells, IsSeq(cells), NEW place \in DOMAIN cells, NEW cell, NEW put,
           Puts(put, cells, place, cell)
    PROVE  /\ Len(put) = Len(cells) /\ put[place] = cell
           /\ \A i \in DOMAIN cells : i # place => put[i] = cells[i]
<1>1. DOMAIN cells = 1..Len(cells) /\ Len(cells) \in Nat
  BY SeqIs
<1>2. place # Len(cells) + 1
  BY <1>1
<1> QED  BY <1>2 DEF Puts

LEMMA PutsBehind ==
    ASSUME NEW cells, IsSeq(cells), NEW cell, NEW put,
           Puts(put, cells, Len(cells) + 1, cell)
    PROVE  /\ Len(put) = Len(cells) + 1 /\ put[Len(put)] = cell
           /\ \A i \in DOMAIN cells : put[i] = cells[i]
<1>1. DOMAIN cells = 1..Len(cells) /\ Len(cells) \in Nat
  BY SeqIs
<1> QED  BY <1>1 DEF Puts

(* What is written, cell by cell.                                          *)
LEMMA EntryCellsIs ==
    ASSUME NEW offsets \in Seq(Nat)
    PROVE  /\ IsSeq(EntryCells(offsets)) /\ Len(EntryCells(offsets)) = Len(offsets)
           /\ \A r \in 1..Len(offsets) : EntryCells(offsets)[r] = Entry(offsets[r])
<1>1. Len(offsets) \in Nat /\ DOMAIN offsets = 1..Len(offsets)
  OBVIOUS
<1>2. EntryCells(offsets) \in [1..Len(offsets) -> {Entry(n) : n \in Nat}]
  BY <1>1 DEF EntryCells
<1>3. EntryCells(offsets) \in Seq({Entry(n) : n \in Nat}) /\ Len(EntryCells(offsets)) = Len(offsets)
  BY <1>1, <1>2
<1> QED  BY <1>1, <1>3, OwnSeq DEF EntryCells

LEMMA AtIs ==
    ASSUME NEW cells, IsSeq(cells), NEW place
    PROVE  /\ IsSeq(At(place, cells)) /\ Len(At(place, cells)) = Len(cells)
           /\ \A i \in 1..Len(cells) :
                 At(place, cells)[i] = [at |-> place + i - 1, cell |-> cells[i]]
<1> DEFINE S == {[at |-> place + i - 1, cell |-> cells[i]] : i \in DOMAIN cells}
<1>1. Len(cells) \in Nat /\ DOMAIN cells = 1..Len(cells)
  BY SeqIs
<1>2. At(place, cells) \in [1..Len(cells) -> S]
  BY <1>1 DEF At
<1> HIDE DEF S
<1>3. At(place, cells) \in Seq(S) /\ Len(At(place, cells)) = Len(cells)
  BY <1>1, <1>2
<1> QED  BY <1>1, <1>3, OwnSeq DEF At

LEMMA PairIs ==
    ASSUME NEW a, NEW b
    PROVE  IsSeq(<<a, b>>) /\ Len(<<a, b>>) = 2 /\ <<a, b>>[1] = a /\ <<a, b>>[2] = b
<1>1. <<a, b>> \in Seq({a, b})
  OBVIOUS
<1> QED  BY <1>1, OwnSeq

LEMMA StreamCellsIs ==
    ASSUME NEW offsets \in Seq(Nat)
    PROVE  LET cells == StreamCells(offsets)
           IN  /\ IsSeq(cells) /\ Len(cells) = Len(offsets) + 2
               /\ cells[1] = Zeroed /\ cells[2] = Counts(0)
               /\ \A r \in 1..Len(offsets) : cells[2 + r] = Entry(offsets[r])
<1> DEFINE front == <<Zeroed, Counts(0)>>
           entries == EntryCells(offsets)
<1>1. IsSeq(front) /\ Len(front) = 2 /\ front[1] = Zeroed /\ front[2] = Counts(0)
  BY PairIs
<1>2. /\ IsSeq(entries) /\ Len(entries) = Len(offsets) /\ Len(offsets) \in Nat
      /\ \A r \in 1..Len(offsets) : entries[r] = Entry(offsets[r])
  BY EntryCellsIs
<1>3. StreamCells(offsets) = front \o entries
  BY DEF StreamCells
<1> HIDE DEF front, entries
<1>4. Joins(StreamCells(offsets), front, entries, 2, Len(offsets))
  BY <1>1, <1>2, <1>3, ConcatIs
<1> QED  BY <1>1, <1>2, <1>4 DEF Joins

LEMMA SaveCellsIs ==
    ASSUME NEW d, d.starts \in Seq(Nat)
    PROVE  LET cells == SaveCells(d)
               n == Len(d.starts)
           IN  /\ IsSeq(cells) /\ Len(cells) = n + 4 /\ n \in Nat
               /\ cells[1] = Identifies(d) /\ cells[2] = Counts(n)
               /\ \A r \in 1..n : cells[2 + r] = Entry(d.starts[r])
               /\ cells[n + 3] = EntriesSum(d.starts)
               /\ cells[n + 4] = HeaderSum(Identifies(d), Counts(n))
<1> DEFINE front == Header(d, Len(d.starts))
           entries == EntryCells(d.starts)
           trailers == Trailers(d, d.starts)
           n == Len(d.starts)
<1>1. IsSeq(front) /\ Len(front) = 2 /\ front[1] = Identifies(d) /\ front[2] = Counts(n)
  BY PairIs DEF Header
<1>2. /\ IsSeq(entries) /\ Len(entries) = n /\ n \in Nat
      /\ \A r \in 1..n : entries[r] = Entry(d.starts[r])
  BY EntryCellsIs
<1>3. /\ IsSeq(trailers) /\ Len(trailers) = 2 /\ trailers[1] = EntriesSum(d.starts)
      /\ trailers[2] = HeaderSum(Identifies(d), Counts(n))
  BY PairIs DEF Trailers
<1> DEFINE most == front \o entries
<1>4. SaveCells(d) = most \o trailers
  BY DEF SaveCells
<1> HIDE DEF front, entries, trailers, n
<1>5. Joins(most, front, entries, 2, n)
  BY <1>1, <1>2, ConcatIs
<1> HIDE DEF most
<1>6. /\ IsSeq(most) /\ Len(most) = 2 + n /\ most[1] = front[1] /\ most[2] = front[2]
      /\ \A r \in 1..n : most[2 + r] = entries[r]
  BY <1>5 DEF Joins
<1>7. Joins(SaveCells(d), most, trailers, 2 + n, 2)
  <2>1. Joins(most \o trailers, most, trailers, 2 + n, 2)
    BY <1>3, <1>6, ConcatIs
  <2> QED  BY <1>4, <2>1
<1> DEFINE cells == SaveCells(d)
<1>8. /\ IsSeq(cells) /\ Len(cells) = 2 + n + 2
      /\ \A i \in 1..(2 + n) : cells[i] = most[i]
      /\ cells[2 + n + 1] = trailers[1] /\ cells[2 + n + 2] = trailers[2]
  BY <1>7 DEF Joins
<1> HIDE DEF cells
<1>9. \A r \in 1..n : 2 + r \in 1..(2 + n)
  BY <1>2
<1>10. /\ 1 \in 1..(2 + n) /\ 2 \in 1..(2 + n) /\ 2 + n + 2 = n + 4
       /\ 2 + n + 1 = n + 3
  BY <1>2
<1> QED  BY <1>1, <1>2, <1>3, <1>6, <1>8, <1>9, <1>10 DEF n, cells

LEMMA ScriptIs ==
    ASSUME NEW d, d.starts \in Seq(Nat)
    PROVE  LET script == Script(d)
               m == Len(d.starts) + 2
           IN  /\ IsSeq(script) /\ Len(script) = m + 4 /\ m \in Nat
               /\ \A i \in 1..m : script[i] = [at |-> i, cell |-> StreamCells(d.starts)[i]]
               /\ script[m + 1] = [at |-> 1, cell |-> Identifies(d)]
               /\ script[m + 2] = [at |-> 2, cell |-> Counts(Len(d.starts))]
               /\ script[m + 3] = [at |-> AtEnd, cell |-> EntriesSum(d.starts)]
               /\ script[m + 4] = [at |-> AtEnd,
                                   cell |-> HeaderSum(Identifies(d), Counts(Len(d.starts)))]
               /\ Joins(script, StreamPlan(d.starts), ClosingPlan(d, d.starts), m, 4)
               /\ IsSeq(ClosingPlan(d, d.starts)) /\ Len(ClosingPlan(d, d.starts)) = 4
<1> DEFINE cells == StreamCells(d.starts)
           header == Header(d, Len(d.starts))
           trailers == Trailers(d, d.starts)
           m == Len(d.starts) + 2
           stream == At(1, cells)
           again == At(1, header)
           behind == Appended(trailers)
<1>1. IsSeq(cells) /\ Len(cells) = m /\ m \in Nat
  BY StreamCellsIs
<1>2. IsSeq(header) /\ Len(header) = 2 /\ header[1] = Identifies(d) /\ header[2] = Counts(Len(d.starts))
  BY PairIs DEF Header
<1>3. /\ IsSeq(trailers) /\ Len(trailers) = 2 /\ trailers[1] = EntriesSum(d.starts)
      /\ trailers[2] = HeaderSum(Identifies(d), Counts(Len(d.starts)))
  BY PairIs DEF Trailers
<1>4. /\ Script(d) = stream \o (again \o behind)
      /\ StreamPlan(d.starts) = stream /\ ClosingPlan(d, d.starts) = again \o behind
  BY DEF Script, StreamPlan, StreamCells, ClosingPlan
<1> HIDE DEF cells, header, trailers, m
<1>5. /\ IsSeq(stream) /\ Len(stream) = m
      /\ \A i \in 1..m : stream[i] = [at |-> 1 + i - 1, cell |-> cells[i]]
  BY <1>1, AtIs
<1>6. /\ IsSeq(again) /\ Len(again) = 2
      /\ \A i \in 1..2 : again[i] = [at |-> 1 + i - 1, cell |-> header[i]]
  BY <1>2, AtIs
<1>7. /\ IsSeq(behind) /\ Len(behind) = 2
      /\ \A i \in 1..2 : behind[i] = [at |-> AtEnd, cell |-> trailers[i]]
  <2>1. DOMAIN trailers = 1..2
    BY <1>3, SeqIs
  <2> DEFINE S == {[at |-> AtEnd, cell |-> trailers[i]] : i \in 1..2}
  <2>2. behind \in [1..2 -> S]
    BY <2>1 DEF Appended
  <2>3. IsSeq(behind) /\ Len(behind) = 2
    BY <2>2, FunctionIs
  <2> QED  BY <2>1, <2>3 DEF Appended
<1> HIDE DEF stream, again, behind
<1> DEFINE closing == again \o behind
           script == Script(d)
<1>8. Joins(closing, again, behind, 2, 2)
  BY <1>6, <1>7, ConcatIs
<1> HIDE DEF closing
<1>9. /\ IsSeq(closing) /\ Len(closing) = 4
      /\ closing[1] = again[1] /\ closing[2] = again[2]
      /\ closing[3] = behind[1] /\ closing[4] = behind[2]
  <2>1. closing[2 + 1] = behind[1] /\ closing[2 + 2] = behind[2] /\ Len(closing) = 2 + 2
    BY <1>8 DEF Joins
  <2> QED  BY <1>8, <2>1 DEF Joins
<1>10. Joins(script, stream, closing, m, 4)
  <2>1. Joins(stream \o closing, stream, closing, m, 4)
    BY <1>5, <1>9, ConcatIs
  <2>2. script = stream \o closing
    BY <1>4 DEF closing
  <2> QED  BY <2>1, <2>2
<1> HIDE DEF script
<1>14. /\ IsSeq(script) /\ Len(script) = m + 4
       /\ \A i \in 1..m : script[i] = stream[i]
       /\ script[m + 1] = closing[1] /\ script[m + 2] = closing[2]
       /\ script[m + 3] = closing[3] /\ script[m + 4] = closing[4]
  BY <1>10 DEF Joins
<1>11. \A i \in 1..m : stream[i] = [at |-> i, cell |-> cells[i]]
  BY <1>1, <1>5
<1>12. /\ again[1] = [at |-> 1, cell |-> Identifies(d)]
       /\ again[2] = [at |-> 2, cell |-> Counts(Len(d.starts))]
  BY <1>2, <1>6
<1>13. /\ behind[1] = [at |-> AtEnd, cell |-> EntriesSum(d.starts)]
       /\ behind[2] = [at |-> AtEnd, cell |-> HeaderSum(Identifies(d), Counts(Len(d.starts)))]
  BY <1>3, <1>7
<1>15. /\ Joins(script, StreamPlan(d.starts), ClosingPlan(d, d.starts), m, 4)
       /\ IsSeq(ClosingPlan(d, d.starts)) /\ Len(ClosingPlan(d, d.starts)) = 4
  BY <1>4, <1>9, <1>10 DEF closing
<1> QED  BY <1>1, <1>9, <1>11, <1>12, <1>13, <1>14, <1>15 DEF cells, m, script

-----------------------------------------------------------------------------
LEMMA WholeIs ==
    ASSUME NEW d, Whole(d)
    PROVE  /\ WellFormed(d) /\ d.failing = {} /\ d.length \in Nat
           /\ d.starts \in Seq(Nat) /\ Len(d.starts) \in Nat
           /\ DOMAIN d.starts = 1..Len(d.starts)
  BY DEF Whole, WellFormed

LEMMA SavedIsTrue ==
    ASSUME NEW d, Whole(d), NEW cells, IsSeq(cells), Len(cells) <= Len(SaveCells(d)),
           \A i \in DOMAIN cells : cells[i] = SaveCells(d)[i]
    PROVE  TrueHeader(cells) /\ TrueSums(cells)
<1> DEFINE n == Len(d.starts)
<1>1. n \in Nat /\ DOMAIN d.starts = 1..n /\ DOMAIN cells = 1..Len(cells) /\ Len(cells) \in Nat
  BY WholeIs, SeqIs
<1>2. Len(cells) <= n + 4
  BY WholeIs, SaveCellsIs
<1>3. /\ 1 \in DOMAIN cells => cells[1] = Identifies(d)
      /\ 2 \in DOMAIN cells => cells[2] = Counts(n)
      /\ \A r \in 1..n : 2 + r \in DOMAIN cells => cells[2 + r] = Entry(d.starts[r])
      /\ n + 3 \in DOMAIN cells => cells[n + 3] = EntriesSum(d.starts)
      /\ n + 4 \in DOMAIN cells => cells[n + 4] = HeaderSum(Identifies(d), Counts(n))
  <2>1. /\ SaveCells(d)[1] = Identifies(d) /\ SaveCells(d)[2] = Counts(n)
        /\ \A r \in 1..n : SaveCells(d)[2 + r] = Entry(d.starts[r])
        /\ SaveCells(d)[n + 3] = EntriesSum(d.starts)
        /\ SaveCells(d)[n + 4] = HeaderSum(Identifies(d), Counts(n))
    BY WholeIs, SaveCellsIs
  <2> QED  BY <2>1
<1>4. TrueHeader(cells)
  <2> SUFFICES ASSUME cells # <<>>
               PROVE  LET e == Stored(cells)
                      IN  /\ cells[1] = Identifies(e) /\ Whole(e)
                          /\ 2 \in DOMAIN cells /\ cells[2].cell = "count"
                                => cells[2].count \in {0, Len(e.starts)}
                          /\ \A r \in DOMAIN e.starts :
                                2 + r \in DOMAIN cells /\ cells[2 + r].cell = "entry" =>
                                    cells[2 + r] = Entry(e.starts[r])
    BY DEF TrueHeader
  <2>1. 1 \in DOMAIN cells
    BY <1>1, SeqIs
  <2>2. cells[1] = Identifies(d) /\ Stored(cells) = d
    BY <1>3, <2>1 DEF Stored, Identifies
  <2>3. 2 \in DOMAIN cells => cells[2].count = n
    BY <1>3 DEF Counts
  <2> QED  BY <1>1, <1>3, <2>2, <2>3
<1>5. TrueSums(cells)
  <2> SUFFICES ASSUME NEW i \in DOMAIN cells, cells[i].cell = "headerSum"
               PROVE  LET e == cells[i].header[1].identity[1]
                      IN  /\ cells[i] = HeaderSum(Identifies(e), Counts(Len(e.starts))) /\ Whole(e)
                          /\ i - 1 \in DOMAIN cells /\ cells[i - 1].cell = "entriesSum" =>
                                cells[i - 1] = EntriesSum(e.starts)
    BY DEF TrueSums
  <2>1. i = n + 4
    <3>1. i # 1 /\ i # 2 /\ i # n + 3
      BY <1>3 DEF Identifies, Counts, EntriesSum
    <3>2. ASSUME NEW r \in 1..n, i = 2 + r
          PROVE  FALSE
      <4>1. cells[i] = Entry(d.starts[r])
        BY <1>3, <3>2
      <4> QED  BY <4>1 DEF Entry
    <3>3. i \in 3..(n + 2) => i - 2 \in 1..n /\ i = 2 + (i - 2)
      BY <1>1
    <3>4. i \in 1..(n + 4)
      BY <1>1, <1>2
    <3> HIDE DEF n
    <3>5. i \in {1, 2} \cup 3..(n + 2) \cup {n + 3, n + 4}
      BY <1>1, <3>4
    <3> QED  BY <3>1, <3>2, <3>3, <3>5
  <2>2. cells[i] = HeaderSum(Identifies(d), Counts(n))
    BY <1>3, <2>1
  <2>3. cells[i].header[1].identity[1] = d
    BY <2>2 DEF HeaderSum, Identifies
  <2>4. i - 1 = n + 3
    BY <1>1, <2>1
  <2> QED  BY <1>3, <2>2, <2>3, <2>4
<1> QED  BY <1>4, <1>5

(* Only checksums can make them wrong.                                     *)
LEMMA PlainKeepsSums ==
    ASSUME NEW cells, IsSeq(cells), TrueSums(cells), NEW write, write.at \in Nat,
           write.cell.cell \notin {"headerSum", "entriesSum"}
    PROVE  TrueSums(Put(cells, write))
<1> DEFINE put == Put(cells, write)
           place == Place(cells, write)
<1>1. Puts(put, cells, place, write.cell)
  BY PutIs
<1> HIDE DEF put, place
<1>2. /\ DOMAIN put = 1..Len(put) /\ DOMAIN cells = 1..Len(cells)
      /\ Len(put) \in Nat /\ Len(cells) \in Nat
  BY <1>1, SeqIs DEF Puts
<1> SUFFICES ASSUME NEW i \in DOMAIN put, put[i].cell = "headerSum"
             PROVE  LET e == put[i].header[1].identity[1]
                    IN  /\ put[i] = HeaderSum(Identifies(e), Counts(Len(e.starts))) /\ Whole(e)
                        /\ i - 1 \in DOMAIN put /\ put[i - 1].cell = "entriesSum" =>
                              put[i - 1] = EntriesSum(e.starts)
  BY DEF TrueSums, put
<1>3. i # place
  BY <1>1 DEF Puts
<1>4. i \in DOMAIN cells /\ put[i] = cells[i]
  BY <1>1, <1>2, <1>3 DEF Puts
<1>5. i - 1 \in DOMAIN put /\ put[i - 1].cell = "entriesSum" =>
          i - 1 \in DOMAIN cells /\ put[i - 1] = cells[i - 1]
  BY <1>1, <1>2, <1>4 DEF Puts
<1> QED  BY <1>4, <1>5 DEF TrueSums

(* A write of the stream: the header is blank before it, or because of it. *)
LEMMA BlankIsTrue ==
    ASSUME NEW cells, IsSeq(cells), TrueSums(cells), NEW write, write.at \in Nat \ {0},
           \/ write.at = 1 /\ write.cell = Zeroed
           \/ /\ cells # <<>> /\ cells[1] = Zeroed /\ write.at # 1
              /\ write.cell.cell \in {"count", "entry", "identity"}
    PROVE  LET put == Put(cells, write)
           IN  put # <<>> /\ put[1] = Zeroed /\ TrueHeader(put) /\ TrueSums(put)
<1> DEFINE put == Put(cells, write)
           place == Place(cells, write)
<1>1. /\ IsSeq(put) /\ place \in 1..Len(cells) + 1 /\ Len(cells) \in Nat
      /\ Len(put) = IF place = Len(cells) + 1 THEN Len(cells) + 1 ELSE Len(cells)
      /\ put[place] = write.cell
      /\ \A i \in 1..Len(cells) : i # place => put[i] = cells[i]
      /\ DOMAIN cells = 1..Len(cells) /\ DOMAIN put = 1..Len(put)
      /\ put = <<>> <=> Len(put) = 0
      /\ cells = <<>> <=> Len(cells) = 0
  <2>1. Puts(put, cells, place, write.cell)
    BY PutIs
  <2> HIDE DEF put, place
  <2>2. IsSeq(put)
    BY <2>1 DEF Puts
  <2> QED  BY <2>1, <2>2, SeqIs DEF Puts
<1>2. place = 1 <=> write.at = 1 \/ cells = <<>>
  BY <1>1 DEF Place, AtEnd
<1> HIDE DEF put, place
<1>3. put # <<>> /\ put[1] = Zeroed
  <2>1. CASE write.at = 1 /\ write.cell = Zeroed
    BY <1>1, <1>2, <2>1
  <2>2. CASE cells # <<>> /\ cells[1] = Zeroed /\ write.at # 1
    BY <1>1, <1>2, <2>2
  <2> QED  BY <2>1, <2>2
<1>4. TrueHeader(put)
  BY <1>3 DEF TrueHeader, Zeroed
<1>5. TrueSums(put)
  <2>1. write.cell.cell \notin {"headerSum", "entriesSum"}
    BY DEF Zeroed
  <2> QED  BY <2>1, PlainKeepsSums DEF put
<1> QED  BY <1>3, <1>4, <1>5 DEF put

-----------------------------------------------------------------------------
(* The next write, as it finds each kind of task.                          *)
LEMMA WriteIs ==
    ASSUME IsSeq(file), IsSeq(plan), Write, plan[1].at \in Nat
    PROVE  /\ file' = Put(file, plan[1]) /\ plan' = Tail(plan) /\ UNCHANGED task
           /\ IsSeq(file') /\ IsSeq(plan')
           /\ Len(plan) \in Nat \ {0} /\ Len(plan') = Len(plan) - 1
           /\ DOMAIN plan = 1..Len(plan) /\ DOMAIN plan' = 1..Len(plan')
           /\ \A j \in DOMAIN plan' : j + 1 \in DOMAIN plan /\ plan'[j] = plan[j + 1]
<1>1. plan # <<>> /\ file' = Put(file, Head(plan)) /\ plan' = Tail(plan) /\ UNCHANGED task
  BY DEF Write
<1>2. /\ IsSeq(plan') /\ Len(plan') = Len(plan) - 1 /\ Head(plan) = plan[1]
      /\ \A j \in DOMAIN plan' : j + 1 \in DOMAIN plan /\ plan'[j] = plan[j + 1]
  BY <1>1, TailIs
<1>3. IsSeq(file')
  BY <1>1, <1>2, PutIs DEF Puts
<1>4. /\ Len(plan) \in Nat \ {0} /\ DOMAIN plan = 1..Len(plan) /\ DOMAIN plan' = 1..Len(plan')
  BY <1>1, <1>2, SeqIs
<1> QED  BY <1>1, <1>2, <1>3, <1>4

LEMMA WriteWhileSaving ==
    ASSUME IsSeq(file), IsSeq(plan), task.doing = "save", Saving, Write
    PROVE  IsSeq(file') /\ IsSeq(plan') /\ TrueHeader(file') /\ TrueSums(file') /\ Saving'
<1> DEFINE d == task.of
           cells == SaveCells(d)
           k == Len(file) + 1
<1>1. /\ Whole(d) /\ Len(file) + Len(plan) = Len(cells)
      /\ \A i \in DOMAIN file : file[i] = cells[i]
      /\ \A j \in DOMAIN plan : plan[j] = [at |-> Len(file) + j, cell |-> cells[Len(file) + j]]
  BY DEF Saving
<1>2. /\ Len(file) \in Nat /\ Len(plan) \in Nat \ {0}
      /\ DOMAIN file = 1..Len(file) /\ DOMAIN plan = 1..Len(plan)
  BY SeqIs DEF Write
<1>3. plan[1].at = k /\ plan[1].cell = cells[k] /\ k \in Nat
  BY <1>1, <1>2
<1> HIDE DEF cells, d
<1>4. /\ file' = Put(file, plan[1]) /\ IsSeq(file') /\ IsSeq(plan') /\ UNCHANGED task
      /\ Len(plan') = Len(plan) - 1 /\ DOMAIN plan' = 1..Len(plan')
      /\ \A j \in DOMAIN plan' : j + 1 \in DOMAIN plan /\ plan'[j] = plan[j + 1]
  <2>1. plan[1].at \in Nat
    BY <1>3
  <2> QED  BY <2>1, WriteIs
<1>5. Place(file, plan[1]) = k
  BY <1>2, <1>3 DEF Place
<1>6. /\ Len(file') = k /\ file'[k] = cells[k] /\ DOMAIN file' = 1..k
      /\ \A i \in DOMAIN file : i # k => file'[i] = file[i]
  <2>1. Puts(file', file, k, cells[k])
    BY <1>3, <1>4, <1>5, PutIs
  <2>2. DOMAIN file' = 1..Len(file')
    BY <1>4, SeqIs
  <2> QED  BY <1>2, <2>1, <2>2 DEF Puts
<1>7. \A i \in DOMAIN file' : file'[i] = cells[i]
  BY <1>1, <1>2, <1>6
<1>8. Len(file') + Len(plan') = Len(cells) /\ Len(file') <= Len(cells)
  <2>1. Len(plan') = Len(plan) - 1 /\ Len(file') = Len(file) + 1
    BY <1>4, <1>6
  <2>2. Len(file) + Len(plan) = Len(cells) /\ Len(file) \in Nat /\ Len(plan) \in Nat \ {0}
    BY <1>1, <1>2 DEF cells, d
  <2> QED  BY <2>1, <2>2
<1>9. TrueHeader(file') /\ TrueSums(file')
  BY <1>1, <1>4, <1>7, <1>8, SavedIsTrue DEF cells
<1>10. \A j \in DOMAIN plan' : plan'[j] = [at |-> Len(file') + j, cell |-> cells[Len(file') + j]]
  <2> TAKE j \in DOMAIN plan'
  <2>1. Len(file) + (j + 1) = Len(file') + j
    BY <1>2, <1>4, <1>6
  <2> QED  BY <1>1, <1>4, <2>1
<1>11. d' = d /\ cells' = cells
  BY <1>4 DEF d, cells, SaveCells
<1>12. Saving'
  BY <1>1, <1>7, <1>8, <1>10, <1>4 DEF Saving, cells, d
<1> QED  BY <1>4, <1>9, <1>12

LEMMA WriteWhileGivingUp ==
    ASSUME IsSeq(file), IsSeq(plan), TrueSums(file), task.doing = "abandon", GivingUp, Write
    PROVE  IsSeq(file') /\ IsSeq(plan') /\ TrueHeader(file') /\ TrueSums(file') /\ GivingUp'
<1>1. Len(plan) \in Nat \ {0} /\ DOMAIN plan = 1..Len(plan)
  BY SeqIs DEF Write
<1>2. /\ \A j \in DOMAIN plan :
            /\ plan[j].at \in Nat \ {0}
            /\ plan[j].cell = Zeroed \/ plan[j].cell.cell \in {"count", "entry"}
            /\ plan[j].at = 1 => plan[j].cell = Zeroed
      /\ (file # <<>> /\ file[1] = Zeroed) \/ plan[1] = [at |-> 1, cell |-> Zeroed]
  BY <1>1, SeqIs DEF GivingUp
<1>3. /\ plan[1].at \in Nat \ {0}
      /\ \/ plan[1].at = 1 /\ plan[1].cell = Zeroed
         \/ /\ file # <<>> /\ file[1] = Zeroed /\ plan[1].at # 1
            /\ plan[1].cell.cell \in {"count", "entry", "identity"}
  <2>1. 1 \in DOMAIN plan
    BY <1>1
  <2>2. CASE plan[1] = [at |-> 1, cell |-> Zeroed]
    BY <2>2
  <2>3. CASE file # <<>> /\ file[1] = Zeroed
    BY <1>2, <2>1, <2>3 DEF Zeroed
  <2> QED  BY <1>2, <2>2, <2>3
<1>4. /\ file' = Put(file, plan[1]) /\ IsSeq(file') /\ IsSeq(plan') /\ UNCHANGED task
      /\ \A j \in DOMAIN plan' : j + 1 \in DOMAIN plan /\ plan'[j] = plan[j + 1]
  BY <1>3, WriteIs
<1>5. file' # <<>> /\ file'[1] = Zeroed /\ TrueHeader(file') /\ TrueSums(file')
  BY <1>3, <1>4, BlankIsTrue
<1>6. GivingUp'
  BY <1>2, <1>4, <1>5 DEF GivingUp
<1> QED  BY <1>4, <1>5, <1>6

LEMMA StreamWrite ==
    ASSUME NEW cells, IsSeq(cells), TrueSums(cells), NEW offsets \in Seq(Nat),
           NEW n \in Nat, n < Len(offsets) + 2, Streamed(cells, offsets, n),
           NEW write, write.at = n + 1, write.cell = StreamCells(offsets)[n + 1]
    PROVE  LET put == Put(cells, write)
           IN  /\ IsSeq(put) /\ TrueHeader(put) /\ TrueSums(put)
               /\ Streamed(put, offsets, n + 1)
<1> DEFINE put == Put(cells, write)
           stream == StreamCells(offsets)
<1>1. /\ Len(offsets) \in Nat /\ stream[1] = Zeroed /\ stream[2] = Counts(0)
      /\ \A r \in 1..Len(offsets) : stream[2 + r] = Entry(offsets[r])
  BY StreamCellsIs
<1>2. /\ Len(cells) \in Nat /\ DOMAIN cells = 1..Len(cells)
      /\ cells = <<>> <=> Len(cells) = 0
  BY SeqIs
<1>3. n <= Len(cells) /\ \A i \in 1..n : cells[i] = stream[i]
  BY DEF Streamed
<1>4. Place(cells, write) = n + 1
  BY <1>2, <1>3 DEF Place, AtEnd
<1>5. Puts(put, cells, n + 1, stream[n + 1])
  <2>1. write.at \in Nat
    OBVIOUS
  <2> QED  BY <1>4, <2>1, PutIs
<1> HIDE DEF put, stream
<1>6. /\ IsSeq(put) /\ n + 1 <= Len(put) /\ \A i \in 1..(n + 1) : put[i] = stream[i]
  BY SMTT(30), <1>2, <1>3, <1>5 DEF Puts
<1>7. \/ write.at = 1 /\ write.cell = Zeroed
      \/ /\ cells # <<>> /\ cells[1] = Zeroed /\ write.at # 1
         /\ write.cell.cell \in {"count", "entry", "identity"}
  <2>1. CASE n = 0
    BY <1>1, <2>1 DEF stream
  <2>2. CASE n # 0
    <3>1. cells # <<>> /\ cells[1] = Zeroed
      BY <1>1, <1>2, <1>3, <2>2
    <3>2. CASE n = 1
      BY <1>1, <3>1, <3>2 DEF Counts, stream
    <3>3. CASE n > 1
      <4>1. n - 1 \in 1..Len(offsets) /\ 2 + (n - 1) = n + 1
        BY <1>1, <3>3
      <4>2. write.cell = Entry(offsets[n - 1])
        BY <1>1, <4>1 DEF stream
      <4> QED  BY <3>1, <3>3, <4>2 DEF Entry
    <3> QED  BY <2>2, <3>2, <3>3
  <2> QED  BY <2>1, <2>2
<1>8. TrueHeader(put) /\ TrueSums(put)
  <2>1. write.at \in Nat \ {0}
    OBVIOUS
  <2> QED  BY <1>7, <2>1, BlankIsTrue DEF put
<1> QED  BY <1>6, <1>8 DEF put, stream, Streamed

LEMMA WriteWhileGenerating ==
    ASSUME IsSeq(file), IsSeq(plan), TrueSums(file), task.doing = "generate", Generating, Write
    PROVE  IsSeq(file') /\ IsSeq(plan') /\ TrueHeader(file') /\ TrueSums(file') /\ Generating'
<1> DEFINE offsets == task.starts
           total == Len(offsets) + 2
           n == total - Len(plan)
<1>1. /\ Whole(task.of) /\ offsets \in Seq(Nat) /\ Len(offsets) \in Nat
      /\ n \in Nat /\ Streamed(file, offsets, n)
      /\ \A j \in DOMAIN plan : plan[j] = [at |-> n + j, cell |-> StreamCells(offsets)[n + j]]
  BY DEF Generating
<1>2. Len(plan) \in Nat \ {0} /\ DOMAIN plan = 1..Len(plan) /\ 1 \in DOMAIN plan
  BY SeqIs DEF Write
<1>3. plan[1].at = n + 1 /\ plan[1].cell = StreamCells(offsets)[n + 1]
  BY <1>1, <1>2
<1>4. n < total
  BY <1>1, <1>2
<1>5. /\ file' = Put(file, plan[1]) /\ IsSeq(file') /\ IsSeq(plan') /\ UNCHANGED task
      /\ Len(plan') = Len(plan) - 1 /\ DOMAIN plan' = 1..Len(plan')
      /\ \A j \in DOMAIN plan' : j + 1 \in DOMAIN plan /\ plan'[j] = plan[j + 1]
  <2>1. plan[1].at \in Nat
    BY <1>1, <1>3
  <2> QED  BY <2>1, WriteIs
<1> HIDE DEF n, offsets
<1>6. TrueHeader(file') /\ TrueSums(file') /\ Streamed(file', offsets, n + 1)
  BY <1>1, <1>3, <1>4, <1>5, StreamWrite
<1>7. offsets' = offsets /\ n' = n + 1
  BY <1>1, <1>2, <1>5 DEF n, offsets
<1>8. \A j \in DOMAIN plan' : plan'[j] = [at |-> n' + j, cell |-> StreamCells(offsets)[n' + j]]
  <2> TAKE j \in DOMAIN plan'
  <2>1. n + (j + 1) = n' + j
    BY <1>1, <1>5, <1>7
  <2> QED  BY <1>1, <1>5, <2>1
<1>9. n' \in Nat /\ Streamed(file', offsets', n')
  BY <1>1, <1>6, <1>7
<1>10. UNCHANGED task /\ offsets' = offsets
  BY <1>5, <1>7
<1>11. Generating'
  BY <1>8, <1>9, <1>10 DEF Generating, offsets, n
<1> QED  BY <1>5, <1>6, <1>11

LEMMA ClosedIsTrue ==
    ASSUME NEW d, Whole(d), NEW cells, NEW n, Closed(cells, d, n)
    PROVE  TrueHeader(cells)
<1>1. cells[1] = Identifies(d) /\ Stored(cells) = d
  BY DEF Closed, Stored, Identifies
<1>2. cells[2].count \in {0, Len(d.starts)}
  BY DEF Closed, Counts
<1>3. \A r \in DOMAIN d.starts : cells[2 + r] = Entry(d.starts[r])
  BY DEF Closed
<1> QED  BY <1>1, <1>2, <1>3 DEF TrueHeader

LEMMA CloseWrite ==
    ASSUME NEW d, Whole(d), NEW cells, IsSeq(cells), TrueSums(cells), NEW n \in Nat,
           Len(d.starts) + 2 <= n, n < Len(d.starts) + 6,
           n = Len(d.starts) + 2 => Streamed(cells, d.starts, n),
           n # Len(d.starts) + 2 => Closed(cells, d, n),
           NEW write, write = Script(d)[n + 1]
    PROVE  LET put == Put(cells, write)
           IN  /\ write.at \in Nat /\ IsSeq(put) /\ TrueHeader(put) /\ TrueSums(put)
               /\ Closed(put, d, n + 1)
<1> DEFINE put == Put(cells, write)
           m == Len(d.starts) + 2
           place == Place(cells, write)
<1>1. /\ d.starts \in Seq(Nat) /\ Len(d.starts) \in Nat /\ DOMAIN d.starts = 1..Len(d.starts)
      /\ DOMAIN cells = 1..Len(cells) /\ Len(cells) \in Nat
  BY WholeIs, SeqIs
<1>2. /\ n = m     => write = [at |-> 1, cell |-> Identifies(d)]
      /\ n = m + 1 => write = [at |-> 2, cell |-> Counts(Len(d.starts))]
      /\ n = m + 2 => write = [at |-> AtEnd, cell |-> EntriesSum(d.starts)]
      /\ n = m + 3 => write = [at |-> AtEnd, cell |-> HeaderSum(Identifies(d), Counts(Len(d.starts)))]
  BY <1>1, ScriptIs
<1>3. m \in Nat /\ n \in {m, m + 1, m + 2, m + 3}
  <2> DEFINE length == Len(d.starts)
  <2>1. length \in Nat /\ length + 2 <= n /\ n < length + 6 /\ m = length + 2
    BY <1>1
  <2> HIDE DEF length, m
  <2> QED  BY <2>1
<1>4. write.at \in Nat
  BY <1>2, <1>3 DEF AtEnd
<1>5. Puts(put, cells, place, write.cell)
  BY <1>4, PutIs
<1> HIDE DEF put, place
<1>6. m <= Len(cells) /\ \A r \in DOMAIN d.starts : cells[2 + r] = Entry(d.starts[r])
  <2>1. CASE n = m
    <3>1. m <= Len(cells) /\ \A i \in 1..m : cells[i] = StreamCells(d.starts)[i]
      BY <2>1 DEF Streamed
    <3>2. \A r \in DOMAIN d.starts : 2 + r \in 1..m /\ StreamCells(d.starts)[2 + r] = Entry(d.starts[r])
      BY SMTT(30), <1>1, StreamCellsIs
    <3> QED  BY <3>1, <3>2
  <2>2. CASE n # m
    BY <2>2 DEF Closed
  <2> QED  BY <2>1, <2>2
<1>7. \A r \in DOMAIN d.starts : 2 + r \in DOMAIN cells /\ 2 + r # 1 /\ 2 + r # 2
  BY <1>1, <1>6
<1>8. CASE n = m
  <2>1. place = 1 /\ write.cell = Identifies(d)
    BY <1>1, <1>2, <1>6, <1>8 DEF Place, AtEnd, place
  <2>2. cells[2] = Counts(0)
    <3>1. 2 \in 1..m /\ \A i \in 1..m : cells[i] = StreamCells(d.starts)[i]
      BY <1>1, <1>8 DEF Streamed
    <3> QED  BY <1>1, <3>1, StreamCellsIs
  <2>3. /\ Len(put) = Len(cells) /\ put[1] = Identifies(d) /\ put[2] = Counts(0)
        /\ \A r \in DOMAIN d.starts : put[2 + r] = Entry(d.starts[r])
    <3>1. 1 \in DOMAIN cells /\ 2 \in DOMAIN cells
      BY <1>1, <1>6 DEF m
    <3>2. Puts(put, cells, 1, Identifies(d))
      BY <1>5, <2>1
    <3>3. /\ Len(put) = Len(cells) /\ put[1] = Identifies(d)
          /\ \A i \in DOMAIN cells : i # 1 => put[i] = cells[i]
      BY <3>1, <3>2, PutsWithin
    <3> QED  BY <1>6, <1>7, <2>2, <3>1, <3>3
  <2>4. Closed(put, d, n + 1)
    BY <1>1, <1>6, <1>8, <2>3 DEF Closed
  <2>5. TrueSums(put)
    BY <1>4, <2>1, PlainKeepsSums DEF put, Identifies
  <2> QED  BY <1>4, <1>5, <2>4, <2>5, ClosedIsTrue DEF Puts, put
<1>9. CASE n = m + 1
  <2>1. place = 2 /\ write.cell = Counts(Len(d.starts))
    BY <1>1, <1>2, <1>6, <1>9 DEF Place, AtEnd, place
  <2>2. cells[1] = Identifies(d)
    BY <1>9 DEF Closed
  <2>3. /\ Len(put) = Len(cells) /\ put[1] = Identifies(d) /\ put[2] = Counts(Len(d.starts))
        /\ \A r \in DOMAIN d.starts : put[2 + r] = Entry(d.starts[r])
    <3>1. 1 \in DOMAIN cells /\ 2 \in DOMAIN cells
      BY <1>1, <1>6 DEF m
    <3>2. Puts(put, cells, 2, Counts(Len(d.starts)))
      BY <1>5, <2>1
    <3>3. /\ Len(put) = Len(cells) /\ put[2] = Counts(Len(d.starts))
          /\ \A i \in DOMAIN cells : i # 2 => put[i] = cells[i]
      BY <3>1, <3>2, PutsWithin
    <3> QED  BY <1>6, <1>7, <2>2, <3>1, <3>3
  <2>4. Closed(put, d, n + 1)
    BY SMTT(30), <1>1, <1>6, <1>9, <2>3 DEF Closed
  <2>5. TrueSums(put)
    BY <1>4, <2>1, PlainKeepsSums DEF put, Counts
  <2> QED  BY <1>4, <1>5, <2>4, <2>5, ClosedIsTrue DEF Puts, put
<1>10. CASE n \in {m + 2, m + 3}
  <2>1. place = Len(cells) + 1
    BY <1>2, <1>10 DEF Place, AtEnd, place
  <2>2. cells[1] = Identifies(d) /\ cells[2] = Counts(Len(d.starts))
    BY <1>3, <1>10 DEF Closed
  <2>3. /\ Len(put) = Len(cells) + 1 /\ put[Len(put)] = write.cell
        /\ put[1] = Identifies(d) /\ put[2] = Counts(Len(d.starts))
        /\ put[Len(put) - 1] = cells[Len(cells)]
        /\ \A r \in DOMAIN d.starts : put[2 + r] = Entry(d.starts[r])
        /\ \A i \in DOMAIN cells : put[i] = cells[i]
    <3>1. 1 \in DOMAIN cells /\ 2 \in DOMAIN cells /\ Len(cells) \in DOMAIN cells
      BY <1>1, <1>6 DEF m
    <3>2. Puts(put, cells, Len(cells) + 1, write.cell)
      BY <1>5, <2>1
    <3>3. /\ Len(put) = Len(cells) + 1 /\ put[Len(put)] = write.cell
          /\ \A i \in DOMAIN cells : put[i] = cells[i]
      BY <3>2, PutsBehind
    <3>4. Len(put) - 1 = Len(cells)
      BY <1>1, <3>3
    <3> QED  BY <1>6, <1>7, <2>2, <3>1, <3>3, <3>4
  <2>4. /\ n = m + 2 => write.cell = EntriesSum(d.starts)
        /\ n = m + 3 => /\ write.cell = HeaderSum(Identifies(d), Counts(Len(d.starts)))
                        /\ cells[Len(cells)] = EntriesSum(d.starts) /\ Len(cells) > m
    BY <1>2 DEF Closed
  <2>5. Closed(put, d, n + 1)
    BY <1>1, <1>6, <1>10, <2>3, <2>4 DEF Closed
  <2>6. DOMAIN put = 1..Len(put)
    BY <1>5, SeqIs DEF Puts
  <2>7. TrueSums(put)
    <3> SUFFICES ASSUME NEW i \in DOMAIN put, put[i].cell = "headerSum"
                 PROVE  LET e == put[i].header[1].identity[1]
                        IN  /\ put[i] = HeaderSum(Identifies(e), Counts(Len(e.starts))) /\ Whole(e)
                            /\ i - 1 \in DOMAIN put /\ put[i - 1].cell = "entriesSum" =>
                                  put[i - 1] = EntriesSum(e.starts)
      BY DEF TrueSums, put
    <3>1. CASE i \in DOMAIN cells
      <4>1. put[i] = cells[i]
        BY <2>3, <3>1
      <4>2. i - 1 \in DOMAIN put => i - 1 \in DOMAIN cells /\ put[i - 1] = cells[i - 1]
        BY <1>1, <2>3, <2>6, <3>1
      <4> QED  BY <3>1, <4>1, <4>2 DEF TrueSums
    <3>2. CASE i \notin DOMAIN cells
      <4>1. i = Len(put)
        BY <1>1, <2>3, <2>6, <3>2
      <4>2. n = m + 3
        BY <1>10, <2>3, <2>4, <4>1 DEF EntriesSum
      <4>3. put[i] = HeaderSum(Identifies(d), Counts(Len(d.starts)))
        BY <2>3, <2>4, <4>1, <4>2
      <4>4. put[i].header[1].identity[1] = d
        BY <4>3 DEF HeaderSum, Identifies
      <4>5. put[i - 1] = EntriesSum(d.starts)
        BY <2>3, <2>4, <4>1, <4>2
      <4> QED  BY <4>3, <4>4, <4>5
    <3> QED  BY <3>1, <3>2
  <2> QED  BY <1>4, <1>5, <2>5, <2>7, ClosedIsTrue DEF Puts, put
<1> QED  BY <1>3, <1>8, <1>9, <1>10

LEMMA WriteWhileCreating ==
    ASSUME IsSeq(file), IsSeq(plan), TrueSums(file), task.doing = "create", Creating, Write
    PROVE  IsSeq(file') /\ IsSeq(plan') /\ TrueHeader(file') /\ TrueSums(file') /\ Creating'
<1> DEFINE d == task.of
           m == Len(d.starts) + 2
           n == m + 4 - Len(plan)
<1>1. /\ Whole(d) /\ n \in Nat
      /\ n <= m => Streamed(file, d.starts, n)
      /\ n > m => Closed(file, d, n)
      /\ \A j \in DOMAIN plan : plan[j] = Script(d)[n + j]
  BY DEF Creating
<1>2. /\ Len(plan) \in Nat \ {0} /\ DOMAIN plan = 1..Len(plan) /\ 1 \in DOMAIN plan
      /\ d.starts \in Seq(Nat) /\ Len(d.starts) \in Nat
  BY <1>1, SeqIs, WholeIs DEF Write
<1>3. plan[1] = Script(d)[n + 1] /\ n < m + 4 /\ m \in Nat
  BY SMTT(30), <1>1, <1>2
<1> HIDE DEF d, n
<1>4. /\ plan[1].at \in Nat
      /\ LET put == Put(file, plan[1])
         IN  /\ TrueHeader(put) /\ TrueSums(put)
             /\ n + 1 <= m => Streamed(put, d.starts, n + 1)
             /\ n + 1 > m => Closed(put, d, n + 1)
  <2>1. CASE n < m
    <3>1. n + 1 \in 1..m
      BY <1>1, <1>3, <2>1
    <3>2. plan[1] = [at |-> n + 1, cell |-> StreamCells(d.starts)[n + 1]]
      BY <1>2, <1>3, <3>1, ScriptIs
    <3>3. plan[1].at = n + 1 /\ plan[1].cell = StreamCells(d.starts)[n + 1]
      BY <3>2
    <3>4. /\ TrueHeader(Put(file, plan[1])) /\ TrueSums(Put(file, plan[1]))
          /\ Streamed(Put(file, plan[1]), d.starts, n + 1)
      BY <1>1, <1>2, <2>1, <3>3, StreamWrite
    <3>5. ~(n + 1 > m)
      BY <3>1
    <3> QED  BY <1>1, <3>3, <3>4, <3>5
  <2>2. CASE m <= n
    <3>1. /\ n < Len(d.starts) + 6
          /\ n = Len(d.starts) + 2 => Streamed(file, d.starts, n)
          /\ n # Len(d.starts) + 2 => Closed(file, d, n)
      BY <1>1, <1>2, <1>3, <2>2
    <3>2. ~(n + 1 <= m)
      BY <1>1, <1>3, <2>2
    <3> QED  BY <1>1, <1>3, <2>2, <3>1, <3>2, CloseWrite
  <2> QED  BY <1>1, <1>3, <2>1, <2>2
<1>5. /\ file' = Put(file, plan[1]) /\ IsSeq(file') /\ IsSeq(plan') /\ UNCHANGED task
      /\ Len(plan') = Len(plan) - 1 /\ DOMAIN plan' = 1..Len(plan')
      /\ \A j \in DOMAIN plan' : j + 1 \in DOMAIN plan /\ plan'[j] = plan[j + 1]
  BY <1>4, WriteIs
<1>6. d' = d /\ n' = n + 1
  BY <1>1, <1>2, <1>5 DEF n, d
<1>7. \A j \in DOMAIN plan' : plan'[j] = Script(d)[n' + j]
  <2> TAKE j \in DOMAIN plan'
  <2>1. n + (j + 1) = n' + j
    BY <1>1, <1>5, <1>6
  <2> QED  BY <1>1, <1>5, <2>1
<1>8. /\ n' \in Nat
      /\ n' <= m => Streamed(file', d.starts, n')
      /\ n' > m => Closed(file', d, n')
  BY <1>1, <1>4, <1>5, <1>6
<1> HIDE DEF m
<1>9. Creating'
  <2>1. /\ task'.of = d /\ n' = Len(d.starts) + 2 + 4 - Len(plan') /\ m = Len(d.starts) + 2
    BY <1>6 DEF n, d, m
  <2> QED  BY <1>1, <1>7, <1>8, <2>1 DEF Creating
<1> QED  BY <1>4, <1>5, <1>9

-----------------------------------------------------------------------------
(* A file that is complete, and what a reader makes of one that verifies.  *)
Complete(cells, d) ==
    /\ Len(cells) = Len(d.starts) + 4
    /\ cells[1] = Identifies(d) /\ cells[2] = Counts(Len(d.starts))
    /\ \A r \in DOMAIN d.starts : cells[2 + r] = Entry(d.starts[r])
    /\ cells[Len(cells) - 1] = EntriesSum(d.starts)
    /\ cells[Len(cells)] = HeaderSum(Identifies(d), Counts(Len(d.starts)))

LEMMA CompleteLoads ==
    ASSUME NEW d, Whole(d), NEW cells, Complete(cells, d)
    PROVE  Loads(cells) /\ Stored(cells) = d
<1> DEFINE n == Len(d.starts)
<1>1. /\ n \in Nat /\ d.starts \in Seq(Nat) /\ DOMAIN d.starts = 1..n
      /\ \A r \in 1..n : d.starts[r] < d.length
      /\ \A q, r \in 1..n : q < r => d.starts[q] < d.starts[r]
  BY WholeIs DEF WellFormed
<1>2. /\ Stored(cells) = d /\ Count(cells) = n
      /\ cells[1].cell = "identity" /\ cells[1].identity # <<>> /\ cells[2].cell = "count"
  BY DEF Complete, Stored, Count, Identifies, Counts
<1>3. Opens(cells)
  BY <1>1, <1>2 DEF Complete, Opens, HasHeader, HeaderCells, TrailerCells
<1>4. \A r \in 1..n : cells[2 + r].cell = "entry" /\ cells[2 + r].entry = d.starts[r]
  <2> TAKE r \in 1..n
  <2>1. cells[2 + r] = Entry(d.starts[r])
    BY <1>1 DEF Complete
  <2> QED  BY <2>1 DEF Entry
<1>5. StoredStarts(cells) = d.starts
  <2>1. StoredStarts(cells) = [r \in 1..n |-> d.starts[r]]
    BY <1>2, <1>4 DEF StoredStarts, HeaderCells
  <2>2. d.starts = [r \in 1..n |-> d.starts[r]]
    BY SMTT(30), <1>1
  <2> QED  BY <2>1, <2>2
<1>6. Verifies(cells)
  BY <1>2, <1>4, <1>5 DEF Complete, Verifies, HeaderCells
<1>7. \A r \in 1..n :
          /\ Plausible(cells, r)
          /\ r > 1 => cells[2 + r].entry > cells[2 + r - 1].entry
  <2> TAKE r \in 1..n
  <2>1. Plausible(cells, r)
    BY <1>1, <1>2, <1>4 DEF Plausible, HeaderCells
  <2>2. ASSUME r > 1
        PROVE  cells[2 + r].entry > cells[2 + r - 1].entry
    <3>1. r - 1 \in 1..n /\ 2 + r - 1 = 2 + (r - 1) /\ r - 1 < r
      BY <1>1, <2>2
    <3>2. cells[2 + (r - 1)].entry = d.starts[r - 1] /\ d.starts[r - 1] < d.starts[r]
      BY <1>1, <1>4, <3>1
    <3>3. d.starts[r - 1] \in Nat /\ d.starts[r] \in Nat
      BY <1>1, <3>1
    <3> QED  BY <1>4, <3>1, <3>2, <3>3
  <2> QED  BY <2>1, <2>2
<1> QED  BY <1>2, <1>3, <1>6, <1>7 DEF Loads, HeaderCells

LEMMA VerifiedIsTrue ==
    ASSUME NEW cells, IsSeq(cells), TrueHeader(cells), TrueSums(cells),
           Opens(cells), Verifies(cells)
    PROVE  Whole(Stored(cells)) /\ StoredStarts(cells) = Stored(cells).starts
<1> DEFINE d == Stored(cells)
           last == Len(cells)
<1>1. /\ Len(cells) \in Nat /\ DOMAIN cells = 1..Len(cells) /\ cells # <<>> <=> Len(cells) # 0
      /\ Len(cells) >= 2 /\ cells[1].cell = "identity" /\ cells[1].identity # <<>>
      /\ cells[2].cell = "count" /\ last = 2 + Count(cells) + 2
  BY SeqIs DEF Opens, HasHeader, HeaderCells, TrailerCells
<1>2. cells[1] = Identifies(d) /\ Whole(d) /\ cells[2].count \in {0, Len(d.starts)}
  BY <1>1 DEF TrueHeader
<1>3. last \in DOMAIN cells /\ last - 1 \in DOMAIN cells
  BY <1>1
<1>4. cells[last] = HeaderSum(cells[1], cells[2]) /\ cells[last - 1] = EntriesSum(StoredStarts(cells))
  BY DEF Verifies
<1> HIDE DEF last
<1>5. cells[last].cell = "headerSum" /\ cells[last].header[1].identity[1] = d
  BY <1>2, <1>4 DEF HeaderSum, Identifies
<1>6. cells[last - 1].cell = "entriesSum" /\ cells[last - 1].sum = StoredStarts(cells)
  BY <1>4 DEF EntriesSum
<1>7. cells[last - 1] = EntriesSum(d.starts)
  BY <1>3, <1>5, <1>6 DEF TrueSums
<1>8. StoredStarts(cells) = d.starts
  BY <1>6, <1>7 DEF EntriesSum
<1> QED  BY <1>2, <1>8

(* A plausible entry is that of the document the header identifies.        *)
LEMMA PlausibleIsTrue ==
    ASSUME NEW cells, IsSeq(cells), TrueHeader(cells), Opens(cells),
           NEW r \in 1..Count(cells), Plausible(cells, r)
    PROVE  r \in DOMAIN Stored(cells).starts
           /\ cells[HeaderCells + r].entry = Stored(cells).starts[r]
<1> DEFINE d == Stored(cells)
<1>1. /\ Len(cells) \in Nat /\ DOMAIN cells = 1..Len(cells) /\ cells # <<>> <=> Len(cells) # 0
      /\ Len(cells) >= 2 /\ cells[1].cell = "identity" /\ cells[1].identity # <<>>
      /\ cells[2].cell = "count" /\ Len(cells) = 2 + Count(cells) + 2
  BY SeqIs DEF Opens, HasHeader, HeaderCells, TrailerCells
<1>2. /\ Whole(d) /\ cells[2].count \in {0, Len(d.starts)}
      /\ \A q \in DOMAIN d.starts :
            2 + q \in DOMAIN cells /\ cells[2 + q].cell = "entry" => cells[2 + q] = Entry(d.starts[q])
  BY <1>1 DEF TrueHeader
<1>3. Len(d.starts) \in Nat /\ DOMAIN d.starts = 1..Len(d.starts)
  BY <1>2, WholeIs
<1>4. Count(cells) = Len(d.starts) /\ r \in DOMAIN d.starts /\ 2 + r \in DOMAIN cells
  <2>1. Count(cells) = cells[2].count
    BY DEF Count
  <2> DEFINE count == Count(cells)
             n == Len(d.starts)
  <2>2. r \in 1..count /\ count \in {0, n} /\ n \in Nat /\ Len(cells) = 2 + count + 2
    BY <1>1, <1>2, <1>3, <2>1
  <2> HIDE DEF count, n
  <2>3. count = n /\ r \in 1..n /\ 2 + r \in 1..Len(cells)
    BY <2>2
  <2> QED  BY <1>1, <1>3, <2>3 DEF count, n
<1>5. cells[2 + r] = Entry(d.starts[r])
  BY <1>2, <1>4 DEF Plausible, HeaderCells
<1> QED  BY <1>4, <1>5 DEF Entry, HeaderCells

-----------------------------------------------------------------------------
LEMMA NothingIs == IsSeq(<<>>) /\ Len(<<>>) = 0 /\ TrueHeader(<<>>) /\ TrueSums(<<>>)
<1>1. <<>> \in Seq({})
  OBVIOUS
<1>2. IsSeq(<<>>) /\ Len(<<>>) = 0
  BY <1>1, OwnSeq
<1>3. TrueHeader(<<>>)
  BY DEF TrueHeader
<1>4. DOMAIN <<>> = {}
  BY <1>2, SeqIs
<1>5. TrueSums(<<>>)
  BY <1>4 DEF TrueSums
<1> QED  BY <1>2, <1>3, <1>5

LEMMA StreamPlanIs ==
    ASSUME NEW offsets \in Seq(Nat)
    PROVE  /\ IsSeq(StreamPlan(offsets)) /\ Len(StreamPlan(offsets)) = Len(offsets) + 2
           /\ Len(offsets) \in Nat
           /\ \A j \in 1..Len(offsets) + 2 :
                 /\ StreamPlan(offsets)[j] = [at |-> j, cell |-> StreamCells(offsets)[j]]
                 /\ \/ StreamCells(offsets)[j] = Zeroed
                    \/ j # 1 /\ StreamCells(offsets)[j].cell \in {"count", "entry"}
           /\ StreamCells(offsets)[1] = Zeroed
<1> DEFINE cells == StreamCells(offsets)
           n == Len(offsets)
<1>1. /\ IsSeq(cells) /\ Len(cells) = n + 2 /\ n \in Nat /\ cells[1] = Zeroed /\ cells[2] = Counts(0)
      /\ \A r \in 1..n : cells[2 + r] = Entry(offsets[r])
  BY StreamCellsIs
<1>2. StreamPlan(offsets) = At(1, cells)
  BY DEF StreamPlan, StreamCells
<1> HIDE DEF cells, n
<1>3. /\ IsSeq(At(1, cells)) /\ Len(At(1, cells)) = n + 2
      /\ \A j \in 1..n + 2 : At(1, cells)[j] = [at |-> 1 + j - 1, cell |-> cells[j]]
  <2>1. /\ IsSeq(At(1, cells)) /\ Len(At(1, cells)) = Len(cells)
        /\ \A j \in 1..Len(cells) : At(1, cells)[j] = [at |-> 1 + j - 1, cell |-> cells[j]]
    BY <1>1, AtIs
  <2> QED  BY <1>1, <2>1
<1>4. \A j \in 1..n + 2 : 1 + j - 1 = j
  BY <1>1
<1>5. \A j \in 1..n + 2 : cells[j] = Zeroed \/ (j # 1 /\ cells[j].cell \in {"count", "entry"})
  <2> TAKE j \in 1..n + 2
  <2>1. j \in {1, 2} \/ (j - 2 \in 1..n /\ j = 2 + (j - 2))
    BY <1>1
  <2>2. CASE j \in {1, 2}
    BY <1>1, <2>2 DEF Counts
  <2>3. CASE j - 2 \in 1..n /\ j = 2 + (j - 2)
    <3>1. cells[j] = Entry(offsets[j - 2]) /\ j # 1
      BY <1>1, <2>3
    <3> QED  BY <3>1 DEF Entry
  <2> QED  BY <2>1, <2>2, <2>3
<1> QED  BY <1>1, <1>2, <1>3, <1>4, <1>5 DEF cells, n

LEMMA NotWriting ==
    ASSUME Filed, UNCHANGED file, plan' = <<>>, task'.doing \in {"nothing", "build"}
    PROVE  Filed'
<1>1. IsSeq(plan')
  BY NothingIs
<1> QED  BY <1>1 DEF Filed, Writing, Saving, Generating, Creating, GivingUp

LEMMA RestartsIs ==
    ASSUME Filed, Restarts
    PROVE  /\ IsSeq(file') /\ TrueHeader(file') /\ TrueSums(file') /\ Len(file') \in Nat
           /\ completed' = NoSource /\ UNCHANGED <<build, memory>>
<1>1. file' = file \/ file' = <<>>
  BY DEF Restarts
<1>2. IsSeq(file') /\ TrueHeader(file') /\ TrueSums(file')
  BY <1>1, NothingIs DEF Filed
<1> QED  BY <1>2, SeqIs DEF Restarts

LEMMA SaveFiles ==
    ASSUME Filed, Remembered, Save
    PROVE  Filed'
<1> DEFINE d == memory.of
<1>1. /\ Whole(d) /\ memory.starts = d.starts /\ d.starts \in Seq(Nat)
      /\ file' = <<>> /\ plan' = SavePlan(memory) /\ task' = [doing |-> "save", of |-> d]
  BY WholeIs DEF Save, Remembered
<1>2. plan' = At(1, SaveCells(d))
  BY <1>1 DEF SavePlan, SaveCells
<1>3. IsSeq(SaveCells(d))
  BY <1>1, SaveCellsIs
<1> HIDE DEF d
<1> DEFINE cells == SaveCells(d)
<1> HIDE DEF cells
<1>4. /\ IsSeq(plan') /\ Len(plan') = Len(cells) /\ Len(plan') \in Nat /\ DOMAIN plan' = 1..Len(plan')
      /\ \A j \in DOMAIN plan' : plan'[j] = [at |-> 1 + j - 1, cell |-> cells[j]]
  <2>1. IsSeq(At(1, cells)) /\ Len(At(1, cells)) = Len(cells)
        /\ \A j \in 1..Len(cells) : At(1, cells)[j] = [at |-> 1 + j - 1, cell |-> cells[j]]
    BY <1>3, AtIs DEF cells
  <2> QED  BY <1>2, <2>1, SeqIs DEF cells
<1>5. \A j \in DOMAIN plan' : plan'[j] = [at |-> 0 + j, cell |-> cells[0 + j]]
  <2> TAKE j \in DOMAIN plan'
  <2>1. 0 + j = j /\ 1 + j - 1 = j
    BY <1>4
  <2> QED  BY <1>4, <2>1
<1>6. Saving'
  <2>1. task'.of = d /\ Len(file') = 0 /\ DOMAIN file' = {}
    BY <1>1, NothingIs
  <2>2. Len(file') + Len(plan') = Len(cells)
    BY <1>4, <2>1
  <2> QED  BY <1>1, <1>5, <2>1, <2>2 DEF Saving, cells
<1> QED  BY <1>1, <1>4, <1>6, NothingIs DEF Filed, Writing, Generating, Creating, GivingUp

LEMMA CreateFiles ==
    ASSUME Filed, WellFormed(source), Create
    PROVE  Filed'
<1> DEFINE d == source
           upto == Min({Len(d.starts) + 1} \cup d.failing) - 1
           valid == SubSeq(d.starts, 1, upto)
<1>1. /\ IsSeq(file') /\ TrueHeader(file') /\ TrueSums(file') /\ Len(file') \in Nat
  BY RestartsIs DEF Create
<1>2. /\ d.starts \in Seq(Nat) /\ Len(d.starts) \in Nat /\ DOMAIN d.starts = 1..Len(d.starts)
      /\ d.failing \subseteq DOMAIN d.starts
  BY DEF WellFormed
<1>3. upto \in 0..Len(d.starts) /\ (d.failing = {} => upto = Len(d.starts))
  <2> DEFINE ends == {Len(d.starts) + 1} \cup d.failing
  <2>1. ends \subseteq 1..Len(d.starts) + 1 /\ ends # {} /\ ends \subseteq Nat
    BY <1>2
  <2> HIDE DEF ends
  <2>2. Min(ends) \in ends
    BY <2>1, MinIsLeast
  <2>3. Min(ends) \in 1..Len(d.starts) + 1
    BY <2>1, <2>2
  <2>4. d.failing = {} => Min(ends) = Len(d.starts) + 1
    BY <2>2 DEF ends
  <2> QED  BY <1>2, <2>3, <2>4 DEF ends
<1> HIDE DEF upto
<1>4. valid \in Seq(Nat)
  <2>1. \A r \in 1..upto : d.starts[r] \in Nat
    BY <1>2, <1>3
  <2> QED  BY <1>2, <1>3, <2>1, SubSeqProperties
<1>5. CASE d.failing = {}
  <2>1. valid = d.starts
    BY <1>2, <1>3, <1>5, SubSeqFull
  <2>2. plan' = Script(d) /\ task' = [doing |-> "create", of |-> d]
    BY <1>5, <2>1 DEF Create, Script, valid, upto
  <2>3. IsSeq(plan') /\ Len(plan') = Len(d.starts) + 2 + 4 /\ Whole(d)
    BY <1>2, <1>5, <2>2, ScriptIs DEF Whole
  <2> DEFINE n == Len(d.starts) + 2 + 4 - Len(plan')
             script == Script(d)
  <2>4. n = 0 /\ Streamed(file', d.starts, n) /\ ~(n > Len(d.starts) + 2)
    BY <1>1, <1>2, <2>3 DEF Streamed
  <2>5. DOMAIN plan' = 1..Len(plan') /\ Len(plan') \in Nat
    BY <2>3, SeqIs
  <2> HIDE DEF n, script
  <2>6. \A j \in DOMAIN plan' : plan'[j] = script[n + j]
    <3> TAKE j \in DOMAIN plan'
    <3>1. n + j = j
      BY <2>4, <2>5
    <3> QED  BY <2>2, <3>1 DEF script
  <2>7. Creating'
    <3>1. task'.of = d /\ n \in Nat
      BY <2>2, <2>4
    <3> QED  BY <2>3, <2>4, <2>6, <3>1 DEF Creating, n, script
  <2> QED  BY <1>1, <2>2, <2>3, <2>7 DEF Filed, Writing, Generating, Saving, GivingUp
<1>6. CASE d.failing # {}
  <2>1. plan' = StreamPlan(valid) /\ task'.doing = "abandon"
    BY <1>6 DEF Create, valid, upto
  <2>2. IsSeq(plan') /\ DOMAIN plan' = 1..Len(valid) + 2 /\ Len(valid) \in Nat
    BY ZenonT(60), <1>4, <2>1, StreamPlanIs, SeqIs
  <2> HIDE DEF valid
  <2>3. \A j \in DOMAIN plan' :
            /\ plan'[j] = [at |-> j, cell |-> StreamCells(valid)[j]]
            /\ \/ StreamCells(valid)[j] = Zeroed
               \/ j # 1 /\ StreamCells(valid)[j].cell \in {"count", "entry"}
    BY <1>4, <2>1, <2>2, StreamPlanIs
  <2>4. \A j \in DOMAIN plan' : /\ plan'[j].at = j /\ j \in Nat \ {0}
                               /\ plan'[j].cell = StreamCells(valid)[j]
    BY <2>2, <2>3
  <2>5. plan'[1] = [at |-> 1, cell |-> Zeroed]
    BY <1>4, <2>2, <2>3, StreamPlanIs
  <2>6. GivingUp'
    BY <2>3, <2>4, <2>5 DEF GivingUp
  <2> QED  BY <1>1, <2>1, <2>2, <2>6 DEF Filed, Writing, Generating, Saving, Creating
<1> QED  BY <1>5, <1>6

LEMMA GenerateFiles ==
    ASSUME Filed, NEW d, WellFormed(d), NEW headers, Generate(d, headers)
    PROVE  Filed' /\ WellFormed(source')
<1>1. /\ IsSeq(file') /\ TrueHeader(file') /\ TrueSums(file') /\ Len(file') \in Nat
  BY RestartsIs DEF Generate
<1>2. /\ d.failing = {} /\ source' = Upto(d, 0) /\ plan' = StreamPlan(<<>>)
      /\ task' = [doing |-> "generate", of |-> d, headers |-> headers, starts |-> <<>>,
                  flushed |-> source'.length, buffered |-> 0]
  BY DEF Generate
<1>3. WellFormed(source') /\ Whole(d) /\ Len(d.starts) \in Nat
  <2>1. Len(d.starts) \in Nat /\ 0 \in 0..Len(d.starts)
    BY DEF WellFormed
  <2> QED  BY <1>2, <2>1, UptoWellFormed DEF Whole
<1>4. <<>> \in Seq(Nat) /\ Len(<<>>) = 0
  OBVIOUS
<1>5. /\ IsSeq(plan') /\ Len(plan') = 2 /\ DOMAIN plan' = 1..2
      /\ \A j \in 1..2 : plan'[j] = [at |-> j, cell |-> StreamCells(<<>>)[j]]
  <2>1. /\ IsSeq(StreamPlan(<<>>)) /\ Len(StreamPlan(<<>>)) = 0 + 2
        /\ \A j \in 1..0 + 2 : StreamPlan(<<>>)[j] = [at |-> j, cell |-> StreamCells(<<>>)[j]]
    BY <1>4, StreamPlanIs
  <2> QED  BY <1>2, <2>1, SeqIs
<1> DEFINE n == Len(task'.starts) + 2 - Len(plan')
<1>6. n = 0 /\ task'.starts = <<>>
  BY <1>2, <1>4, <1>5
<1> HIDE DEF n
<1>7. Streamed(file', <<>>, 0)
  BY <1>1 DEF Streamed
<1>8. \A j \in DOMAIN plan' : plan'[j] = [at |-> n + j, cell |-> StreamCells(<<>>)[n + j]]
  <2> TAKE j \in DOMAIN plan'
  <2>1. n + j = j
    BY <1>5, <1>6
  <2> QED  BY <1>5, <2>1
<1>9. /\ task'.flushed = Upto(d, 0).length /\ task'.buffered = 0 /\ task'.of = d
      /\ Upto(d, 0).length \in Nat /\ task'.headers = headers
  BY <1>2, <1>3 DEF WellFormed
<1>10. /\ task'.flushed \in Nat /\ task'.buffered \in Nat
       /\ task'.flushed + task'.buffered = Upto(task'.of, Len(task'.starts)).length
  BY <1>4, <1>6, <1>9
<1>11. Generating'
  <2>1. /\ task' = [doing |-> "generate", of |-> task'.of, headers |-> task'.headers,
                    starts |-> task'.starts, flushed |-> task'.flushed, buffered |-> task'.buffered]
    BY <1>2
  <2>2. Len(task'.starts) <= Len(task'.of.starts) /\ task'.starts \in Seq(Nat)
    BY <1>3, <1>4, <1>6, <1>9
  <2>3. \A r \in DOMAIN task'.starts : task'.starts[r] = task'.of.starts[r]
    BY <1>6
  <2>4. n \in Nat /\ Streamed(file', task'.starts, n) /\ Whole(task'.of)
    BY <1>3, <1>6, <1>7, <1>9
  <2> QED  BY <1>6, <1>8, <1>10, <2>1, <2>2, <2>3, <2>4 DEF Generating, n
<1>12. task'.doing = "generate"
  BY <1>2
<1> QED  BY <1>1, <1>3, <1>5, <1>11, <1>12 DEF Filed, Writing, Saving, Creating, GivingUp

(* Where the next record starts is where the ones before it end.           *)
LEMMA UptoLengths ==
    ASSUME NEW d, WellFormed(d), NEW k \in 1..Len(d.starts)
    PROVE  /\ Upto(d, k - 1).length = d.starts[k] /\ d.starts[k] \in Nat
           /\ Upto(d, k).length \in Nat /\ Upto(d, k).length >= d.starts[k]
<1>1. /\ d.length \in Nat /\ d.starts \in Seq(Nat) /\ Len(d.starts) \in Nat
      /\ DOMAIN d.starts = 1..Len(d.starts)
      /\ \A r \in DOMAIN d.starts : d.starts[r] \in Nat /\ d.starts[r] < d.length
      /\ \A q, r \in DOMAIN d.starts : q < r => d.starts[q] < d.starts[r]
  BY DEF WellFormed
<1>2. k - 1 < Len(d.starts) /\ (k - 1) + 1 = k
  BY <1>1
<1>3. Upto(d, k - 1).length = d.starts[k]
  BY <1>2 DEF Upto
<1>4. CASE k < Len(d.starts)
  <2>1. k + 1 \in DOMAIN d.starts /\ k \in DOMAIN d.starts /\ k < k + 1
    BY <1>1, <1>4
  <2>2. Upto(d, k).length = d.starts[k + 1]
    BY <1>4 DEF Upto
  <2>3. d.starts[k] < d.starts[k + 1] /\ d.starts[k + 1] \in Nat /\ d.starts[k] \in Nat
    BY <1>1, <2>1
  <2> QED  BY <1>3, <2>2, <2>3
<1>5. CASE ~(k < Len(d.starts))
  <2>1. Upto(d, k).length = d.length
    BY <1>5 DEF Upto
  <2>2. d.starts[k] < d.length /\ d.starts[k] \in Nat
    BY <1>1
  <2> QED  BY <1>1, <1>3, <2>1, <2>2
<1> QED  BY <1>4, <1>5

LEMMA LongerStream ==
    ASSUME NEW offsets \in Seq(Nat), NEW longer \in Seq(Nat), Len(longer) = Len(offsets) + 1,
           \A r \in 1..Len(offsets) : longer[r] = offsets[r]
    PROVE  /\ \A i \in 1..Len(offsets) + 2 : StreamCells(longer)[i] = StreamCells(offsets)[i]
           /\ StreamCells(longer)[Len(offsets) + 3] = Entry(longer[Len(offsets) + 1])
<1> DEFINE n == Len(offsets)
<1>1. /\ n \in Nat
      /\ StreamCells(offsets)[1] = Zeroed /\ StreamCells(offsets)[2] = Counts(0)
      /\ \A r \in 1..n : StreamCells(offsets)[2 + r] = Entry(offsets[r])
  BY StreamCellsIs
<1>2. /\ StreamCells(longer)[1] = Zeroed /\ StreamCells(longer)[2] = Counts(0)
      /\ \A r \in 1..n + 1 : StreamCells(longer)[2 + r] = Entry(longer[r])
  BY StreamCellsIs
<1> HIDE DEF n
<1>3. ASSUME NEW i \in 1..n + 2
      PROVE  StreamCells(longer)[i] = StreamCells(offsets)[i]
  <2>1. i \in {1, 2} \/ (i - 2 \in 1..n /\ i - 2 \in 1..n + 1 /\ i = 2 + (i - 2))
    BY <1>1
  <2>2. CASE i \in {1, 2}
    BY <1>1, <1>2, <2>2
  <2>3. CASE i - 2 \in 1..n /\ i - 2 \in 1..n + 1 /\ i = 2 + (i - 2)
    <3>1. longer[i - 2] = offsets[i - 2]
      BY <2>3 DEF n
    <3> QED  BY <1>1, <1>2, <2>3, <3>1
  <2> QED  BY <2>1, <2>2, <2>3
<1>4. n + 1 \in 1..n + 1 /\ 2 + (n + 1) = n + 3
  BY <1>1
<1>5. StreamCells(longer)[n + 3] = Entry(longer[n + 1])
  BY <1>2, <1>4
<1> QED  BY <1>3, <1>5 DEF n

LEMMA GenerateRecordFiles ==
    ASSUME Filed, WellFormed(source), GenerateRecord
    PROVE  Filed' /\ WellFormed(source')
<1> DEFINE d == task.of
           offsets == task.starts
           k == Len(offsets) + 1
           offset == task.flushed + task.buffered
           appended == task.buffered + Upto(d, k).length - Upto(d, k - 1).length
           flushes == ~(task.headers /\ k = 1) /\ appended >= Buffered
           n == Len(offsets) + 2 - Len(plan)
<1>1. /\ Whole(d) /\ offsets \in Seq(Nat) /\ Len(offsets) \in Nat
      /\ \A r \in DOMAIN offsets : offsets[r] = d.starts[r]
      /\ task.flushed \in Nat /\ task.buffered \in Nat
      /\ offset = Upto(d, Len(offsets)).length
      /\ n \in Nat /\ Streamed(file, offsets, n)
      /\ \A j \in DOMAIN plan : plan[j] = [at |-> n + j, cell |-> StreamCells(offsets)[n + j]]
  BY DEF Filed, Generating, GenerateRecord
<1>2. /\ Len(d.starts) \in Nat /\ k \in 1..Len(d.starts) /\ k - 1 = Len(offsets)
      /\ WellFormed(d) /\ DOMAIN offsets = 1..Len(offsets)
  BY SMTT(30), <1>1, WholeIs DEF GenerateRecord
<1>3. task = [doing |-> "generate", of |-> d, headers |-> task.headers, starts |-> offsets,
              flushed |-> task.flushed, buffered |-> task.buffered]
  BY DEF Filed, Generating, GenerateRecord
<1>4. /\ plan' = plan \o At(2 + k, <<Entry(offset)>>)
      /\ source' = IF flushes THEN Upto(d, k) ELSE source
      /\ task' = [task EXCEPT !.starts = Append(@, offset),
                              !.flushed = IF flushes THEN @ + appended ELSE @,
                              !.buffered = IF flushes THEN 0 ELSE appended]
      /\ UNCHANGED file
  BY DEF GenerateRecord, HeaderCells
<1>5. /\ offset = d.starts[k] /\ offset \in Nat
      /\ Upto(d, k).length \in Nat /\ Upto(d, k).length >= offset
  BY <1>1, <1>2, UptoLengths
<1>6. appended \in Nat /\ task.flushed + appended = Upto(d, k).length
  <2>1. appended = task.buffered + Upto(d, k).length - offset
    BY <1>1, <1>2
  <2>2. task.flushed + task.buffered = offset
    OBVIOUS
  <2>3. task.flushed \in Nat /\ task.buffered \in Nat
    BY <1>1
  <2> DEFINE reached == Upto(d, k).length
             handed == task.flushed
             held == task.buffered
             total == appended
             where == offset
  <2>4. /\ reached \in Nat /\ where \in Nat /\ reached >= where
        /\ handed \in Nat /\ held \in Nat /\ handed + held = where
        /\ total = held + reached - where
    BY <1>5, <2>1, <2>2, <2>3
  <2> HIDE DEF reached, handed, held, total, where
  <2>5. total \in Nat /\ handed + total = reached
    BY ONLY <2>4
  <2> QED  BY ONLY <2>5 DEF reached, handed, total
<1> DEFINE longer == Append(offsets, offset)
<1>7. /\ longer \in Seq(Nat) /\ Len(longer) = k /\ longer[k] = offset /\ DOMAIN longer = 1..k
      /\ \A r \in 1..Len(offsets) : longer[r] = offsets[r]
  BY <1>1, <1>5
<1> HIDE DEF flushes, longer, appended, offset
<1>8. task' = [doing |-> "generate", of |-> d, headers |-> task.headers, starts |-> longer,
               flushed |-> IF flushes THEN task.flushed + appended ELSE task.flushed,
               buffered |-> IF flushes THEN 0 ELSE appended]
  <2> DEFINE flushed == IF flushes THEN task.flushed + appended ELSE task.flushed
             buffered == IF flushes THEN 0 ELSE appended
             headers == task.headers
             old == task
  <2>1. task' = [old EXCEPT !.starts = longer, !.flushed = flushed, !.buffered = buffered]
    BY <1>4 DEF longer
  <2>2. old = [doing |-> "generate", of |-> d, headers |-> headers, starts |-> offsets,
               flushed |-> task.flushed, buffered |-> task.buffered]
    BY <1>3
  <2> HIDE DEF flushed, buffered, headers, d, offsets, old
  <2>3. task' = [doing |-> "generate", of |-> d, headers |-> headers, starts |-> longer,
                 flushed |-> flushed, buffered |-> buffered]
    BY <2>1, <2>2
  <2> QED  BY <2>3 DEF flushed, buffered, headers
<1>9. /\ task'.doing = "generate" /\ task'.of = d /\ task'.headers = task.headers
      /\ task'.starts = longer
      /\ task'.flushed \in Nat /\ task'.buffered \in Nat
      /\ task'.flushed + task'.buffered = Upto(d, k).length
  <2>1. CASE flushes
    <3>1. task'.flushed = task.flushed + appended /\ task'.buffered = 0
      BY <1>8, <2>1
    <3> HIDE DEF d, k
    <3> QED  BY <1>1, <1>6, <1>8, <3>1
  <2>2. CASE ~flushes
    <3>1. task'.flushed = task.flushed /\ task'.buffered = appended
      BY <1>8, <2>2
    <3> QED  BY <1>1, <1>6, <1>8, <3>1
  <2> QED  BY <2>1, <2>2
<1>10. WellFormed(source')
  <2>1. k \in 0..Len(d.starts)
    BY <1>2
  <2> QED  BY <1>2, <1>4, <2>1, UptoWellFormed
<1>11. \A r \in DOMAIN longer : longer[r] = d.starts[r]
  <2> TAKE r \in DOMAIN longer
  <2>1. r \in 1..Len(offsets) \/ r = k
    BY <1>1, <1>7
  <2>2. r \in 1..Len(offsets) => longer[r] = d.starts[r]
    BY <1>1, <1>2, <1>7
  <2>3. r = k => longer[r] = d.starts[r]
    BY <1>5, <1>7
  <2> QED  BY <2>1, <2>2, <2>3
<1> DEFINE added == At(2 + k, <<Entry(offset)>>)
           length == Len(plan)
<1>12. /\ IsSeq(added) /\ Len(added) = 1
       /\ added[1] = [at |-> 2 + k, cell |-> Entry(offset)]
  <2>1. IsSeq(<<Entry(offset)>>) /\ Len(<<Entry(offset)>>) = 1 /\ <<Entry(offset)>>[1] = Entry(offset)
    <3>1. <<Entry(offset)>> \in Seq({Entry(offset)})
      OBVIOUS
    <3> QED  BY <3>1, OwnSeq
  <2> DEFINE single == <<Entry(offset)>>
  <2> HIDE DEF single
  <2>2. IsSeq(added) /\ Len(added) = 1 /\ added[1] = [at |-> 2 + k + 1 - 1, cell |-> single[1]]
    BY <2>1, AtIs DEF single
  <2>3. 2 + k + 1 - 1 = 2 + k
    BY <1>2
  <2> QED  BY <2>1, <2>2, <2>3 DEF single
<1>13. IsSeq(plan) /\ DOMAIN plan = 1..length /\ length \in Nat
  BY SeqIs DEF Filed
<1> HIDE DEF added
<1>14. Joins(plan', plan, added, length, 1)
  <2>1. Joins(plan \o added, plan, added, length, 1)
    BY <1>12, <1>13, ConcatIs
  <2> QED  BY <1>4, <2>1 DEF added
<1>15. /\ IsSeq(plan') /\ Len(plan') = length + 1 /\ DOMAIN plan' = 1..length + 1
       /\ \A j \in 1..length : plan'[j] = plan[j]
       /\ plan'[length + 1] = added[1]
  BY <1>13, <1>14, SeqIs DEF Joins
<1>16. n = k + 2 - Len(plan') /\ n + (length + 1) = 2 + k /\ n <= Len(offsets) + 2
       /\ \A j \in 1..length : n + j \in 1..Len(offsets) + 2
  <2> DEFINE before == Len(offsets)
  <2>1. /\ n = before + 2 - length /\ k = before + 1 /\ before \in Nat /\ n \in Nat
        /\ length \in Nat /\ Len(plan') = length + 1
    BY <1>1, <1>13, <1>15
  <2> HIDE DEF before, n, k, length
  <2>2. n = k + 2 - (length + 1) /\ n + (length + 1) = 2 + k /\ n <= before + 2
    BY <2>1
  <2>3. \A j \in 1..length : n + j \in 1..before + 2
    BY <2>1
  <2> QED  BY <2>1, <2>2, <2>3 DEF before
<1>17. /\ \A i \in 1..Len(offsets) + 2 : StreamCells(longer)[i] = StreamCells(offsets)[i]
       /\ StreamCells(longer)[2 + k] = Entry(offset)
  <2>1. /\ Len(longer) = Len(offsets) + 1 /\ Len(offsets) + 3 = 2 + k
        /\ longer[Len(offsets) + 1] = offset
    BY <1>1, <1>7
  <2>2. /\ \A i \in 1..Len(offsets) + 2 : StreamCells(longer)[i] = StreamCells(offsets)[i]
        /\ StreamCells(longer)[Len(offsets) + 3] = Entry(longer[Len(offsets) + 1])
    BY <1>1, <1>7, <2>1, LongerStream
  <2> HIDE DEF k
  <2> QED  BY <2>1, <2>2
<1>18. Streamed(file', longer, n)
  <2>1. \A i \in 1..n : i \in 1..Len(offsets) + 2
    BY <1>1, <1>16
  <2> QED  BY <1>1, <1>4, <1>17, <2>1 DEF Streamed
<1> HIDE DEF n, k
<1>19. \A j \in DOMAIN plan' : plan'[j] = [at |-> n + j, cell |-> StreamCells(longer)[n + j]]
  <2> TAKE j \in DOMAIN plan'
  <2>1. j \in 1..length \/ j = length + 1
    BY <1>13, <1>15
  <2>2. CASE j \in 1..length
    BY <1>1, <1>13, <1>15, <1>16, <1>17, <2>2
  <2>3. CASE j = length + 1
    BY <1>12, <1>15, <1>16, <1>17, <2>3
  <2> QED  BY <2>1, <2>2, <2>3
<1>20. Generating'
  <2>1. task' = [doing |-> "generate", of |-> task'.of, headers |-> task'.headers,
                 starts |-> task'.starts, flushed |-> task'.flushed, buffered |-> task'.buffered]
    BY <1>8
  <2>2. n = Len(task'.starts) + 2 - Len(plan') /\ Len(task'.starts) = k /\ k <= Len(d.starts)
    BY SMTT(30), <1>2, <1>7, <1>9, <1>16
  <2>3. /\ task'.starts \in Seq(Nat) /\ Len(task'.starts) <= Len(task'.of.starts)
        /\ \A r \in DOMAIN task'.starts : task'.starts[r] = task'.of.starts[r]
    BY <1>7, <1>9, <1>11, <2>2
  <2>4. task'.flushed + task'.buffered = Upto(task'.of, Len(task'.starts)).length
    BY <1>9, <2>2
  <2>5. n \in Nat /\ Streamed(file', task'.starts, n) /\ Whole(task'.of)
    BY <1>1, <1>9, <1>18
  <2>6. \A j \in DOMAIN plan' : plan'[j] = [at |-> n + j, cell |-> StreamCells(task'.starts)[n + j]]
    BY <1>9, <1>19
  <2> QED  BY <1>9, <2>1, <2>2, <2>3, <2>4, <2>5, <2>6 DEF Generating
<1> QED  BY <1>4, <1>9, <1>10, <1>15, <1>20 DEF Filed, Writing, Saving, Creating, GivingUp

LEMMA GenerateFailsFiles ==
    ASSUME Filed, GenerateFails
    PROVE  Filed'
<1> DEFINE offsets == task.starts
           n == Len(offsets) + 2 - Len(plan)
<1>1. /\ offsets \in Seq(Nat) /\ Len(offsets) \in Nat /\ n \in Nat /\ Streamed(file, offsets, n)
      /\ \A j \in DOMAIN plan : plan[j] = [at |-> n + j, cell |-> StreamCells(offsets)[n + j]]
      /\ UNCHANGED <<file, plan>> /\ task'.doing = "abandon"
  BY DEF Filed, Generating, GenerateFails
<1>2. /\ IsSeq(plan) /\ DOMAIN plan = 1..Len(plan) /\ Len(plan) \in Nat
      /\ Len(file) \in Nat /\ (file = <<>> <=> Len(file) = 0)
  BY SeqIs DEF Filed
<1>3. \A j \in DOMAIN plan : n + j \in 1..Len(offsets) + 2
  <2> DEFINE before == Len(offsets)
             length == Len(plan)
  <2>1. n = before + 2 - length /\ before \in Nat /\ n \in Nat /\ length \in Nat /\ DOMAIN plan = 1..length
    BY <1>1, <1>2
  <2> HIDE DEF before, n, length
  <2>2. \A j \in 1..length : n + j \in 1..before + 2
    BY <2>1
  <2> QED  BY <2>1, <2>2 DEF before
<1> HIDE DEF n, offsets
<1>4. ASSUME NEW j \in DOMAIN plan
      PROVE  /\ plan[j].at \in Nat \ {0}
             /\ plan[j].cell = Zeroed \/ plan[j].cell.cell \in {"count", "entry"}
             /\ plan[j].at = 1 => plan[j].cell = Zeroed
  <2>1. plan[j].at = n + j /\ plan[j].cell = StreamCells(offsets)[n + j]
    BY <1>1
  <2>2. n + j \in Nat \ {0}
    BY <1>1, <1>2
  <2>3. \/ StreamCells(offsets)[n + j] = Zeroed
        \/ n + j # 1 /\ StreamCells(offsets)[n + j].cell \in {"count", "entry"}
    BY <1>1, <1>3, StreamPlanIs
  <2> QED  BY <2>1, <2>2, <2>3
<1>5. ASSUME plan # <<>>
      PROVE  (file # <<>> /\ file[1] = Zeroed) \/ plan[1] = [at |-> 1, cell |-> Zeroed]
  <2>1. 1 \in DOMAIN plan
    BY <1>2, <1>5, SeqIs
  <2>2. StreamCells(offsets)[1] = Zeroed
    BY <1>1, StreamPlanIs
  <2>3. CASE n = 0
    BY <1>1, <2>1, <2>2, <2>3
  <2>4. CASE n # 0
    <3>1. 1 \in 1..n /\ n <= Len(file)
      BY <1>1, <2>4 DEF Streamed
    <3>2. file # <<>>
      BY <1>1, <1>2, <2>4, <3>1
    <3> QED  BY <1>1, <2>2, <3>1, <3>2 DEF Streamed
  <2> QED  BY <2>3, <2>4
<1>6. GivingUp'
  BY <1>1, <1>4, <1>5 DEF GivingUp
<1> QED  BY <1>1, <1>6 DEF Filed, Writing, Saving, Creating, Generating

LEMMA GeneratedFiles ==
    ASSUME Filed, Generated
    PROVE  Filed' /\ WellFormed(source')
<1> DEFINE d == task.of
           offsets == task.starts
           m == Len(d.starts) + 2
           n == m - Len(plan)
           length == Len(plan)
           closing == ClosingPlan(d, offsets)
<1>1. /\ Whole(d) /\ offsets \in Seq(Nat) /\ Len(offsets) = Len(d.starts)
      /\ \A r \in DOMAIN offsets : offsets[r] = d.starts[r]
      /\ n \in Nat /\ Streamed(file, offsets, n)
      /\ \A j \in DOMAIN plan : plan[j] = [at |-> n + j, cell |-> StreamCells(offsets)[n + j]]
      /\ source' = d /\ plan' = plan \o closing /\ task' = [doing |-> "create", of |-> d]
      /\ UNCHANGED file
  BY DEF Filed, Generating, Generated
<1>2. /\ WellFormed(d) /\ d.starts \in Seq(Nat) /\ Len(d.starts) \in Nat
      /\ DOMAIN d.starts = 1..Len(d.starts)
  BY <1>1, WholeIs
<1>3. offsets = d.starts
  BY <1>1, <1>2
<1>4. IsSeq(plan) /\ DOMAIN plan = 1..length /\ length \in Nat
  BY SeqIs DEF Filed
<1> HIDE DEF closing, offsets
<1>5. /\ IsSeq(closing) /\ Len(closing) = 4
      /\ Joins(Script(d), StreamPlan(d.starts), closing, m, 4)
      /\ \A i \in 1..m : Script(d)[i] = [at |-> i, cell |-> StreamCells(d.starts)[i]]
  BY <1>2, <1>3, ScriptIs DEF closing
<1>6. Joins(plan', plan, closing, length, 4)
  <2>1. Joins(plan \o closing, plan, closing, length, 4)
    BY <1>4, <1>5, ConcatIs
  <2> QED  BY <1>1, <2>1
<1>7. /\ IsSeq(plan') /\ Len(plan') = length + 4 /\ DOMAIN plan' = 1..length + 4
      /\ \A j \in 1..length : plan'[j] = plan[j]
      /\ \A i \in 1..4 : plan'[length + i] = closing[i]
      /\ \A i \in 1..4 : Script(d)[m + i] = closing[i]
  BY <1>5, <1>6, SeqIs DEF Joins
<1>8. m \in Nat /\ n + length = m /\ n <= m /\ ~(n > m) /\ n = m + 4 - Len(plan')
  <2>1. m \in Nat /\ n = m - length /\ Len(plan') = length + 4 /\ length \in Nat /\ n \in Nat
    BY <1>1, <1>2, <1>4, <1>7
  <2> HIDE DEF m, n, length
  <2> QED  BY <2>1
<1> HIDE DEF m, n, length
<1>9. \A j \in DOMAIN plan' : plan'[j] = Script(d)[n + j]
  <2> TAKE j \in DOMAIN plan'
  <2>1. \/ j \in 1..length /\ n + j \in 1..m
        \/ j - length \in 1..4 /\ j = length + (j - length) /\ n + j = m + (j - length)
    <3>1. j \in 1..length + 4 /\ length \in Nat /\ m \in Nat /\ n \in Nat /\ n + length = m
      BY <1>1, <1>4, <1>7, <1>8
    <3> QED  BY <3>1
  <2>2. CASE j \in 1..length /\ n + j \in 1..m
    <3>1. plan'[j] = plan[j] /\ plan[j] = [at |-> n + j, cell |-> StreamCells(d.starts)[n + j]]
      BY <1>1, <1>3, <1>4, <1>7, <2>2
    <3> HIDE DEF d
    <3>2. Script(d)[n + j] = [at |-> n + j, cell |-> StreamCells(d.starts)[n + j]]
      BY <1>5, <2>2
    <3> QED  BY <3>1, <3>2
  <2>3. CASE j - length \in 1..4 /\ j = length + (j - length) /\ n + j = m + (j - length)
    BY <1>7, <2>3
  <2> QED  BY <2>1, <2>2, <2>3
<1>10. Creating'
  <2>1. task'.of = d /\ m = Len(d.starts) + 2
    BY <1>1 DEF m
  <2>2. Streamed(file', d.starts, n)
    BY <1>1, <1>3
  <2> HIDE DEF d
  <2> QED  BY <1>1, <1>8, <1>9, <2>1, <2>2 DEF Creating
<1>11. task'.doing = "create"
  BY <1>1
<1> QED  BY <1>1, <1>2, <1>7, <1>10, <1>11 DEF Filed, Writing, Saving, Generating, GivingUp

LEMMA WriteFiles ==
    ASSUME Filed, Write
    PROVE  Filed'
<1>1. UNCHANGED task /\ Writing
  BY DEF Write, Filed
<1>2. /\ IsSeq(file) /\ IsSeq(plan) /\ TrueHeader(file) /\ TrueSums(file)
      /\ Saving /\ Generating /\ Creating /\ GivingUp
  BY DEF Filed
<1>3. CASE task.doing = "save"
  BY <1>1, <1>2, <1>3, WriteWhileSaving DEF Filed, Writing, Generating, Creating, GivingUp
<1>4. CASE task.doing = "create"
  BY <1>1, <1>2, <1>4, WriteWhileCreating DEF Filed, Writing, Saving, Generating, GivingUp
<1>5. CASE task.doing = "generate"
  BY <1>1, <1>2, <1>5, WriteWhileGenerating DEF Filed, Writing, Saving, Creating, GivingUp
<1>6. CASE task.doing = "abandon"
  BY <1>1, <1>2, <1>6, WriteWhileGivingUp DEF Filed, Writing, Saving, Generating, Creating
<1> QED  BY <1>1, <1>3, <1>4, <1>5, <1>6 DEF Writing

(* Whoever was told that the index is complete can load it.                *)
LEMMA FinishAnnounces ==
    ASSUME Filed, Finish
    PROVE  CompletedLoads'
<1> DEFINE d == task.of
<1>1. plan = <<>> /\ UNCHANGED file /\ Len(plan) = 0
  BY NothingIs DEF Finish
<1>2. CASE task.doing = "save"
  <2>1. /\ Whole(d) /\ Len(file) + Len(plan) = Len(SaveCells(d))
        /\ \A i \in DOMAIN file : file[i] = SaveCells(d)[i]
    BY <1>2 DEF Filed, Saving
  <2>2. /\ DOMAIN file = 1..Len(file) /\ Len(file) \in Nat
    BY SeqIs DEF Filed
  <2> DEFINE n == Len(d.starts)
             cells == SaveCells(d)
  <2>3. /\ IsSeq(cells) /\ Len(cells) = n + 4 /\ n \in Nat /\ DOMAIN d.starts = 1..n
        /\ cells[1] = Identifies(d) /\ cells[2] = Counts(n)
        /\ \A r \in 1..n : cells[2 + r] = Entry(d.starts[r])
        /\ cells[n + 3] = EntriesSum(d.starts)
        /\ cells[n + 4] = HeaderSum(Identifies(d), Counts(n))
    BY <2>1, WholeIs, SaveCellsIs
  <2>4. Len(file) = n + 4 /\ \A i \in 1..n + 4 : file[i] = cells[i]
    <3>1. Len(file) + 0 = n + 4
      BY <1>1, <2>1, <2>3
    <3> DEFINE length == Len(file)
    <3> HIDE DEF n, cells
    <3>2. length \in Nat /\ n \in Nat /\ length + 0 = n + 4
      BY <2>2, <2>3, <3>1
    <3> HIDE DEF length
    <3>4. length = n + 4
      BY <3>2
    <3>3. \A i \in DOMAIN file : file[i] = cells[i]
      BY <2>1 DEF cells
    <3> QED  BY <2>2, <3>3, <3>4 DEF length
  <2> HIDE DEF n, cells
  <2>5. /\ 1 \in 1..n + 4 /\ 2 \in 1..n + 4 /\ n + 3 \in 1..n + 4 /\ n + 4 \in 1..n + 4
        /\ Len(file) - 1 = n + 3 /\ \A r \in 1..n : 2 + r \in 1..n + 4
    BY <2>3, <2>4
  <2>6. Complete(file, d)
    BY <2>3, <2>4, <2>5 DEF Complete, n
  <2>7. Loads(file) /\ Stored(file) = d
    BY <2>1, <2>6, CompleteLoads
  <2>8. completed' = Of(d)
    BY <1>2 DEF Finish
  <2> QED  BY <1>1, <2>7, <2>8 DEF CompletedLoads, Of
<1>3. CASE task.doing = "create" /\ Opens(file)
  <2> DEFINE m == Len(d.starts) + 2
  <2>1. Whole(d) /\ (m + 4 > m => Closed(file, d, m + 4)) /\ m + 4 - Len(plan) = m + 4
    <3>1. /\ Whole(d) /\ m + 4 - Len(plan) > m => Closed(file, d, m + 4 - Len(plan))
      BY <1>3 DEF Filed, Creating
    <3>2. m + 4 - Len(plan) = m + 4
      BY <1>1, <3>1, WholeIs
    <3> QED  BY <1>3, <3>1, <3>2 DEF Filed, Creating
  <2>2. m \in Nat /\ Len(d.starts) \in Nat
    BY <2>1, WholeIs
  <2>3. Closed(file, d, m + 4)
    BY <2>1, <2>2
  <2>4. /\ file[1] = Identifies(d) /\ file[2] = Counts(Len(d.starts))
        /\ \A r \in DOMAIN d.starts : file[2 + r] = Entry(d.starts[r])
        /\ file[Len(file) - 1] = EntriesSum(d.starts)
        /\ file[Len(file)] = HeaderSum(Identifies(d), Counts(Len(d.starts)))
    BY <2>2, <2>3 DEF Closed
  <2>5. Len(file) = Len(d.starts) + 4
    <3>1. Count(file) = Len(d.starts)
      BY <2>4 DEF Count, Counts
    <3> QED  BY <1>3, <2>2, <3>1 DEF Opens, HeaderCells, TrailerCells
  <2>6. Complete(file, d)
    BY <2>4, <2>5 DEF Complete
  <2>7. Loads(file) /\ Stored(file) = d
    BY <2>1, <2>6, CompleteLoads
  <2>8. completed' = Of(d)
    BY <1>3 DEF Finish
  <2> QED  BY <1>1, <2>7, <2>8 DEF CompletedLoads, Of
<1>4. CASE ~(task.doing = "save" \/ (task.doing = "create" /\ Opens(file)))
  BY <1>4 DEF Finish, CompletedLoads
<1> QED  BY <1>2, <1>3, <1>4

-----------------------------------------------------------------------------
(* The steps that leave the index file as it is.                           *)
LEMMA SameFile ==
    ASSUME Filed, Announced, UNCHANGED <<file, plan, task, completed>>
    PROVE  Filed' /\ Announced'
<1>1. Saving' /\ Generating' /\ Creating' /\ GivingUp'
  BY DEF Filed, Saving, Generating, Creating, GivingUp
<1> QED  BY <1>1 DEF Filed, Announced, Writing, CompletedLoads

LEMMA Idles ==
    ASSUME Filed, Announced, UNCHANGED <<file, completed>>,
           plan' = <<>>, task'.doing \in {"nothing", "build"}
    PROVE  Filed' /\ Announced'
<1>1. ~Writing'
  BY DEF Writing
<1> QED  BY <1>1, NotWriting DEF Announced, CompletedLoads

LEMMA NothingAnnounced ==
    ASSUME completed' = NoSource
    PROVE  Announced'
  BY DEF Announced, CompletedLoads

LEMMA InitInvariant ==
    ASSUME Init
    PROVE  IInv
<1>1. /\ outcome.state = "none" /\ task.doing = "nothing" /\ source \in Sources
      /\ file = <<>> /\ plan = <<>> /\ completed = NoSource /\ memory = NoIndex
  BY DEF Init, InitBuild, Nothing, Idle
<1>2. WellFormed(source) /\ Sound
  BY <1>1, SourcesAssumption DEF Sound, BuildIsSerial
<1>3. Filed
  BY <1>1, NothingIs DEF Filed, Writing, Saving, Generating, Creating, GivingUp
<1>4. Announced /\ Remembered
  BY <1>1 DEF Announced, Remembered, CompletedLoads
<1> QED  BY <1>2, <1>3, <1>4 DEF IInv

LEMMA StepInvariant ==
    ASSUME IInv, [Next]_vars
    PROVE  IInv'
<1>1. WellFormed(source) /\ Sound /\ Filed /\ Announced /\ Remembered
  BY DEF IInv
<1>2. ~Writing => plan = <<>>
  BY <1>1 DEF Filed
<1>3. UNCHANGED memory => Remembered'
  BY <1>1 DEF Remembered
<1>4. ASSUME UNCHANGED <<build, memory>>, completed' = NoSource
      PROVE  Sound' /\ Announced' /\ Remembered'
  BY <1>1, <1>3, <1>4, UnchangedKeeps, NothingAnnounced
<1>5. ASSUME NEW d \in Sources, Replace(d)
      PROVE  IInv'
  <2>1. WellFormed(source') /\ UNCHANGED <<build, file, plan, task, completed, memory>>
    BY <1>5, SourcesAssumption DEF Replace
  <2> QED  BY <1>1, <1>3, <2>1, UnchangedKeeps, SameFile DEF IInv
<1>6. CASE Build
  <2>1. /\ UNCHANGED <<source, file, completed>> /\ memory' = NoIndex /\ plan' = plan
        /\ task'.doing = "build" /\ task.doing = "nothing" /\ Spawn(source)
    BY <1>6 DEF Build
  <2>2. plan' = <<>>
    BY <1>2, <2>1 DEF Writing
  <2>3. Sound'
    BY <1>1, <2>1, SpawnKeeps
  <2>4. Filed' /\ Announced'
    BY <1>1, <2>1, <2>2, Idles
  <2> QED  BY <1>1, <2>1, <2>3, <2>4 DEF IInv, Remembered
<1>7. ASSUME NEW w \in Workers, BuildStep(w)
      PROVE  IInv'
  <2>1. Work(w) /\ UNCHANGED <<source, file, plan, task, completed, memory>>
    BY <1>7 DEF BuildStep, store
  <2> QED  BY <1>1, <1>3, <2>1, BuildStepKeeps, SameFile DEF IInv
<1>8. CASE Join
  <2>1. (Gather \/ Merge) /\ UNCHANGED <<source, file, plan, task, completed, memory>>
    BY <1>8 DEF Join, store
  <2> QED  BY <1>1, <1>3, <2>1, JoinKeeps, SameFile DEF IInv
<1>9. CASE Built
  <2>1. /\ UNCHANGED <<source, file, plan, completed>> /\ task' = Idle /\ task.doing = "build"
        /\ Dismiss
        /\ memory' = IF outcome.state = "ok" THEN Index(doc, outcome.starts) ELSE NoIndex
    BY <1>9 DEF Built
  <2>2. plan' = <<>> /\ task'.doing = "nothing"
    BY <1>2, <2>1 DEF Writing, Idle
  <2>3. Filed' /\ Announced'
    BY <1>1, <2>1, <2>2, Idles
  <2>4. Remembered'
    <3>1. CASE outcome.state = "ok"
      <4>1. memory'.of = doc /\ memory'.starts = outcome.starts
        BY <2>1, <3>1 DEF Index
      <4> QED  BY <1>1, <3>1, <4>1, BuiltIsWhole DEF Remembered
    <3>2. CASE outcome.state # "ok"
      BY <2>1, <3>2 DEF Remembered
    <3> QED  BY <3>1, <3>2
  <2> QED  BY <1>1, <2>1, <2>3, <2>4, DismissKeeps DEF IInv
<1>10. CASE Save
  <2>1. UNCHANGED <<build, source, memory>> /\ completed' = NoSource
    BY <1>10 DEF Save
  <2> QED  BY <1>1, <1>4, <1>10, <2>1, SaveFiles DEF IInv
<1>11. CASE Create
  <2>1. UNCHANGED <<build, source, memory>> /\ completed' = NoSource
    BY <1>11 DEF Create, Restarts
  <2> QED  BY <1>1, <1>4, <1>11, <2>1, CreateFiles DEF IInv
<1>12. ASSUME NEW d \in Sources, NEW headers \in BOOLEAN, Generate(d, headers)
       PROVE  IInv'
  <2>1. UNCHANGED <<build, memory>> /\ completed' = NoSource
    BY <1>12 DEF Generate, Restarts
  <2>2. Filed' /\ WellFormed(source')
    BY <1>1, <1>12, SourcesAssumption, GenerateFiles
  <2> QED  BY <1>4, <2>1, <2>2 DEF IInv
<1>13. ASSUME Writing
       PROVE  completed = NoSource
  BY <1>1, <1>13 DEF Announced
<1>14. CASE GenerateRecord
  <2>1. UNCHANGED <<build, memory>> /\ completed' = NoSource
    BY <1>13, <1>14 DEF GenerateRecord, Writing
  <2> QED  BY <1>1, <1>4, <1>14, <2>1, GenerateRecordFiles DEF IInv
<1>15. CASE GenerateFails
  <2>1. UNCHANGED <<build, source, memory>> /\ completed' = NoSource
    BY <1>13, <1>15 DEF GenerateFails, Writing
  <2> QED  BY <1>1, <1>4, <1>15, <2>1, GenerateFailsFiles DEF IInv
<1>16. CASE Generated
  <2>1. UNCHANGED <<build, memory>> /\ completed' = NoSource
    BY <1>13, <1>16 DEF Generated, Writing
  <2> QED  BY <1>1, <1>4, <1>16, <2>1, GeneratedFiles DEF IInv
<1>17. CASE Write
  <2>1. UNCHANGED <<build, source, memory>> /\ completed' = NoSource
    BY <1>2, <1>13, <1>17 DEF Write
  <2> QED  BY <1>1, <1>4, <1>17, <2>1, WriteFiles DEF IInv
<1>18. CASE Finish
  <2>1. /\ UNCHANGED <<build, source, file, memory>> /\ plan' = <<>> /\ task'.doing = "nothing"
    BY <1>18 DEF Finish, Idle
  <2>2. Filed' /\ ~Writing'
    BY <1>1, <2>1, NotWriting DEF Writing
  <2>3. CompletedLoads'
    BY <1>1, <1>18, FinishAnnounces
  <2> QED  BY <1>1, <1>3, <2>1, <2>2, <2>3, UnchangedKeeps DEF IInv, Announced
<1>19. CASE Fail
  <2>1. /\ UNCHANGED <<build, source, file, completed, memory>>
        /\ plan' = <<>> /\ task'.doing = "nothing"
    BY <1>19 DEF Fail, Idle
  <2> QED  BY <1>1, <1>3, <2>1, UnchangedKeeps, Idles DEF IInv
<1>20. CASE Crash
  <2>1. /\ UNCHANGED <<source, file, completed>> /\ Dismiss /\ memory' = NoIndex
        /\ plan' = <<>> /\ task'.doing = "nothing"
    BY <1>20 DEF Crash, Idle
  <2> QED  BY <1>1, <2>1, DismissKeeps, Idles DEF IInv, Remembered
<1>21. CASE Load
  <2>1. /\ UNCHANGED <<build, source, file, plan, task, completed>>
        /\ memory' = IF Loads(file) THEN Index(Stored(file), StoredStarts(file)) ELSE NoIndex
    BY <1>21 DEF Load
  <2>2. Remembered'
    <3>1. CASE Loads(file)
      <4>1. Opens(file) /\ Verifies(file) /\ IsSeq(file) /\ TrueHeader(file) /\ TrueSums(file)
        BY <1>1, <3>1 DEF Loads, Filed
      <4>2. memory'.of = Stored(file) /\ memory'.starts = StoredStarts(file)
        BY <2>1, <3>1 DEF Index
      <4> QED  BY <4>1, <4>2, VerifiedIsTrue DEF Remembered
    <3>2. CASE ~Loads(file)
      BY <2>1, <3>2 DEF Remembered
    <3> QED  BY <3>1, <3>2
  <2> QED  BY <1>1, <2>1, <2>2, UnchangedKeeps, SameFile DEF IInv
<1>22. CASE UNCHANGED vars
  <2>1. UNCHANGED <<build, source, file, plan, task, completed, memory>>
    BY <1>22 DEF vars, store
  <2> QED  BY <1>1, <1>3, <2>1, UnchangedKeeps, SameFile DEF IInv
<1> QED
  BY <1>5, <1>6, <1>7, <1>8, <1>9, <1>10, <1>11, <1>12, <1>14, <1>15, <1>16, <1>17, <1>18,
     <1>19, <1>20, <1>21, <1>22 DEF Next

LEMMA Invariant == Spec => []IInv
  BY InitInvariant, StepInvariant, PTL DEF Spec

(* "Returns the first CSV syntax or resource-limit error" (csv_index.rs,   *)
(* build), and else the position of every record in order: whatever chunks *)
(* were claimed, failed or passed over by how many workers, as one parser  *)
(* over the whole document.                                                *)
THEOREM BuildsAreSerial == Spec => []BuildIsSerial
<1>1. IInv => BuildIsSerial
  BY DEF IInv, Sound
<1> QED  BY <1>1, Invariant, PTL

(* "The index is bound to the exact bytes it was built from" (csv_index.rs,*)
(* CsvIndex), however its file came to be what it is.                      *)
THEOREM IndexIsOfItsSource == Spec => []IndexDescribesItsSource
<1>1. ASSUME IInv
      PROVE  IndexDescribesItsSource
  <2>1. memory # NoIndex => memory.of.failing = {} /\ memory.starts = memory.of.starts
    BY <1>1 DEF IInv, Remembered, Whole
  <2>2. ASSUME Opens(file), Verifies(file)
        PROVE  Stored(file).failing = {} /\ StoredStarts(file) = Stored(file).starts
    BY <1>1, <2>2, VerifiedIsTrue DEF IInv, Filed, Whole
  <2> QED  BY <2>1, <2>2 DEF IndexDescribesItsSource, Loads
<1> QED  BY <1>1, Invariant, PTL

(* parser_at and bind, and a reader that has verified nothing but the CSV  *)
(* file's identity: a seek goes to the record asked for.                   *)
THEOREM SeeksAreRight == Spec => []SeeksFindTheirRecords
<1>1. ASSUME IInv
      PROVE  SeeksFindTheirRecords
  <2>1. memory # NoIndex /\ ValidatesSource(memory.of, source) => memory.starts = source.starts
    BY <1>1 DEF IInv, Remembered, ValidatesSource
  <2>2. ASSUME Opens(file), ValidatesSource(Stored(file), source),
               NEW r \in 1..Count(file), Plausible(file, r)
        PROVE  r \in DOMAIN source.starts /\ file[HeaderCells + r].entry = source.starts[r]
    BY <1>1, <2>2, PlausibleIsTrue DEF IInv, Filed, ValidatesSource
  <2> QED  BY <2>1, <2>2 DEF SeeksFindTheirRecords
<1> QED  BY <1>1, Invariant, PTL

(* An index that save, create or generate returned Ok for loads, as that   *)
(* of the document it was made from, for as long as nobody touches it.     *)
THEOREM CompletedIndexLoads == Spec => []CompletedLoads
<1>1. IInv => CompletedLoads
  BY DEF IInv, Announced
<1> QED  BY <1>1, Invariant, PTL
=============================================================================
