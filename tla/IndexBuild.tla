----------------------------- MODULE IndexBuild -----------------------------
(***************************************************************************)
(* CsvIndex::build (index/csv_index.rs): the position of every record of a *)
(* document, found by several workers that claim chunks from a shared      *)
(* cursor.  Each worker parses its chunks whole, keeps what they yielded   *)
(* and publishes where one failed; chunks at or past a published failure   *)
(* are passed over.  The caller joins the workers and reports the earliest *)
(* failure, or puts the positions of the chunks one after another.         *)
(*                                                                         *)
(* A document is the positions of its records, those that fail to parse    *)
(* among them, and its length.  The line of a record is a function of its  *)
(* position and left out.  Past the first failure the "records" are what a *)
(* worker that starts there takes for records.                             *)
(***************************************************************************)
EXTENDS Naturals, Sequences, FiniteSets, FiniteSetsExt

CONSTANTS
    Sources,        \* the documents there are to index
    Threads         \* how many workers the caller asks for

WellFormed(d) ==
    /\ d.length \in Nat
    /\ d.starts \in Seq(Nat)
    /\ \A r \in DOMAIN d.starts : d.starts[r] < d.length
    /\ \A q, r \in DOMAIN d.starts : q < r => d.starts[q] < d.starts[r]
    /\ d.failing \subseteq DOMAIN d.starts

ASSUME SourcesAssumption == \A d \in Sources : WellFormed(d)
ASSUME ThreadsAssumption == Threads \in Nat \ {0}

VARIABLES
    doc,            \* the bytes handed to build
    cut,            \* the record each chunk starts with
    cursor,         \* AtomicUsize: the next chunk to be claimed
    barrier,        \* AtomicUsize: the lowest failing offset published
    published,      \* every value the barrier has held
    pc,             \* where each worker is
    seen,           \* the barrier value each worker saw last
    chunk,          \* the chunk each worker is in
    parsed,         \* worker_chunks, of all workers: what their chunks yielded
    outcome         \* what build returned, or that it has not

build == <<doc, cut, cursor, barrier, published, pc, seen, chunk, parsed, outcome>>

Workers == 1..Threads

(* The cuts that split::boundaries may return: the start of the document,  *)
(* then later record starts, as many as it likes.                          *)
Cuts(d) ==
    { c \in UNION { [1..n -> {1} \cup DOMAIN d.starts] : n \in 1..Len(d.starts) + 1 } :
        c[1] = 1 /\ \A i, j \in DOMAIN c : i < j => c[i] < c[j] }

(* parallel_worker_count: no more workers than there are chunks.           *)
Spawned == 1..(IF Threads < Len(cut) THEN Threads ELSE Len(cut))

(* The offset chunk c starts at; a document without a record has one chunk.*)
ChunkStart(c) == IF cut[c] \in DOMAIN doc.starts THEN doc.starts[cut[c]] ELSE 0
LastRecord(c) == IF c < Len(cut) THEN cut[c + 1] - 1 ELSE Len(doc.starts)

(* usize::MAX stands above every offset.                                   *)
NO_FAILURE == doc.length + 1

Nothing == [state |-> "none", at |-> 0, starts |-> <<>>]
Running == [Nothing EXCEPT !.state = "running"]
Merging(starts) == [state |-> "merging", at |-> 0, starts |-> starts]
Positions(starts) == [state |-> "ok", at |-> 0, starts |-> starts]
Failure(offset) == [state |-> "err", at |-> offset, starts |-> <<>>]

(* build_positions_serial: one parser over the whole document.             *)
Serial(d) ==
    IF d.failing = {} THEN Positions(d.starts) ELSE Failure(d.starts[Min(d.failing)])

(* No build is under way.                                                  *)
Unbuilt == [length |-> 0, starts |-> <<>>, failing |-> {}]

InitBuild ==
    /\ doc = Unbuilt
    /\ cut = <<1>>
    /\ cursor = 1
    /\ barrier = NO_FAILURE
    /\ published = {NO_FAILURE}
    /\ pc = [w \in Workers |-> "idle"]
    /\ seen = [w \in Workers |-> NO_FAILURE]
    /\ chunk = [w \in Workers |-> 0]
    /\ parsed = {}
    /\ outcome = Nothing

-----------------------------------------------------------------------------
(* build_positions_parallel, up to the spawning of its workers.            *)
Spawn(d) ==
    /\ outcome.state = "none"
    /\ doc' = d
    /\ cut' \in Cuts(d)
    /\ cursor' = 1
    /\ barrier' = NO_FAILURE'
    /\ published' = {NO_FAILURE'}
    /\ pc' = [w \in Workers |-> IF w \in Spawned' THEN "claim" ELSE "idle"]
    /\ seen' = [w \in Workers |-> NO_FAILURE']
    /\ chunk' = [w \in Workers |-> 0]
    /\ parsed' = {}
    /\ outcome' = Running

(* fetch_add, and the chunk there is at that place; a worker that finds    *)
(* none returns what it has.                                               *)
Claim(w) ==
    /\ pc[w] = "claim"
    /\ cursor' = cursor + 1
    /\ IF cursor \in DOMAIN cut
         THEN chunk' = [chunk EXCEPT ![w] = cursor] /\ pc' = [pc EXCEPT ![w] = "check"]
         ELSE pc' = [pc EXCEPT ![w] = "done"] /\ UNCHANGED chunk
    /\ UNCHANGED <<doc, cut, barrier, published, seen, parsed, outcome>>

(* Mutation of Blocked: chunks before the failure are passed over.         *)
BlockedBefore(start, failure) == start < failure

(* chunk_is_blocked.                                                       *)
Blocked(start, failure) == start >= failure

(* A relaxed load: any value of the barrier not older than the one this    *)
(* worker saw last.                                                        *)
Check(w) ==
    /\ pc[w] = "check"
    /\ \E value \in published :
          /\ value <= seen[w]
          /\ seen' = [seen EXCEPT ![w] = value]
          /\ pc' = [pc EXCEPT ![w] =
                       IF Blocked(ChunkStart(chunk[w]), value) THEN "claim" ELSE "parse"]
    /\ UNCHANGED <<doc, cut, cursor, barrier, published, chunk, parsed, outcome>>

(* parse_index_chunk: the positions of the records of the chunk, or its    *)
(* first failure.                                                          *)
ParsedChunk(c) ==
    LET failures == doc.failing \cap (cut[c]..LastRecord(c))
    IN  [chunk |-> c, result |-> IF failures = {}
                                   THEN Positions(SubSeq(doc.starts, cut[c], LastRecord(c)))
                                   ELSE Failure(doc.starts[Min(failures)])]

Parse(w) ==
    /\ pc[w] = "parse"
    /\ parsed' = parsed \cup {ParsedChunk(chunk[w])}
    /\ pc' = [pc EXCEPT ![w] =
                 IF ParsedChunk(chunk[w]).result.state = "err" THEN "fence" ELSE "claim"]
    /\ UNCHANGED <<doc, cut, cursor, barrier, published, seen, chunk, outcome>>

(* Mutation of Fence: the worker that published the failure waits for      *)
(* those behind it instead of going on.                                    *)
FenceAndWait(w) ==
    /\ pc[w] = "fence"
    /\ barrier' = ParsedChunk(chunk[w]).result.at
    /\ published' = published \cup {barrier'}
    /\ UNCHANGED <<doc, cut, cursor, pc, seen, chunk, parsed, outcome>>

(* fence: fetch_min.  The worker then goes on to its next chunk.           *)
Fence(w) ==
    /\ pc[w] = "fence"
    /\ barrier' = Min({barrier, ParsedChunk(chunk[w]).result.at})
    /\ published' = published \cup {barrier'}
    /\ pc' = [pc EXCEPT ![w] = "claim"]
    /\ UNCHANGED <<doc, cut, cursor, seen, chunk, parsed, outcome>>

(* The scope ends: every worker has been joined.  keep_earliest_failure is  *)
(* asked of every failure there is.                                        *)
Gather ==
    /\ outcome.state = "running"
    /\ \A w \in Spawned : pc[w] = "done"
    /\ LET failures == {r \in parsed : r.result.state = "err"}
       IN  outcome' = IF failures = {} THEN Merging(<<>>)
                      ELSE Failure(Min({r.result.at : r \in failures}))
    /\ UNCHANGED <<doc, cut, cursor, barrier, published, pc, seen, chunk, parsed>>

(* Mutation of NextMerged: the chunks stay in the order they were joined.  *)
NextMergedUnsorted(c) == TRUE

(* The chunks are sorted by index.                                         *)
NextMerged(c) == \A r \in parsed : c <= r.chunk

(* The positions of the next chunk are appended.                           *)
Merge ==
    /\ outcome.state = "merging"
    /\ \E r \in parsed :
          /\ NextMerged(r.chunk)
          /\ parsed' = parsed \ {r}
          /\ outcome' = IF parsed' = {} THEN Positions(outcome.starts \o r.result.starts)
                        ELSE Merging(outcome.starts \o r.result.starts)
    /\ UNCHANGED <<doc, cut, cursor, barrier, published, pc, seen, chunk>>

Work(w) == Claim(w) \/ Check(w) \/ Parse(w) \/ Fence(w)

(* The caller has what it asked for, or is gone.                           *)
Dismiss ==
    /\ doc' = Unbuilt
    /\ cut' = <<1>>
    /\ cursor' = 1
    /\ barrier' = NO_FAILURE'
    /\ published' = {NO_FAILURE'}
    /\ pc' = [w \in Workers |-> "idle"]
    /\ seen' = [w \in Workers |-> NO_FAILURE']
    /\ chunk' = [w \in Workers |-> 0]
    /\ parsed' = {}
    /\ outcome' = Nothing

(* "Returns the first CSV syntax or resource-limit error" (csv_index.rs,   *)
(* build), and the index of a document is the same whichever of the two    *)
(* builders its size selects: what the workers make of it is what one      *)
(* parser makes of it.                                                     *)
BuildIsSerial == outcome.state \in {"ok", "err"} => outcome = Serial(doc)
=============================================================================
