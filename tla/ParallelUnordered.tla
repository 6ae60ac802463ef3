------------------------- MODULE ParallelUnordered -------------------------
(***************************************************************************)
(* ParallelParser::fold and ::for_each_record (parallel/unordered.rs): the *)
(* workers claim chunks from a shared cursor, run the caller's closure on  *)
(* each record in place, and share one atomic, the barrier, that names the *)
(* earliest failure.  The calling thread joins the workers in the order it *)
(* spawned them and keeps the failure with the lowest offset.              *)
(*                                                                         *)
(* A worker's accumulator is abstracted to how often each record has been  *)
(* folded, summed over the workers (`folded`).                             *)
(***************************************************************************)
EXTENDS ParallelDocument

CONSTANTS
    Threads,        \* how many threads the caller asked for
    BuildMayFail    \* whether a worker's own SliceParser::build may fail

ASSUME ThreadsAssumption == Threads \in Nat \ {0}
ASSUME BuildMayFailAssumption == BuildMayFail \in BOOLEAN

VARIABLES
    doc,            \* the document, fixed by the caller
    cursor,         \* AtomicUsize: the next chunk to be claimed
    barrier,        \* AtomicUsize: the lowest failure offset published
    published,      \* every value the barrier has held
    pc,             \* where each worker is
    seen,           \* the barrier value each worker saw last
    chunk,          \* the chunk each worker is in
    next,           \* the record each worker is at
    failure,        \* the failure each worker returns, or none
    folded,         \* how often each record has been folded
    joined,         \* how many workers the caller has joined
    earliest,       \* the earliest failure among those joined
    returned        \* whether drive has returned

shared == <<cursor, barrier, published, folded>>
caller == <<joined, earliest, returned>>
vars == <<doc, cursor, barrier, published, pc, seen, chunk, next, failure,
          folded, joined, earliest, returned>>

Workers == 1..Threads
Spawned == 1..ActiveWorkers(doc, Threads)

(* usize::MAX stands above every offset of the document, its end included. *)
NO_FAILURE == doc.size + 2

None == [at |-> 0, rec |-> 0, failed |-> FALSE]
FailureAt(offset, r) == [at |-> offset, rec |-> r, failed |-> TRUE]

Init ==
    /\ doc \in Documents
    /\ cursor = 1
    /\ barrier = NO_FAILURE
    /\ published = {NO_FAILURE}
    /\ pc = [w \in Workers |-> "build"]
    /\ seen = [w \in Workers |-> NO_FAILURE]
    /\ chunk = [w \in Workers |-> 0]
    /\ next = [w \in Workers |-> 0]
    /\ failure = [w \in Workers |-> None]
    /\ folded = [r \in Records(doc) |-> 0]
    /\ joined = 0
    /\ earliest = None
    /\ returned = FALSE

-----------------------------------------------------------------------------
(* worker: build the parser.  A failure is returned at offset 0, without   *)
(* lowering the barrier.                                                   *)
Build(w) ==
    /\ pc[w] = "build"
    /\ \/ /\ pc' = [pc EXCEPT ![w] = "claim"]
          /\ UNCHANGED failure
       \/ /\ BuildMayFail
          /\ pc' = [pc EXCEPT ![w] = "exit"]
          /\ failure' = [failure EXCEPT ![w] = FailureAt(0, 0)]
    /\ UNCHANGED <<doc, shared, seen, chunk, next, caller>>

(* Mutation of Claim: a load and a store in place of fetch_add, so two     *)
(* workers that are both about to claim may take the same chunk.           *)
ClaimWithoutFetchAdd(w) ==
    /\ pc[w] = "claim"
    /\ cursor' = IF \E v \in Workers \ {w} : pc[v] = "claim" THEN cursor ELSE cursor + 1
    /\ IF cursor \in Chunks(doc)
         THEN /\ chunk' = [chunk EXCEPT ![w] = cursor]
              /\ next' = [next EXCEPT ![w] = doc.first[cursor]]
              /\ pc' = [pc EXCEPT ![w] = "read"]
         ELSE /\ pc' = [pc EXCEPT ![w] = "exit"]
              /\ UNCHANGED <<chunk, next>>
    /\ UNCHANGED <<doc, barrier, published, seen, failure, folded, caller>>

(* worker: claim the next chunk and seek to it, or return when none is     *)
(* left.  fetch_add advances the cursor either way.                        *)
Claim(w) ==
    /\ pc[w] = "claim"
    /\ cursor' = cursor + 1
    /\ IF cursor \in Chunks(doc)
         THEN /\ chunk' = [chunk EXCEPT ![w] = cursor]
              /\ next' = [next EXCEPT ![w] = doc.first[cursor]]
              /\ pc' = [pc EXCEPT ![w] = "read"]
         ELSE /\ pc' = [pc EXCEPT ![w] = "exit"]
              /\ UNCHANGED <<chunk, next>>
    /\ UNCHANGED <<doc, barrier, published, seen, failure, folded, caller>>

(* parse_chunk: next_line at the end of the document ends the loop.  Only  *)
(* the single chunk of a document without records gets here.               *)
ReadNothing(w) ==
    /\ pc[w] = "read"
    /\ next[w] > doc.size
    /\ pc' = [pc EXCEPT ![w] = "claim"]
    /\ UNCHANGED <<doc, shared, seen, chunk, next, failure, caller>>

(* parse_chunk: line.record() yields the record.                           *)
ReadRecord(w) ==
    /\ pc[w] = "read"
    /\ next[w] \in Records(doc)
    /\ doc.fate[next[w]] \notin ParseFailures
    /\ pc' = [pc EXCEPT ![w] = "check"]
    /\ UNCHANGED <<doc, shared, seen, chunk, next, failure, caller>>

(* parse_chunk: line.record() fails, and the chunk with it.                *)
ReadFailure(w) ==
    /\ pc[w] = "read"
    /\ next[w] \in Records(doc)
    /\ doc.fate[next[w]] \in ParseFailures
    /\ failure' = [failure EXCEPT ![w] = FailureAt(FailureOffset(doc, next[w]), next[w])]
    /\ pc' = [pc EXCEPT ![w] = "fence"]
    /\ UNCHANGED <<doc, shared, seen, chunk, next, caller>>

(* Mutations of Check: a fence one record too early, and a worker that     *)
(* waits at the fence instead of abandoning the chunk.                     *)
CheckTooEarly(w) ==
    /\ pc[w] = "check"
    /\ \E value \in published :
          /\ value <= seen[w]
          /\ seen' = [seen EXCEPT ![w] = value]
          /\ pc' = [pc EXCEPT ![w] = IF next[w] + 1 >= value THEN "claim" ELSE "fold"]
    /\ UNCHANGED <<doc, shared, chunk, next, failure, caller>>

CheckAndWait(w) ==
    /\ pc[w] = "check"
    /\ \E value \in published :
          /\ value <= seen[w]
          /\ seen' = [seen EXCEPT ![w] = value]
          /\ pc' = [pc EXCEPT ![w] = IF next[w] >= value THEN "check" ELSE "fold"]
    /\ UNCHANGED <<doc, shared, chunk, next, failure, caller>>

(* is_fenced: a relaxed load, so it may yield any value of the barrier's   *)
(* modification order not older than the one this worker saw last.  A      *)
(* record at or past it abandons the chunk; the worker then claims another.*)
Check(w) ==
    /\ pc[w] = "check"
    /\ \E value \in published :
          /\ value <= seen[w]
          /\ seen' = [seen EXCEPT ![w] = value]
          /\ pc' = [pc EXCEPT ![w] = IF next[w] >= value THEN "claim" ELSE "fold"]
    /\ UNCHANGED <<doc, shared, chunk, next, failure, caller>>

(* parse_chunk: the closure runs.  Its error stops the chunk; otherwise    *)
(* the chunk is over once its end has been reached.                        *)
Fold(w) ==
    /\ pc[w] = "fold"
    /\ folded' = [folded EXCEPT ![next[w]] = @ + 1]
    /\ IF doc.fate[next[w]] = "refused"
         THEN /\ failure' = [failure EXCEPT ![w] = FailureAt(FailureOffset(doc, next[w]), next[w])]
              /\ pc' = [pc EXCEPT ![w] = "fence"]
              /\ UNCHANGED next
         ELSE /\ pc' = [pc EXCEPT ![w] =
                           IF Reached(doc, chunk[w], next[w]) THEN "claim" ELSE "read"]
              /\ next' = [next EXCEPT ![w] = @ + 1]
              /\ UNCHANGED failure
    /\ UNCHANGED <<doc, cursor, barrier, published, seen, chunk, caller>>

(* fence: fetch_min of the failing offset, after which the worker returns. *)
Fence(w) ==
    /\ pc[w] = "fence"
    /\ barrier' = IF failure[w].at < barrier THEN failure[w].at ELSE barrier
    /\ published' = published \cup {barrier'}
    /\ pc' = [pc EXCEPT ![w] = "exit"]
    /\ UNCHANGED <<doc, cursor, seen, chunk, next, failure, folded, caller>>

(* Mutation of FailureIsEarlier: the first failure joined wins.            *)
FirstJoinedWins(candidate, current) == ~current.failed

(* failure_is_earlier: strictly lower, so a tie keeps the one joined first.*)
FailureIsEarlier(candidate, current) ==
    current.failed => candidate.at < current.at

(* drive: join the handles in spawn order, reconciling their failures.     *)
Join(w) ==
    /\ w = joined + 1
    /\ pc[w] = "exit"
    /\ joined' = w
    /\ earliest' = IF failure[w].failed /\ FailureIsEarlier(failure[w], earliest)
                     THEN failure[w] ELSE earliest
    /\ UNCHANGED <<doc, shared, pc, seen, chunk, next, failure, returned>>

(* drive: Err with the earliest failure, or Ok with the accumulators.      *)
Return ==
    /\ ~returned
    /\ \A w \in Spawned : w <= joined
    /\ returned' = TRUE
    /\ UNCHANGED <<doc, shared, pc, seen, chunk, next, failure, joined, earliest>>

Work(w) ==
    \/ Build(w)
    \/ Claim(w)
    \/ ReadNothing(w)
    \/ ReadRecord(w)
    \/ ReadFailure(w)
    \/ Check(w)
    \/ Fold(w)
    \/ Fence(w)

Terminated == returned /\ UNCHANGED vars

Next ==
    \/ \E w \in Spawned : Work(w)
    \/ \E w \in Spawned : Join(w)
    \/ Return
    \/ Terminated

Spec == Init /\ [][Next]_vars

(* Every spawned thread keeps being scheduled while it can run, and so     *)
(* does the calling thread, which is parked in join between its own steps. *)
FairSpec ==
    /\ Spec
    /\ \A w \in Workers : WF_vars(w \in Spawned /\ Work(w))
    /\ WF_vars(\E w \in Spawned : Join(w))
    /\ WF_vars(Return)

-----------------------------------------------------------------------------
Offsets == 0..NO_FAILURE
Failures == [at : Offsets, rec : 0..doc.size, failed : BOOLEAN]

TypeOK ==
    /\ WellFormed(doc)
    /\ cursor \in Nat \ {0}
    /\ barrier \in Offsets
    /\ published \subseteq Offsets
    /\ pc \in [Workers -> {"build", "claim", "read", "check", "fold", "fence", "exit"}]
    /\ seen \in [Workers -> Offsets]
    /\ chunk \in [Workers -> 0..Len(doc.first)]
    /\ next \in [Workers -> 0..(doc.size + 1)]
    /\ failure \in [Workers -> Failures]
    /\ folded \in [Records(doc) -> Nat]
    /\ joined \in 0..Threads
    /\ earliest \in Failures
    /\ returned \in BOOLEAN

(* A worker that could not build its parser reports offset 0.              *)
BuildFailed == \E w \in Workers : failure[w].failed /\ failure[w].rec = 0

(* The chunks are disjoint however they are claimed: no record reaches the *)
(* closure twice (parallel.rs: "a worker is ... seeked to a record         *)
(* boundary and stopped at the next one").                                 *)
FoldedAtMostOnce == \A r \in Records(doc) : folded[r] <= 1

(* When the parse returns, every record before the one a serial parse      *)
(* would have stopped at has been folded: abandoning chunks never loses    *)
(* one.  Without a failure that is the whole document.                     *)
PrefixFolded ==
    returned /\ ~BuildFailed =>
        \A r \in Records(doc) : r < SerialFailure(doc) => folded[r] = 1

(* The failure returned has the offset a serial parse would have reported, *)
(* and there is one exactly when a serial parse would have failed.         *)
ReportedOffset ==
    returned /\ ~BuildFailed =>
        /\ earliest.failed <=> Failing(doc) # {}
        /\ earliest.failed => earliest.at = FailureOffset(doc, SerialFailure(doc))

(* Every worker comes back and the caller gets an answer, however many of  *)
(* them fail and whatever they abandon.                                    *)
EventuallyReturns == <>returned
=============================================================================
