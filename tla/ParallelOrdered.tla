-------------------------- MODULE ParallelOrdered --------------------------
(***************************************************************************)
(* ParallelParser::for_each_batch (parallel.rs): the workers parse chunks  *)
(* dealt to them round-robin and send batches of owned records through one *)
(* bounded queue each; the calling thread drains the queues in chunk order *)
(* and sends the batches it is done with back through a second queue, so   *)
(* that their buffers are filled again.                                    *)
(*                                                                         *)
(* A record is its number in the document.  A record buffer in a pool has  *)
(* no content worth telling apart, so a pool is a number of buffers.       *)
(***************************************************************************)
EXTENDS ParallelDocument, FiniteSets

CONSTANTS
    Threads,        \* how many threads the caller asked for
    QueueDepth,     \* QUEUE_DEPTH: batches a worker may run ahead
    Capacity,       \* batch_records
    BuildMayFail    \* whether a worker's own SliceParser::build may fail

ASSUME ThreadsAssumption == Threads \in Nat \ {0}
ASSUME QueueDepthAssumption == QueueDepth \in Nat \ {0}
ASSUME CapacityAssumption == Capacity \in Nat \ {0}
ASSUME BuildMayFailAssumption == BuildMayFail \in BOOLEAN

(* The consumer's refusals are the consumer's choice here, not a fate.     *)
ASSUME NoRefusedRecords ==
    \A d \in Documents : \A r \in Records(d) : d.fate[r] # "refused"

VARIABLES
    doc,            \* the document, fixed by the caller
    pc,             \* where each worker is
    after,          \* where each worker goes once its batch has been sent
    chunk,          \* the chunk each worker is in
    next,           \* the record each worker is at
    batch,          \* the batch each worker is filling
    pool,           \* how many record buffers each worker has to reuse
    queue,          \* sync_channel(QUEUE_DEPTH): worker to consumer
    returns,        \* sync_channel(QUEUE_DEPTH + 1): batches handed back
    at,             \* the chunk the consumer is draining
    held,           \* the batch the consumer has received, if any
    delivered,      \* every record consume has been handed, in order
    result,         \* "draining", or how drain ended
    error,          \* the record a parse failure is reported for
    returned        \* whether for_each_batch has returned

worker == <<pc, after, chunk, next, batch, pool>>
consumer == <<at, held, delivered, result, error>>
vars == <<doc, pc, after, chunk, next, batch, pool, queue, returns,
          at, held, delivered, result, error, returned>>

Workers == 1..Threads
Active == ActiveWorkers(doc, Threads)
Spawned == 1..Active

(* Mutation of Owner: the rotation runs the other way than the chunks were *)
(* dealt.                                                                  *)
OwnerOfLastFirst(c) == Active - ((c - 1) % Active)

(* drain: the worker chunk c was dealt to.                                 *)
Owner(c) == ((c - 1) % Active) + 1

(* What a worker sends.  The chunk is not in the code's Message; it names  *)
(* which chunk a message belongs to in the invariants, and no action reads *)
(* it.  `rec` is the record a failure is reported for, 0 for a parser that *)
(* could not be built.                                                     *)
Batch(c, recs) == [kind |-> "batch",  chunk |-> c, recs |-> recs, rec |-> 0]
ChunkDone(c)   == [kind |-> "done",   chunk |-> c, recs |-> <<>>, rec |-> 0]
Failed(c, r)   == [kind |-> "failed", chunk |-> c, recs |-> <<>>, rec |-> r]

BuildError == 0

(* The receivers live as long as drain does.                               *)
Open == result = "draining"

Init ==
    /\ doc \in Documents
    /\ pc = [w \in Workers |-> "build"]
    /\ after = [w \in Workers |-> "read"]
    /\ chunk = [w \in Workers |-> w]
    /\ next = [w \in Workers |-> BuildError]
    /\ batch = [w \in Workers |-> <<>>]
    /\ pool = [w \in Workers |-> 0]
    /\ queue = [w \in Workers |-> <<>>]
    /\ returns = [w \in Workers |-> <<>>]
    /\ at = 1
    /\ held = <<>>
    /\ delivered = <<>>
    /\ result = "draining"
    /\ error = BuildError
    /\ returned = FALSE

-----------------------------------------------------------------------------
(* Mutation of Build: a worker whose parser cannot be built just returns,  *)
(* so that its consumer sees a disconnected channel.                       *)
BuildOrDisconnect(w) ==
    /\ pc[w] = "build"
    /\ \/ /\ pc' = [pc EXCEPT ![w] = "read"]
          /\ next' = [next EXCEPT ![w] = doc.first[w]]
       \/ /\ BuildMayFail
          /\ pc' = [pc EXCEPT ![w] = "exit"]
          /\ UNCHANGED next
    /\ UNCHANGED <<doc, after, chunk, batch, pool, queue, returns, consumer, returned>>

(* run_worker: build the parser and enter the first chunk, or report that  *)
(* it could not be built.                                                  *)
Build(w) ==
    /\ pc[w] = "build"
    /\ \/ /\ pc' = [pc EXCEPT ![w] = "read"]
          /\ next' = [next EXCEPT ![w] = doc.first[w]]
       \/ /\ BuildMayFail
          /\ pc' = [pc EXCEPT ![w] = "fail"]
          /\ UNCHANGED next
    /\ UNCHANGED <<doc, after, chunk, batch, pool, queue, returns, consumer, returned>>

(* Mutation of Popped: pooled buffers are never taken out again.           *)
NeverPopped(n) == n

(* pool.pop().unwrap_or_default(): a pooled buffer, or a new one.          *)
Popped(n) == IF n > 0 THEN n - 1 ELSE 0

(* parse_chunk: read the next record into a buffer and add it to the batch;*)
(* a full batch, and the batch the chunk ends in, is sent.                 *)
ReadRecord(w) ==
    /\ pc[w] = "read"
    /\ next[w] \in Records(doc) \ Failing(doc)
    /\ batch' = [batch EXCEPT ![w] = Append(@, next[w])]
    /\ pool' = [pool EXCEPT ![w] = Popped(@)]
    /\ next' = [next EXCEPT ![w] = @ + 1]
    /\ LET last == Reached(doc, chunk[w], next[w])
       IN  /\ pc' = [pc EXCEPT ![w] =
                        IF last \/ Len(batch'[w]) >= Capacity THEN "send" ELSE "read"]
           /\ after' = [after EXCEPT ![w] = IF last THEN "done" ELSE "read"]
    /\ UNCHANGED <<doc, chunk, queue, returns, consumer, returned>>

(* Mutation of ReadFailure: no emit_before_error, so the records already   *)
(* in the batch are lost.                                                  *)
ReadFailureDropsBatch(w) ==
    /\ pc[w] = "read"
    /\ next[w] \in Failing(doc)
    /\ pool' = [pool EXCEPT ![w] = Popped(@)]
    /\ pc' = [pc EXCEPT ![w] = "fail"]
    /\ after' = [after EXCEPT ![w] = "fail"]
    /\ UNCHANGED <<doc, chunk, next, batch, queue, returns, consumer, returned>>

(* parse_chunk: a record that fails, and emit_before_error: the records    *)
(* before it in the batch are sent first.                                  *)
ReadFailure(w) ==
    /\ pc[w] = "read"
    /\ next[w] \in Failing(doc)
    /\ pool' = [pool EXCEPT ![w] = Popped(@)]
    /\ pc' = [pc EXCEPT ![w] = IF batch[w] = <<>> THEN "fail" ELSE "send"]
    /\ after' = [after EXCEPT ![w] = "fail"]
    /\ UNCHANGED <<doc, chunk, next, batch, queue, returns, consumer, returned>>

(* parse_chunk: the document ends.  The record that ends it is the last of *)
(* its chunk, so only a document without records gets here, and there is   *)
(* no partial batch left for the flush after the loop.                     *)
ReadNothing(w) ==
    /\ pc[w] = "read"
    /\ next[w] > doc.size
    /\ pc' = [pc EXCEPT ![w] = IF batch[w] = <<>> THEN "done" ELSE "send"]
    /\ after' = [after EXCEPT ![w] = "done"]
    /\ UNCHANGED <<doc, chunk, next, batch, pool, queue, returns, consumer, returned>>

(* Mutation of SendBatch: the worker waits for room and never learns that  *)
(* the consumer has gone.                                                  *)
SendBatchRegardless(w) ==
    /\ pc[w] = "send"
    /\ Len(queue[w]) < QueueDepth
    /\ queue' = [queue EXCEPT ![w] = Append(@, Batch(chunk[w], batch[w]))]
    /\ pc' = [pc EXCEPT ![w] = "reuse"]
    /\ batch' = [batch EXCEPT ![w] = <<>>]
    /\ UNCHANGED <<doc, after, chunk, next, pool, returns, consumer, returned>>

(* emit: send the batch, waiting for room.  Once the consumer has gone the *)
(* chunk is given up without an error, and the ChunkDone that follows will *)
(* find the same.                                                          *)
SendBatch(w) ==
    /\ pc[w] = "send"
    /\ IF Open
         THEN /\ Len(queue[w]) < QueueDepth
              /\ queue' = [queue EXCEPT ![w] = Append(@, Batch(chunk[w], batch[w]))]
              /\ pc' = [pc EXCEPT ![w] = "reuse"]
         ELSE /\ pc' = [pc EXCEPT ![w] = "done"]
              /\ UNCHANGED queue
    /\ batch' = [batch EXCEPT ![w] = <<>>]
    /\ UNCHANGED <<doc, after, chunk, next, pool, returns, consumer, returned>>

(* Mutation of Reuse: the records the consumer left in a returned batch    *)
(* stay in it.                                                             *)
ReuseKeepsRecords(w) ==
    /\ pc[w] = "reuse"
    /\ IF returns[w] = <<>>
         THEN /\ UNCHANGED <<returns, pool>>
              /\ batch' = [batch EXCEPT ![w] = <<>>]
         ELSE /\ returns' = [returns EXCEPT ![w] = Tail(@)]
              /\ batch' = [batch EXCEPT ![w] = Head(returns[w])]
              /\ UNCHANGED pool
    /\ pc' = [pc EXCEPT ![w] = after[w]]
    /\ UNCHANGED <<doc, after, chunk, next, queue, consumer, returned>>

(* emit and parse_chunk: take a batch the consumer is done with, if there  *)
(* is one, and move the records left in it to the pool, which empties it;  *)
(* emit_before_error drops it instead.                                     *)
Reuse(w) ==
    /\ pc[w] = "reuse"
    /\ IF returns[w] = <<>>
         THEN UNCHANGED <<returns, pool>>
         ELSE /\ returns' = [returns EXCEPT ![w] = Tail(@)]
              /\ pool' = [pool EXCEPT ![w] =
                             IF after[w] = "fail" THEN @ ELSE @ + Len(Head(returns[w]))]
    /\ batch' = [batch EXCEPT ![w] = <<>>]
    /\ pc' = [pc EXCEPT ![w] = after[w]]
    /\ UNCHANGED <<doc, after, chunk, next, queue, consumer, returned>>

(* Mutation of SendDone: the result of the send is ignored.                *)
SendDoneIgnoresClose(w) ==
    /\ pc[w] = "done"
    /\ Open => Len(queue[w]) < QueueDepth
    /\ queue' = IF Open THEN [queue EXCEPT ![w] = Append(@, ChunkDone(chunk[w]))] ELSE queue
    /\ chunk' = [chunk EXCEPT ![w] = @ + Active]
    /\ IF chunk'[w] \in Chunks(doc)
         THEN /\ next' = [next EXCEPT ![w] = doc.first[chunk'[w]]]
              /\ pc' = [pc EXCEPT ![w] = "read"]
         ELSE /\ pc' = [pc EXCEPT ![w] = "exit"]
              /\ UNCHANGED next
    /\ UNCHANGED <<doc, after, batch, pool, returns, consumer, returned>>

(* run_worker: the chunk is done; on to the next one dealt to this worker. *)
SendDone(w) ==
    /\ pc[w] = "done"
    /\ IF Open
         THEN /\ Len(queue[w]) < QueueDepth
              /\ queue' = [queue EXCEPT ![w] = Append(@, ChunkDone(chunk[w]))]
              /\ chunk' = [chunk EXCEPT ![w] = @ + Active]
              /\ IF chunk'[w] \in Chunks(doc)
                   THEN /\ next' = [next EXCEPT ![w] = doc.first[chunk'[w]]]
                        /\ pc' = [pc EXCEPT ![w] = "read"]
                   ELSE /\ pc' = [pc EXCEPT ![w] = "exit"]
                        /\ UNCHANGED next
         ELSE /\ pc' = [pc EXCEPT ![w] = "exit"]
              /\ UNCHANGED <<queue, chunk, next>>
    /\ UNCHANGED <<doc, after, batch, pool, returns, consumer, returned>>

(* run_worker: report the failure; the worker returns whether or not there *)
(* is still someone to tell.                                               *)
SendFailed(w) ==
    /\ pc[w] = "fail"
    /\ IF Open
         THEN /\ Len(queue[w]) < QueueDepth
              /\ queue' = [queue EXCEPT ![w] = Append(@, Failed(chunk[w], next[w]))]
         ELSE UNCHANGED queue
    /\ pc' = [pc EXCEPT ![w] = "exit"]
    /\ UNCHANGED <<doc, after, chunk, next, batch, pool, returns, consumer, returned>>

-----------------------------------------------------------------------------
(* drain returns, dropping the receivers and whatever is queued in them.   *)
Close(outcome) ==
    /\ result' = outcome
    /\ queue' = [w \in Workers |-> <<>>]

(* drain: recv from the worker that owns the chunk.  A worker that is gone *)
(* with nothing left in its queue is taken for the end of the stream.      *)
Receive ==
    /\ Open
    /\ at \in Chunks(doc)
    /\ held = <<>>
    /\ LET w == Owner(at)
           message == Head(queue[w])
       IN  IF queue[w] = <<>>
             THEN /\ pc[w] = "exit"
                  /\ Close("ok")
                  /\ UNCHANGED <<at, held, error>>
             ELSE CASE message.kind = "batch" ->
                         /\ held' = message.recs
                         /\ queue' = [queue EXCEPT ![w] = Tail(@)]
                         /\ UNCHANGED <<at, result, error>>
                    [] message.kind = "done" ->
                         /\ at' = at + 1
                         /\ queue' = [queue EXCEPT ![w] = Tail(@)]
                         /\ UNCHANGED <<held, result, error>>
                    [] message.kind = "failed" ->
                         /\ Close("parse_error")
                         /\ error' = message.rec
                         /\ UNCHANGED <<at, held>>
    /\ UNCHANGED <<doc, worker, returns, delivered, returned>>

(* drain: consume accepts the batch, leaving its records in it or taking   *)
(* them out, and try_send hands it back unless the return queue is full or *)
(* the worker has gone.                                                    *)
Accept ==
    /\ Open
    /\ held # <<>>
    /\ delivered' = delivered \o held
    /\ held' = <<>>
    /\ \E left \in {<<>>, held} :
          returns' = [returns EXCEPT ![Owner(at)] =
                         IF pc[Owner(at)] # "exit" /\ Len(@) < QueueDepth + 1
                           THEN Append(@, left) ELSE @]
    /\ UNCHANGED <<doc, worker, queue, at, result, error, returned>>

(* drain: consume returns an error, which ends the parse.                  *)
Refuse ==
    /\ Open
    /\ held # <<>>
    /\ delivered' = delivered \o held
    /\ held' = <<>>
    /\ Close("refused")
    /\ UNCHANGED <<doc, worker, returns, at, error, returned>>

(* drain: every chunk has been drained.                                    *)
Drained ==
    /\ Open
    /\ at \notin Chunks(doc)
    /\ Close("ok")
    /\ UNCHANGED <<doc, worker, returns, at, held, delivered, error, returned>>

(* for_each_batch: thread::scope joins the workers before it returns.      *)
Return ==
    /\ ~Open
    /\ ~returned
    /\ \A w \in Spawned : pc[w] = "exit"
    /\ returned' = TRUE
    /\ UNCHANGED <<doc, worker, queue, returns, consumer>>

Work(w) ==
    \/ Build(w)
    \/ ReadRecord(w)
    \/ ReadFailure(w)
    \/ ReadNothing(w)
    \/ SendBatch(w)
    \/ Reuse(w)
    \/ SendDone(w)
    \/ SendFailed(w)

Drain ==
    \/ Receive
    \/ Accept
    \/ Refuse
    \/ Drained

Terminated == returned /\ UNCHANGED vars

Next ==
    \/ \E w \in Spawned : Work(w)
    \/ Drain
    \/ Return
    \/ Terminated

Spec == Init /\ [][Next]_vars

(* Every thread that can run keeps being scheduled; the calling thread is  *)
(* the consumer until drain returns and the joiner afterwards.             *)
FairSpec ==
    /\ Spec
    /\ \A w \in Workers : WF_vars(w \in Spawned /\ Work(w))
    /\ WF_vars(Drain)
    /\ WF_vars(Return)

-----------------------------------------------------------------------------
Messages ==
    [kind : {"batch", "done", "failed"}, chunk : Nat, recs : Seq(Nat), rec : Nat]

TypeOK ==
    /\ WellFormed(doc)
    /\ pc \in [Workers -> {"build", "read", "send", "reuse", "done", "fail", "exit"}]
    /\ after \in [Workers -> {"read", "done", "fail"}]
    /\ chunk \in [Workers -> Nat]
    /\ next \in [Workers -> Nat]
    /\ batch \in [Workers -> Seq(Nat)]
    /\ pool \in [Workers -> Nat]
    /\ queue \in [Workers -> Seq(Messages)]
    /\ \A w \in Workers : Len(queue[w]) <= QueueDepth
    /\ returns \in [Workers -> Seq(Seq(Nat))]
    /\ \A w \in Workers : Len(returns[w]) <= QueueDepth + 1
    /\ at \in Nat \ {0}
    /\ held \in Seq(Nat)
    /\ delivered \in Seq(Nat)
    /\ result \in {"draining", "ok", "parse_error", "refused"}
    /\ error \in Nat
    /\ returned \in BOOLEAN

(* "the consumer sees exactly the records a SliceParser would, in the same *)
(* order" (parallel.rs:119): what it has been handed so far is always the  *)
(* beginning of the document, each record once, and nothing at or past the *)
(* first failure, however far ahead the workers are.                       *)
DeliveredIsPrefix ==
    /\ delivered = [i \in 1..Len(delivered) |-> i]
    /\ Len(delivered) < SerialFailure(doc)

(* "the parse error at the lowest byte offset in the document"             *)
(* (parallel.rs:452), after every record before it; Ok only once the whole *)
(* document has been handed over, so that a worker that stopped is never   *)
(* taken for the end of the stream.                                        *)
OutcomeIsSerial ==
    /\ result = "ok" => Len(delivered) = doc.size
    /\ result = "parse_error" =>
          \/ error = SerialFailure(doc) /\ Len(delivered) = error - 1
          \/ error = BuildError /\ BuildMayFail /\ Len(delivered) = doc.first[at] - 1

(* The record buffers of one worker: pooled, being filled, queued, in the  *)
(* consumer's hands, or on their way back.                                 *)
InMessages(q) ==
    Cardinality(UNION { {<<i, j>> : j \in 1..Len(q[i].recs)} : i \in 1..Len(q) })
InBatches(q) ==
    Cardinality(UNION { {<<i, j>> : j \in 1..Len(q[i])} : i \in 1..Len(q) })
Buffers(w) ==
    pool[w] + Len(batch[w]) + InMessages(queue[w]) + InBatches(returns[w])
      + IF at \in Chunks(doc) /\ w = Owner(at) THEN Len(held) ELSE 0

(* "peak memory is bounded by threads times this times a small queue       *)
(* depth" (parallel.rs:398): recycling never lets a worker own more than   *)
(* the queue's depth of batches, the one consumed and the one filled.      *)
BufferBound == \A w \in Workers : Buffers(w) <= (QueueDepth + 2) * Capacity

(* Once the consumer has gone no worker goes on to another chunk: it gives *)
(* up at its next send.                                                    *)
CancelledWorkersStop == [][~Open => chunk' = chunk]_vars

(* The promise of for_each_batch: the same as one thread would keep.       *)
Serial == INSTANCE SerialParse WITH
    Documents <- Documents, Capacity <- Capacity, BuildMayFail <- BuildMayFail,
    doc <- doc, delivered <- delivered, result <- result, error <- error
ImplementsSerialParse == Serial!Spec

(* The call returns, whichever worker fails, wherever the consumer stops   *)
(* and however full the queues are: no worker is left blocked on a send to *)
(* a consumer that is gone, nor the consumer on a worker that is.          *)
EventuallyReturns == <>returned
=============================================================================
