---------------------- MODULE ParallelUnorderedProofs ----------------------
(***************************************************************************)
(* However many threads share the cursor and the barrier, and whatever the *)
(* document: the invariants of ParallelUnordered, from one inductive       *)
(* invariant, IInv.                                                        *)
(***************************************************************************)
EXTENDS ParallelUnordered, Arithmetic

(* The record a serial parse stops at, when there is one.                  *)
LEMMA SerialFailureLeast ==
    ASSUME NEW d, d.size \in Nat
    PROVE  /\ Failing(d) = {} => SerialFailure(d) = d.size + 1
           /\ Failing(d) # {} => /\ SerialFailure(d) \in Failing(d)
                                /\ \A r \in Failing(d) : SerialFailure(d) <= r
<1>1. Failing(d) \subseteq Nat
  BY DEF Failing, Records
<1>2. CASE Failing(d) # {}
  <2>1. \E r \in Failing(d) : \A s \in Failing(d) : r <= s
    BY <1>1, <1>2, LeastExists
  <2> QED  BY <1>2, <2>1 DEF SerialFailure
<1> QED  BY <1>2 DEF SerialFailure

(* Chunks follow one another, and only a document without records has an   *)
(* empty one.                                                              *)
LEMMA ChunkBounds ==
    ASSUME NEW d, WellFormed(d)
    PROVE  /\ d.size \in Nat /\ Len(d.first) \in Nat \ {0}
           /\ \A c \in Chunks(d) :
                 /\ d.first[c] \in 1..(d.size + 1)
                 /\ ChunkEnd(d, c) \in 1..(d.size + 1)
                 /\ d.first[c] < ChunkEnd(d, c) \/ (d.size = 0 /\ d.first[c] = 1)
           /\ \A b, c \in Chunks(d) : b < c => ChunkEnd(d, b) <= d.first[c]
<1>1. /\ d.size \in Nat /\ d.first \in Seq(Nat) /\ Len(d.first) >= 1 /\ d.first[1] = 1
      /\ \A c \in 2..Len(d.first) : d.first[c] \in 2..d.size
      /\ \A b, c \in 1..Len(d.first) : b < c => d.first[b] < d.first[c]
  BY DEF WellFormed
<1>2. Len(d.first) \in Nat \ {0}
  BY <1>1
<1>3. ASSUME NEW c \in Chunks(d)
      PROVE  d.first[c] \in 1..(d.size + 1)
  <2>1. c = 1 \/ c \in 2..Len(d.first)
    BY <1>2, <1>3 DEF Chunks
  <2> QED  BY <1>1, <2>1
<1>4. ASSUME NEW c \in Chunks(d)
      PROVE  /\ ChunkEnd(d, c) \in 1..(d.size + 1)
             /\ d.first[c] < ChunkEnd(d, c) \/ (d.size = 0 /\ d.first[c] = 1)
  <2>1. CASE c < Len(d.first)
    <3>1. c + 1 \in Chunks(d) /\ c < c + 1
      BY <1>2, <2>1 DEF Chunks
    <3>2. d.first[c] < d.first[c + 1]
      BY <1>1, <3>1 DEF Chunks
    <3>3. ChunkEnd(d, c) = d.first[c + 1]
      BY <2>1 DEF ChunkEnd
    <3>4. d.first[c + 1] \in 1..(d.size + 1)
      BY <1>3, <3>1
    <3> QED  BY <3>2, <3>3, <3>4
  <2>2. CASE c = Len(d.first)
    <3>1. ChunkEnd(d, c) = d.size + 1
      BY <1>2, <2>2 DEF ChunkEnd
    <3>2. CASE c = 1
      BY <1>1, <3>1, <3>2
    <3>3. CASE c \in 2..Len(d.first)
      <4>1. d.first[c] \in 2..d.size /\ d.size \in Nat
        BY <1>1, <3>3
      <4> QED  BY <3>1, <4>1
    <3>4. c = 1 \/ c \in 2..Len(d.first)
      BY <1>2 DEF Chunks
    <3> QED  BY <3>2, <3>3, <3>4
  <2>3. c < Len(d.first) \/ c = Len(d.first)
    BY <1>2 DEF Chunks
  <2> QED  BY <2>1, <2>2, <2>3
<1>5. ASSUME NEW b \in Chunks(d), NEW c \in Chunks(d), b < c
      PROVE  ChunkEnd(d, b) <= d.first[c]
  <2>1. b + 1 \in Chunks(d) /\ b < Len(d.first) /\ (b + 1 = c \/ b + 1 < c)
    BY <1>2, <1>5 DEF Chunks
  <2>2. ChunkEnd(d, b) = d.first[b + 1]
    BY <2>1 DEF ChunkEnd
  <2>3. d.first[b + 1] \in 1..(d.size + 1) /\ d.first[c] \in 1..(d.size + 1)
    BY <1>3, <2>1
  <2>4. b + 1 < c => d.first[b + 1] < d.first[c]
    BY <1>1, <2>1 DEF Chunks
  <2>5. d.first[b + 1] <= d.first[c]
    BY <1>1, <2>1, <2>3, <2>4
  <2> QED  BY <2>2, <2>5
<1> QED  BY <1>1, <1>2, <1>3, <1>4, <1>5

(* An error is located in its record, or where the record ends.            *)
LEMMA FailureOffsetBounds ==
    ASSUME NEW d, d.size \in Nat, NEW r \in Records(d)
    PROVE  FailureOffset(d, r) \in {r, r + 1} /\ FailureOffset(d, r) \in 1..(d.size + 1)
  BY DEF FailureOffset, Records

-----------------------------------------------------------------------------

(* The records handed out so far are those below the frontier, the start   *)
(* of the chunk that is claimed next.  Chunks are claimed in order, so     *)
(* there is never a gap.                                                   *)
Frontier == IF cursor \in Chunks(doc) THEN doc.first[cursor] ELSE doc.size + 1

(* A worker is inside a chunk, and inside the part of it that is left.     *)
InChunk(w) == pc[w] \in {"read", "check", "fold", "fence"}
Ahead(w, r) ==
    /\ pc[w] \in {"read", "check", "fold"}
    /\ next[w] <= r
    /\ r < ChunkEnd(doc, chunk[w])

Placed ==
    \A w \in Workers : InChunk(w) =>
        /\ chunk[w] \in Chunks(doc)
        /\ chunk[w] < cursor
        /\ doc.first[chunk[w]] <= next[w]
        /\ next[w] >= ChunkEnd(doc, chunk[w]) => pc[w] = "read" /\ next[w] > doc.size
        /\ pc[w] \in {"fold", "check"} => doc.fate[next[w]] \notin ParseFailures

(* No chunk has two owners.                                                *)
Exclusive ==
    \A v, w \in Workers : v # w /\ InChunk(v) /\ InChunk(w) => chunk[v] # chunk[w]

(* What has not been handed out, and what a worker has still ahead of it,  *)
(* has not been folded.                                                    *)
Unfolded ==
    /\ \A r \in Records(doc) : r >= Frontier => folded[r] = 0
    /\ \A w \in Workers, r \in Records(doc) : Ahead(w, r) => folded[r] = 0

(* What a worker returns is the failure of a record handed out to it, or   *)
(* that of its own parser.                                                 *)
Blamed ==
    \A w \in Workers :
        /\ pc[w] = "fence" => failure[w].failed
        /\ failure[w].failed =>
              \/ pc[w] = "exit" /\ failure[w].rec = 0
              \/ /\ pc[w] \in {"fence", "exit"}
                 /\ failure[w].rec \in Failing(doc)
                 /\ failure[w].rec < Frontier
                 /\ failure[w].at = FailureOffset(doc, failure[w].rec)

(* Every value of the barrier was some worker's failure.                   *)
Published ==
    /\ barrier \in published
    /\ \A value \in published :
          value < NO_FAILURE =>
              \E w \in Workers : failure[w].failed /\ failure[w].at = value

(* A record handed out has been dealt with, is ahead of its owner, or lies *)
(* at or past a failure that some worker will return.                      *)
Settled(r) == folded[r] = 1 /\ doc.fate[r] = "ok"
Cover ==
    \A r \in Records(doc) : r < Frontier =>
        \/ Settled(r)
        \/ \E w \in Workers : Ahead(w, r)
        \/ \E w \in Workers : failure[w].failed /\ failure[w].rec <= r

(* A worker only returns without a failure once there is nothing to claim. *)
Exhausted ==
    \A w \in Workers : pc[w] = "exit" /\ ~failure[w].failed => cursor > Len(doc.first)

(* Threads that are not needed are never spawned.                          *)
Unspawned ==
    \A w \in Workers \ Spawned : pc[w] = "build" /\ ~failure[w].failed

(* What the caller knows of the workers it has joined.                     *)
Reconciled ==
    /\ joined <= ActiveWorkers(doc, Threads)
    /\ \A w \in 1..joined : pc[w] = "exit"
    /\ \A w \in 1..joined :
          failure[w].failed => earliest.failed /\ earliest.at <= failure[w].at
    /\ earliest.failed => \E w \in 1..joined : failure[w] = earliest
    /\ returned => joined = ActiveWorkers(doc, Threads)

IInv ==
    /\ TypeOK
    /\ Placed
    /\ Exclusive
    /\ FoldedAtMostOnce
    /\ Unfolded
    /\ Blamed
    /\ Published
    /\ Cover
    /\ Exhausted
    /\ Unspawned
    /\ Reconciled

-----------------------------------------------------------------------------
(* The frontier is where a record may begin, and past every chunk that has *)
(* been claimed.                                                           *)
LEMMA FrontierBounds ==
    ASSUME TypeOK
    PROVE  /\ Frontier \in 1..(doc.size + 1)
           /\ \A c \in Chunks(doc) : c < cursor => ChunkEnd(doc, c) <= Frontier
<1>1. WellFormed(doc) /\ cursor \in Nat
  BY DEF TypeOK
<1>2. /\ doc.size \in Nat
      /\ \A c \in Chunks(doc) :
            /\ doc.first[c] \in 1..(doc.size + 1)
            /\ ChunkEnd(doc, c) \in 1..(doc.size + 1)
      /\ \A b, c \in Chunks(doc) : b < c => ChunkEnd(doc, b) <= doc.first[c]
  BY <1>1, ChunkBounds
<1> QED  BY <1>1, <1>2 DEF Frontier

-----------------------------------------------------------------------------
(* The workers the caller spawned are workers.                             *)
LEMMA SpawnedBounds ==
    ASSUME WellFormed(doc)
    PROVE  /\ ActiveWorkers(doc, Threads) \in 1..Threads
           /\ Spawned \subseteq Workers
<1>1. Len(doc.first) \in Nat \ {0}
  BY ChunkBounds
<1> QED  BY <1>1, ThreadsAssumption DEF ActiveWorkers, Spawned, Workers

(* A record in hand is a record, and a failure a failure of a record.      *)
LEMMA InHand ==
    ASSUME TypeOK, Placed, NEW w \in Workers, InChunk(w)
    PROVE  /\ next[w] \in 1..(doc.size + 1)
           /\ pc[w] # "read" => next[w] \in Records(doc)
           /\ next[w] <= doc.size => next[w] < ChunkEnd(doc, chunk[w])
<1>1. /\ chunk[w] \in Chunks(doc) /\ doc.first[chunk[w]] <= next[w]
      /\ next[w] >= ChunkEnd(doc, chunk[w]) => pc[w] = "read" /\ next[w] > doc.size
  BY DEF Placed
<1>2. next[w] \in 0..(doc.size + 1) /\ WellFormed(doc)
  BY DEF TypeOK
<1>3. /\ doc.size \in Nat /\ doc.first[chunk[w]] \in 1..(doc.size + 1)
      /\ ChunkEnd(doc, chunk[w]) \in 1..(doc.size + 1)
  BY <1>1, <1>2, ChunkBounds
<1> QED  BY <1>1, <1>2, <1>3 DEF Records

(* The first state is of the right types.                                  *)
LEMMA TypeInit == Init => TypeOK
<1> SUFFICES ASSUME Init PROVE TypeOK
  OBVIOUS
<1>1. WellFormed(doc)
  BY DocumentsAssumption DEF Init
<1>2. doc.size \in Nat /\ Len(doc.first) \in Nat
  BY <1>1, ChunkBounds
<1>3. NO_FAILURE \in Offsets
  BY <1>2 DEF NO_FAILURE, Offsets
<1>4. None \in Failures
  BY <1>2, <1>3 DEF None, Failures, Offsets, NO_FAILURE
<1>5. /\ cursor \in Nat \ {0} /\ barrier \in Offsets /\ published \subseteq Offsets
      /\ pc \in [Workers -> {"build", "claim", "read", "check", "fold", "fence", "exit"}]
      /\ seen \in [Workers -> Offsets]
  BY <1>3 DEF Init
<1>6. /\ chunk \in [Workers -> 0..Len(doc.first)] /\ next \in [Workers -> 0..(doc.size + 1)]
      /\ failure \in [Workers -> Failures] /\ earliest \in Failures
  BY <1>2, <1>4 DEF Init
<1>7. folded \in [Records(doc) -> Nat] /\ joined \in 0..Threads
  BY ThreadsAssumption DEF Init
<1>8. returned \in BOOLEAN
  BY DEF Init
<1> QED  BY <1>1, <1>5, <1>6, <1>7, <1>8 DEF TypeOK

(* And so is the state after any step, given where the workers are.        *)
LEMMA TypeStep ==
    ASSUME TypeOK, Placed, [Next]_vars
    PROVE  TypeOK'
<1>1. /\ WellFormed(doc) /\ doc.size \in Nat /\ Len(doc.first) \in Nat
      /\ Spawned \subseteq Workers
  BY ChunkBounds, SpawnedBounds DEF TypeOK
<1>2. CASE UNCHANGED vars
  BY <1>2 DEF TypeOK, vars, Offsets, Failures, NO_FAILURE
<1>3. ASSUME NEW w \in Workers, Build(w)
      PROVE  TypeOK'
  <2>1. FailureAt(0, 0) \in Failures
    BY <1>1 DEF FailureAt, Failures, Offsets, NO_FAILURE
  <2>2. pc' \in [Workers -> {"build", "claim", "read", "check", "fold", "fence", "exit"}]
    BY <1>3 DEF Build, TypeOK
  <2>3. failure' \in [Workers -> Failures]
    BY <1>3, <2>1 DEF Build, TypeOK
  <2> QED  BY <1>3, <2>2, <2>3 DEF Build, TypeOK, Offsets, Failures, NO_FAILURE, shared, caller
<1>4. ASSUME NEW w \in Workers, Claim(w)
      PROVE  TypeOK'
  <2>1. cursor \in Chunks(doc) =>
           cursor \in 0..Len(doc.first) /\ doc.first[cursor] \in 0..(doc.size + 1)
    BY <1>1, ChunkBounds DEF Chunks
  <2>2. pc' \in [Workers -> {"build", "claim", "read", "check", "fold", "fence", "exit"}]
    BY <1>4 DEF Claim, TypeOK
  <2>3. chunk' \in [Workers -> 0..Len(doc.first)] /\ next' \in [Workers -> 0..(doc.size + 1)]
    BY <1>4, <2>1 DEF Claim, TypeOK
  <2>4. cursor' \in Nat \ {0}
    BY <1>4 DEF Claim, TypeOK
  <2> QED  BY <1>4, <2>2, <2>3, <2>4 DEF Claim, TypeOK, Offsets, Failures, NO_FAILURE, caller
<1>5. ASSUME NEW w \in Workers, ReadNothing(w) \/ ReadRecord(w)
      PROVE  TypeOK'
  <2>1. pc' \in [Workers -> {"build", "claim", "read", "check", "fold", "fence", "exit"}]
    BY <1>5 DEF ReadNothing, ReadRecord, TypeOK
  <2>2. UNCHANGED <<doc, shared, seen, chunk, next, failure, caller>>
    BY <1>5 DEF ReadNothing, ReadRecord
  <2> QED  BY <2>1, <2>2 DEF TypeOK, Offsets, Failures, NO_FAILURE, shared, caller
<1>6. ASSUME NEW w \in Workers, ReadFailure(w)
      PROVE  TypeOK'
  <2>1. next[w] \in Records(doc) /\ FailureOffset(doc, next[w]) \in 1..(doc.size + 1)
    BY <1>1, <1>6, FailureOffsetBounds DEF ReadFailure
  <2>2. FailureAt(FailureOffset(doc, next[w]), next[w]) \in Failures
    BY <1>1, <2>1 DEF FailureAt, Failures, Offsets, NO_FAILURE, Records
  <2> QED  BY <1>6, <2>2 DEF ReadFailure, TypeOK, Offsets, Failures, NO_FAILURE, shared, caller
<1>7. ASSUME NEW w \in Workers, Check(w)
      PROVE  TypeOK'
  BY <1>7 DEF Check, TypeOK, Offsets, Failures, NO_FAILURE, shared, caller
<1>8. ASSUME NEW w \in Workers, Fold(w)
      PROVE  TypeOK'
  <2>1. next[w] \in Records(doc)
    BY <1>8, InHand DEF Fold, InChunk
  <2>2. FailureOffset(doc, next[w]) \in 1..(doc.size + 1)
    BY <1>1, <2>1, FailureOffsetBounds
  <2>3. FailureAt(FailureOffset(doc, next[w]), next[w]) \in Failures
    BY <1>1, <2>1, <2>2 DEF FailureAt, Failures, Offsets, NO_FAILURE, Records
  <2>4. next[w] + 1 \in 0..(doc.size + 1) /\ folded[next[w]] + 1 \in Nat
    BY <1>1, <2>1 DEF Records, TypeOK
  <2>5. folded' \in [Records(doc) -> Nat]
    BY <1>8, <2>1, <2>4 DEF Fold, TypeOK
  <2>6. failure' \in [Workers -> Failures] /\ next' \in [Workers -> 0..(doc.size + 1)]
    BY <1>8, <2>3, <2>4 DEF Fold, TypeOK
  <2>7. pc' \in [Workers -> {"build", "claim", "read", "check", "fold", "fence", "exit"}]
    BY <1>8 DEF Fold, TypeOK
  <2> QED  BY <1>8, <2>5, <2>6, <2>7 DEF Fold, TypeOK, Offsets, Failures, NO_FAILURE, caller
<1>9. ASSUME NEW w \in Workers, Fence(w)
      PROVE  TypeOK'
  <2>1. failure[w].at \in Offsets
    BY DEF TypeOK, Failures
  <2> QED  BY <1>9, <2>1 DEF Fence, TypeOK, Offsets, Failures, NO_FAILURE, caller
<1>10. ASSUME NEW w \in Spawned, Join(w)
       PROVE  TypeOK'
  <2>1. joined' \in 0..Threads
    BY <1>1, <1>10 DEF Join, Workers
  <2>2. earliest' \in Failures
    <3>1. failure[w] \in Failures /\ earliest \in Failures
      BY <1>1 DEF TypeOK
    <3> QED  BY <1>10, <3>1 DEF Join
  <2>3. UNCHANGED <<doc, shared, pc, seen, chunk, next, failure, returned>>
    BY <1>10 DEF Join
  <2> QED  BY <2>1, <2>2, <2>3 DEF TypeOK, Offsets, Failures, NO_FAILURE, shared
<1>11. CASE Return
  BY <1>11 DEF Return, TypeOK, Offsets, Failures, NO_FAILURE, shared
<1> QED
  BY <1>1, <1>2, <1>3, <1>4, <1>5, <1>6, <1>7, <1>8, <1>9, <1>10, <1>11
     DEF Next, Work, Terminated

-----------------------------------------------------------------------------
(* The invariant holds before any worker has started.                      *)
LEMMA InvariantInit == Init => IInv
<1> SUFFICES ASSUME Init PROVE IInv
  OBVIOUS
<1>1. TypeOK
  BY TypeInit
<1>2. WellFormed(doc) /\ doc.size \in Nat
  BY <1>1, ChunkBounds DEF TypeOK
<1>3. Frontier = 1
  BY <1>2, ChunkBounds DEF Init, Frontier, Chunks, WellFormed
<1>4. \A w \in Workers : pc[w] = "build" /\ ~failure[w].failed
  BY DEF Init, None
<1>5. Placed /\ Exclusive /\ FoldedAtMostOnce /\ Blamed /\ Exhausted /\ Unspawned
  BY <1>4 DEF Placed, Exclusive, FoldedAtMostOnce, Blamed, Exhausted, Unspawned, InChunk, Init
<1>6. Unfolded /\ Cover
  BY <1>2, <1>3, <1>4 DEF Init, Unfolded, Cover, Ahead, Records
<1>7. Published
  BY <1>2 DEF Init, Published, NO_FAILURE
<1>8. Reconciled
  <2>1. ActiveWorkers(doc, Threads) \in 1..Threads
    BY <1>2, SpawnedBounds
  <2> QED  BY <2>1 DEF Init, Reconciled, None
<1> QED  BY <1>1, <1>5, <1>6, <1>7, <1>8 DEF IInv

(* What the proofs of the steps below start from.                          *)
LEMMA Basics ==
    ASSUME IInv
    PROVE  /\ WellFormed(doc) /\ doc.size \in Nat /\ Len(doc.first) \in Nat
           /\ ActiveWorkers(doc, Threads) \in 1..Threads
           /\ Spawned \subseteq Workers /\ 1..joined \subseteq Workers /\ joined \in Nat
           /\ DOMAIN pc = Workers /\ DOMAIN failure = Workers /\ DOMAIN next = Workers
           /\ DOMAIN chunk = Workers /\ DOMAIN folded = Records(doc)
           /\ Frontier \in 1..(doc.size + 1)
           /\ \A w \in Workers : pc[w] \notin {"fence", "exit"} => ~failure[w].failed
<1>1. TypeOK
  BY DEF IInv
<1>2. WellFormed(doc) /\ doc.size \in Nat /\ Len(doc.first) \in Nat
  BY <1>1, ChunkBounds DEF TypeOK
<1>3. ActiveWorkers(doc, Threads) \in 1..Threads /\ Spawned \subseteq Workers
  BY <1>2, SpawnedBounds
<1>4. joined \in 0..Threads
  BY <1>1 DEF TypeOK
<1>5. 1..joined \subseteq Workers /\ joined \in Nat
  BY <1>4, ThreadsAssumption DEF Workers
<1>6. /\ DOMAIN pc = Workers /\ DOMAIN failure = Workers /\ DOMAIN next = Workers
      /\ DOMAIN chunk = Workers /\ DOMAIN folded = Records(doc)
  BY <1>1 DEF TypeOK
<1>7. \A w \in Workers : pc[w] \notin {"fence", "exit"} => ~failure[w].failed
  BY DEF IInv, Blamed
<1> QED  BY <1>1, <1>2, <1>3, <1>5, <1>6, <1>7, FrontierBounds

(* A worker that has no chunk and takes none leaves the records alone.     *)
LEMMA BuildStep ==
    ASSUME IInv, TypeOK', NEW w \in Spawned, Build(w)
    PROVE  IInv'
<1>1. w \in Workers /\ pc[w] = "build" /\ ~failure[w].failed
  BY Basics DEF Build
<1>2. /\ UNCHANGED <<doc, shared, seen, chunk, next, caller>>
      /\ pc'[w] \in {"claim", "exit"}
      /\ \A v \in Workers \ {w} : pc'[v] = pc[v] /\ failure'[v] = failure[v]
      /\ \/ pc'[w] = "claim" /\ failure' = failure
         \/ pc'[w] = "exit" /\ failure'[w] = FailureAt(0, 0)
  BY <1>1, Basics DEF Build
<1>3. /\ Frontier' = Frontier
      /\ \A v \in Workers : /\ InChunk(v)' <=> InChunk(v)
                            /\ InChunk(v) => pc'[v] = pc[v]
                            /\ \A r \in Records(doc) : Ahead(v, r)' <=> Ahead(v, r)
  BY <1>1, <1>2 DEF Frontier, InChunk, Ahead, shared
<1>4. Placed' /\ Exclusive' /\ FoldedAtMostOnce' /\ Unfolded'
  BY <1>2, <1>3 DEF IInv, Placed, Exclusive, FoldedAtMostOnce, Unfolded, shared
<1>5. Blamed'
  BY <1>1, <1>2, <1>3 DEF IInv, Blamed, FailureAt
<1>6. Published'
  BY <1>1, <1>2 DEF IInv, Published, shared, NO_FAILURE
<1>7. Cover'
  BY <1>1, <1>2, <1>3 DEF IInv, Cover, Settled, shared
<1>8. Exhausted' /\ Unspawned'
  BY <1>1, <1>2 DEF IInv, Exhausted, Unspawned, Spawned, FailureAt, shared
<1>9. Reconciled'
  <2>1. \A v \in 1..joined : v # w /\ v \in Workers
    BY <1>1, Basics DEF IInv, Reconciled
  <2> QED  BY <1>2, <2>1 DEF IInv, Reconciled, caller
<1> QED  BY <1>4, <1>5, <1>6, <1>7, <1>8, <1>9 DEF IInv

(* A worker that reads a record keeps everything it had ahead of it.       *)
LEMMA ReadRecordStep ==
    ASSUME IInv, TypeOK', NEW w \in Spawned, ReadRecord(w)
    PROVE  IInv'
<1>1. w \in Workers /\ pc[w] = "read" /\ ~failure[w].failed
  BY Basics DEF ReadRecord
<1>2. /\ UNCHANGED <<doc, shared, seen, chunk, next, failure, caller>>
      /\ pc'[w] = "check" /\ \A v \in Workers \ {w} : pc'[v] = pc[v]
  BY <1>1, Basics DEF ReadRecord
<1>3. next[w] < ChunkEnd(doc, chunk[w])
  BY <1>1, InHand DEF ReadRecord, InChunk, IInv, Records
<1>4. /\ Frontier' = Frontier
      /\ \A v \in Workers : /\ InChunk(v)' <=> InChunk(v)
                            /\ \A r \in Records(doc) : Ahead(v, r)' <=> Ahead(v, r)
  BY <1>1, <1>2 DEF Frontier, InChunk, Ahead, shared
<1>5. Placed'
  <2> SUFFICES ASSUME NEW v \in Workers, InChunk(v)'
               PROVE  /\ chunk[v] \in Chunks(doc) /\ chunk[v] < cursor
                      /\ doc.first[chunk[v]] <= next[v]
                      /\ next[v] >= ChunkEnd(doc, chunk[v]) =>
                            pc'[v] = "read" /\ next[v] > doc.size
                      /\ pc'[v] \in {"fold", "check"} => doc.fate[next[v]] \notin ParseFailures
    BY <1>2 DEF Placed, shared
  <2>1. InChunk(v)
    BY <1>4
  <2>2. CASE v = w
    <3>1. doc.fate[next[w]] \notin ParseFailures
      BY DEF ReadRecord
    <3>2. next[w] \in Nat /\ ChunkEnd(doc, chunk[w]) \in Nat
      BY <1>1, <2>1, <2>2, Basics, ChunkBounds DEF IInv, TypeOK, Placed
    <3> QED  BY <1>3, <2>1, <2>2, <3>1, <3>2 DEF IInv, Placed
  <2>3. CASE v # w
    BY <1>2, <2>1, <2>3 DEF IInv, Placed
  <2> QED  BY <2>2, <2>3
<1>6. Exclusive' /\ FoldedAtMostOnce' /\ Unfolded'
  BY <1>2, <1>4 DEF IInv, Exclusive, FoldedAtMostOnce, Unfolded, shared
<1>7. Blamed' /\ Published'
  BY <1>1, <1>2, <1>4 DEF IInv, Blamed, Published, NO_FAILURE, shared
<1>8. Cover'
  BY <1>2, <1>4 DEF IInv, Cover, Settled, shared
<1>9. Exhausted' /\ Unspawned'
  BY <1>1, <1>2 DEF IInv, Exhausted, Unspawned, Spawned, shared
<1>10. Reconciled'
  <2>1. \A v \in 1..joined : v # w /\ v \in Workers
    BY <1>1, Basics DEF IInv, Reconciled
  <2> QED  BY <1>2, <2>1 DEF IInv, Reconciled, caller
<1> QED  BY <1>5, <1>6, <1>7, <1>8, <1>9, <1>10 DEF IInv

(* A worker that goes back for another chunk has nothing ahead of it; what *)
(* it had has to be behind it, or past a failure.                          *)
LEMMA LeaveChunk ==
    ASSUME IInv, TypeOK', NEW w \in Spawned, InChunk(w), ~failure[w].failed,
           pc' = [pc EXCEPT ![w] = "claim"],
           UNCHANGED <<doc, shared, chunk, next, failure, caller>>,
           \A r \in Records(doc) : Ahead(w, r) =>
               \E v \in Workers : failure[v].failed /\ failure[v].rec <= r
    PROVE  IInv'
<1>1. w \in Workers /\ pc[w] # "exit"
  BY Basics DEF InChunk
<1>2. pc'[w] = "claim" /\ \A v \in Workers \ {w} : pc'[v] = pc[v]
  BY <1>1, Basics
<1>3. /\ Frontier' = Frontier
      /\ ~InChunk(w)' /\ \A r \in Records(doc) : ~Ahead(w, r)'
      /\ \A v \in Workers \ {w} :
            /\ InChunk(v)' <=> InChunk(v)
            /\ \A r \in Records(doc) : Ahead(v, r)' <=> Ahead(v, r)
  BY <1>1, <1>2 DEF Frontier, InChunk, Ahead, shared
<1>4. Placed' /\ Exclusive' /\ FoldedAtMostOnce' /\ Unfolded'
  BY <1>2, <1>3 DEF IInv, Placed, Exclusive, FoldedAtMostOnce, Unfolded, shared
<1>5. Blamed' /\ Published'
  BY <1>1, <1>2, <1>3 DEF IInv, Blamed, Published, NO_FAILURE, shared
<1>6. Cover'
  BY <1>2, <1>3 DEF IInv, Cover, Settled, shared
<1>7. Exhausted' /\ Unspawned'
  BY <1>1, <1>2 DEF IInv, Exhausted, Unspawned, Spawned, shared
<1>8. Reconciled'
  <2>1. \A v \in 1..joined : v # w /\ v \in Workers
    BY <1>1, Basics DEF IInv, Reconciled
  <2> QED  BY <1>2, <2>1 DEF IInv, Reconciled, caller
<1> QED  BY <1>4, <1>5, <1>6, <1>7, <1>8 DEF IInv

(* At the end of the document there is nothing left to read.               *)
LEMMA ReadNothingStep ==
    ASSUME IInv, TypeOK', NEW w \in Spawned, ReadNothing(w)
    PROVE  IInv'
<1>1. w \in Workers /\ InChunk(w) /\ ~failure[w].failed
  BY Basics DEF ReadNothing, InChunk
<1>2. next[w] \in Nat
  BY <1>1 DEF IInv, TypeOK
<1>3. \A r \in Records(doc) : ~Ahead(w, r)
  BY <1>2, Basics DEF ReadNothing, Ahead, Records
<1> QED  BY <1>1, <1>3, LeaveChunk DEF ReadNothing

(* A fence abandons only records at or past a failure.                     *)
LEMMA CheckStep ==
    ASSUME IInv, TypeOK', NEW w \in Spawned, Check(w)
    PROVE  IInv'
<1>1. w \in Workers /\ pc[w] = "check" /\ InChunk(w) /\ ~failure[w].failed
  BY Basics DEF Check, InChunk
<1>2. PICK value \in published :
        /\ value <= seen[w]
        /\ pc' = [pc EXCEPT ![w] = IF next[w] >= value THEN "claim" ELSE "fold"]
  BY DEF Check
<1>3. UNCHANGED <<doc, shared, chunk, next, failure, caller>>
  BY DEF Check
<1>4. next[w] \in 1..doc.size
  BY <1>1, InHand DEF IInv, Records
<1>5. CASE next[w] >= value
  <2>1. value < NO_FAILURE /\ value \in Nat
    <3>1. value \in 0..(doc.size + 2)
      BY DEF IInv, TypeOK, Offsets, NO_FAILURE
    <3> QED  BY <1>4, <1>5, <3>1, Basics DEF NO_FAILURE
  <2>2. PICK v \in Workers : failure[v].failed /\ failure[v].at = value
    BY <2>1 DEF IInv, Published
  <2>3. failure[v].rec \in Nat /\ failure[v].rec <= value
    <3>1. CASE failure[v].rec = 0
      BY <2>1, <3>1
    <3>2. CASE failure[v].rec \in Failing(doc)
      <4>1. failure[v].rec \in Records(doc) /\ doc.size \in Nat
        BY <3>2, Basics DEF Failing
      <4>2. failure[v].rec # 0 /\ failure[v].rec \in Nat
        BY <4>1 DEF Records
      <4>3. value = FailureOffset(doc, failure[v].rec)
        BY <2>2, <4>2 DEF IInv, Blamed
      <4> QED  BY <4>1, <4>2, <4>3, FailureOffsetBounds
    <3> QED  BY <2>2, <3>1, <3>2 DEF IInv, Blamed
  <2>4. \A r \in Records(doc) : Ahead(w, r) => failure[v].rec <= r
    BY <2>1, <2>3, <1>4, <1>5 DEF Ahead, Records
  <2> QED  BY <1>1, <1>2, <1>3, <1>5, <2>2, <2>4, LeaveChunk
<1>6. CASE ~(next[w] >= value)
  <2>1. pc'[w] = "fold" /\ \A v \in Workers \ {w} : pc'[v] = pc[v]
    BY <1>1, <1>2, <1>6, Basics
  <2>2. /\ Frontier' = Frontier
        /\ \A v \in Workers : /\ InChunk(v)' <=> InChunk(v)
                              /\ \A r \in Records(doc) : Ahead(v, r)' <=> Ahead(v, r)
    BY <1>1, <1>3, <2>1 DEF Frontier, InChunk, Ahead, shared
  <2>3. Placed'
    BY <1>1, <1>3, <1>4, <2>1, <2>2 DEF IInv, Placed, shared
  <2>4. Exclusive' /\ FoldedAtMostOnce' /\ Unfolded'
    BY <1>3, <2>2 DEF IInv, Exclusive, FoldedAtMostOnce, Unfolded, shared
  <2>5. Blamed' /\ Published'
    BY <1>1, <1>3, <2>1, <2>2 DEF IInv, Blamed, Published, NO_FAILURE, shared
  <2>6. Cover'
    BY <1>3, <2>2 DEF IInv, Cover, Settled, shared
  <2>7. Exhausted' /\ Unspawned'
    BY <1>1, <1>3, <2>1 DEF IInv, Exhausted, Unspawned, Spawned, shared
  <2>8. Reconciled'
    <3>1. \A v \in 1..joined : v # w /\ v \in Workers
      BY <1>1, Basics DEF IInv, Reconciled
    <3> QED  BY <1>3, <2>1, <3>1 DEF IInv, Reconciled, caller
  <2> QED  BY <2>3, <2>4, <2>5, <2>6, <2>7, <2>8 DEF IInv
<1> QED  BY <1>5, <1>6

(* A record of a chunk is ahead of nobody but the owner of that chunk.     *)
LEMMA Disjoint ==
    ASSUME IInv, NEW v \in Workers, NEW w \in Workers, v # w, InChunk(w),
           NEW r \in Nat, doc.first[chunk[w]] <= r, r < ChunkEnd(doc, chunk[w])
    PROVE  ~Ahead(v, r)
<1> SUFFICES ASSUME Ahead(v, r) PROVE FALSE
  OBVIOUS
<1>1. InChunk(v) /\ next[v] <= r /\ r < ChunkEnd(doc, chunk[v])
  BY DEF Ahead, InChunk
<1>2. /\ chunk[v] \in Chunks(doc) /\ chunk[w] \in Chunks(doc) /\ chunk[v] # chunk[w]
      /\ doc.first[chunk[v]] <= next[v]
  BY <1>1 DEF IInv, Placed, Exclusive
<1>3. chunk[v] < chunk[w] \/ chunk[w] < chunk[v]
  BY <1>2 DEF Chunks
<1>4. WellFormed(doc) /\ doc.size \in Nat
  BY Basics
<1>5. /\ doc.first[chunk[v]] \in Nat /\ doc.first[chunk[w]] \in Nat
      /\ ChunkEnd(doc, chunk[v]) \in Nat /\ ChunkEnd(doc, chunk[w]) \in Nat
  BY <1>2, <1>4, ChunkBounds
<1>6. \/ ChunkEnd(doc, chunk[v]) <= doc.first[chunk[w]]
      \/ ChunkEnd(doc, chunk[w]) <= doc.first[chunk[v]]
  BY <1>2, <1>3, <1>4, ChunkBounds
<1>7. next[v] \in Nat
  BY DEF IInv, TypeOK
<1> QED  BY <1>1, <1>2, <1>5, <1>6, <1>7

(* The record in a worker's hand: part of its chunk, below the frontier,   *)
(* and folded by nobody yet.                                               *)
LEMMA InHandUnfolded ==
    ASSUME IInv, NEW w \in Workers, InChunk(w), ~failure[w].failed,
           next[w] \in Records(doc)
    PROVE  /\ next[w] \in Nat /\ doc.first[chunk[w]] <= next[w]
           /\ next[w] < ChunkEnd(doc, chunk[w]) /\ next[w] < Frontier
           /\ Ahead(w, next[w]) /\ folded[next[w]] = 0
           /\ \A v \in Workers \ {w} : ~Ahead(v, next[w])
<1>1. TypeOK /\ Placed /\ next[w] \in Nat /\ next[w] <= doc.size
  BY Basics DEF IInv, Records
<1>2. next[w] < ChunkEnd(doc, chunk[w])
  BY <1>1, InHand
<1>3. chunk[w] \in Chunks(doc) /\ chunk[w] < cursor /\ doc.first[chunk[w]] <= next[w]
  BY <1>1 DEF Placed
<1>4. next[w] < Frontier
  BY <1>1, <1>2, <1>3, FrontierBounds, ChunkBounds, Basics
<1>5. Ahead(w, next[w])
  BY <1>1, <1>2, Basics DEF InChunk, Ahead, IInv, Blamed
<1>6. folded[next[w]] = 0
  BY <1>5 DEF IInv, Unfolded
<1> QED  BY <1>1, <1>2, <1>3, <1>4, <1>5, <1>6, Disjoint

(* A worker stops at a failing record: read failure and refusal alike.     *)
LEMMA StopAtFailure ==
    ASSUME IInv, TypeOK', NEW w \in Spawned, InChunk(w), ~failure[w].failed,
           next[w] \in Failing(doc),
           pc' = [pc EXCEPT ![w] = "fence"],
           failure' = [failure EXCEPT ![w] = FailureAt(FailureOffset(doc, next[w]), next[w])],
           folded' \in {folded, [folded EXCEPT ![next[w]] = @ + 1]},
           UNCHANGED <<doc, cursor, barrier, published, chunk, next, caller>>
    PROVE  IInv'
<1>1. w \in Workers /\ next[w] \in Records(doc) /\ doc.fate[next[w]] # "ok" /\ pc[w] # "exit"
  BY Basics DEF Failing, InChunk
<1>2. /\ next[w] \in Nat /\ doc.first[chunk[w]] <= next[w]
      /\ next[w] < ChunkEnd(doc, chunk[w]) /\ next[w] < Frontier
      /\ folded[next[w]] = 0
      /\ \A v \in Workers \ {w} : ~Ahead(v, next[w])
  BY <1>1, InHandUnfolded
<1>3. /\ pc'[w] = "fence" /\ failure'[w].failed /\ failure'[w].rec = next[w]
      /\ failure'[w].at = FailureOffset(doc, next[w])
      /\ \A v \in Workers \ {w} : pc'[v] = pc[v] /\ failure'[v] = failure[v]
  BY <1>1, Basics DEF FailureAt
<1>4. /\ folded'[next[w]] \in {0, 1}
      /\ \A r \in Records(doc) \ {next[w]} : folded'[r] = folded[r]
  BY <1>1, <1>2, Basics
<1>5. /\ Frontier' = Frontier
      /\ \A v \in Workers : InChunk(v)' <=> InChunk(v)
      /\ \A r \in Records(doc) : ~Ahead(w, r)'
      /\ \A v \in Workers \ {w} : \A r \in Records(doc) : Ahead(v, r)' <=> Ahead(v, r)
  BY <1>1, <1>3 DEF Frontier, InChunk, Ahead
<1>6. Placed' /\ Exclusive'
  <2>1. Exclusive'
    BY <1>5 DEF IInv, Exclusive
  <2>2. Placed'
    <3>1. next[w] \in Nat /\ ChunkEnd(doc, chunk[w]) \in Nat
      BY <1>1, Basics, ChunkBounds DEF IInv, TypeOK, Placed, Records
    <3> QED  BY <1>2, <1>3, <1>5, <3>1 DEF IInv, Placed
  <2> QED  BY <2>1, <2>2
<1>7. FoldedAtMostOnce'
  BY <1>4 DEF IInv, FoldedAtMostOnce
<1>8. Unfolded'
  <2>1. \A r \in Records(doc) : r >= Frontier => r # next[w]
    BY <1>2, Basics DEF Records
  <2> QED  BY <1>2, <1>4, <1>5, <2>1 DEF IInv, Unfolded
<1>9. Blamed'
  BY <1>1, <1>2, <1>3, <1>5 DEF IInv, Blamed
<1>10. Published'
  BY <1>1, <1>3 DEF IInv, Published, NO_FAILURE
<1>11. Cover'
  <2> SUFFICES ASSUME NEW r \in Records(doc), r < Frontier
               PROVE  \/ Settled(r)'
                      \/ \E v \in Workers : Ahead(v, r)'
                      \/ \E v \in Workers : failure'[v].failed /\ failure'[v].rec <= r
    BY <1>5 DEF Cover
  <2>1. CASE Settled(r)
    <3>1. r # next[w]
      BY <1>1, <2>1 DEF Settled
    <3> QED  BY <1>4, <2>1, <3>1 DEF Settled
  <2>2. CASE Ahead(w, r)
    BY <1>1, <1>3, <2>2 DEF Ahead
  <2>3. CASE \E v \in Workers \ {w} : Ahead(v, r)
    BY <1>5, <2>3
  <2>4. CASE \E v \in Workers : failure[v].failed /\ failure[v].rec <= r
    BY <1>3, <2>4
  <2> QED  BY <2>1, <2>2, <2>3, <2>4 DEF IInv, Cover
<1>12. Exhausted' /\ Unspawned'
  BY <1>1, <1>3 DEF IInv, Exhausted, Unspawned, Spawned
<1>13. Reconciled'
  <2>1. \A v \in 1..joined : v # w /\ v \in Workers
    BY <1>1, Basics DEF IInv, Reconciled
  <2> QED  BY <1>3, <2>1 DEF IInv, Reconciled, caller
<1> QED  BY <1>6, <1>7, <1>8, <1>9, <1>10, <1>11, <1>12, <1>13 DEF IInv

(* The kernel refuses the record.                                          *)
LEMMA ReadFailureStep ==
    ASSUME IInv, TypeOK', NEW w \in Spawned, ReadFailure(w)
    PROVE  IInv'
<1>1. InChunk(w) /\ ~failure[w].failed
  BY Basics DEF ReadFailure, InChunk
<1>2. next[w] \in Failing(doc)
  BY DEF ReadFailure, Failing, ParseFailures
<1> QED  BY <1>1, <1>2, StopAtFailure DEF ReadFailure, shared

(* The closure refuses the record, or folds it and leaves the worker at    *)
(* the next one, in the same chunk or about to claim another.              *)
LEMMA FoldStep ==
    ASSUME IInv, TypeOK', NEW w \in Spawned, Fold(w)
    PROVE  IInv'
<1>1. w \in Workers /\ pc[w] = "fold" /\ InChunk(w) /\ ~failure[w].failed
  BY Basics DEF Fold, InChunk
<1>2. next[w] \in Records(doc)
  BY <1>1, InHand DEF IInv
<1> DEFINE n == next[w]
<1>3. folded' = [folded EXCEPT ![n] = @ + 1] /\ UNCHANGED <<doc, cursor, barrier, published, chunk, caller>>
  BY DEF Fold
<1>4. CASE doc.fate[n] = "refused"
  <2>1. n \in Failing(doc)
    BY <1>2, <1>4 DEF Failing
  <2> QED  BY <1>1, <1>3, <1>4, <2>1, StopAtFailure DEF Fold
<1>5. CASE doc.fate[n] # "refused"
  <2>1. doc.fate[n] = "ok"
    <3>1. doc.fate[n] \in Fates /\ doc.fate[n] \notin ParseFailures
      BY <1>1, <1>2, Basics DEF IInv, Placed, WellFormed, Records
    <3> QED  BY <1>5, <3>1 DEF Fates
  <2>2. /\ n \in Nat /\ doc.first[chunk[w]] <= n
        /\ n < ChunkEnd(doc, chunk[w]) /\ n < Frontier
        /\ folded[n] = 0
        /\ \A v \in Workers \ {w} : ~Ahead(v, n)
    BY <1>1, <1>2, InHandUnfolded
  <2>3. /\ UNCHANGED failure
        /\ next'[w] = n + 1 /\ pc'[w] \in {"claim", "read"}
        /\ pc'[w] = "read" => n + 1 < ChunkEnd(doc, chunk[w])
        /\ pc'[w] = "claim" => n + 1 >= ChunkEnd(doc, chunk[w])
        /\ \A v \in Workers \ {w} : pc'[v] = pc[v] /\ next'[v] = next[v]
    <3>1. /\ chunk[w] \in Chunks(doc) /\ ChunkEnd(doc, chunk[w]) \in Nat
      BY <1>1, Basics, ChunkBounds DEF IInv, Placed
    <3> QED  BY <1>1, <1>5, <2>2, <3>1, Basics DEF Fold, Reached
  <2>4. /\ folded'[n] = 1
        /\ \A r \in Records(doc) \ {n} : folded'[r] = folded[r]
    BY <1>2, <1>3, <2>2, Basics
  <2>5. /\ Frontier' = Frontier
        /\ \A v \in Workers : InChunk(v)' => InChunk(v)
        /\ \A v \in Workers \ {w} :
              /\ InChunk(v)' <=> InChunk(v)
              /\ \A r \in Records(doc) : Ahead(v, r)' <=> Ahead(v, r)
    BY <1>1, <1>3, <2>3 DEF Frontier, InChunk, Ahead
  <2>6. \A r \in Records(doc) : Ahead(w, r)' <=> Ahead(w, r) /\ r # n
    <3>1. ChunkEnd(doc, chunk[w]) \in Nat
      BY <1>1, Basics, ChunkBounds DEF IInv, Placed
    <3> QED  BY <1>1, <1>3, <2>2, <2>3, <3>1, Basics DEF Ahead, Records
  <2>7. Exclusive'
    BY <1>3, <2>5 DEF IInv, Exclusive
  <2>8. Placed'
    <3> SUFFICES ASSUME NEW v \in Workers, InChunk(v)'
                 PROVE  /\ chunk[v] \in Chunks(doc) /\ chunk[v] < cursor
                        /\ doc.first[chunk[v]] <= next'[v]
                        /\ next'[v] >= ChunkEnd(doc, chunk[v]) =>
                              pc'[v] = "read" /\ next'[v] > doc.size
                        /\ pc'[v] \in {"fold", "check"} => doc.fate[next'[v]] \notin ParseFailures
      BY <1>3 DEF Placed
    <3>1. InChunk(v)
      BY <2>5
    <3>2. CASE v = w
      <4>1. chunk[w] \in Chunks(doc) /\ chunk[w] < cursor
        BY <1>1 DEF IInv, Placed
      <4>2. ChunkEnd(doc, chunk[w]) \in Nat /\ doc.first[chunk[w]] \in Nat
        BY <4>1, Basics, ChunkBounds
      <4>3. pc'[w] = "read"
        BY <2>3, <3>2 DEF InChunk
      <4> QED  BY <2>2, <2>3, <3>2, <4>1, <4>2, <4>3
    <3>3. CASE v # w
      BY <2>3, <3>1, <3>3 DEF IInv, Placed
    <3> QED  BY <3>2, <3>3
  <2>9. FoldedAtMostOnce'
    BY <1>3, <2>4 DEF IInv, FoldedAtMostOnce
  <2>10. Unfolded'
    <3>1. \A r \in Records(doc) : r >= Frontier => r # n
      BY <2>2, Basics DEF Records
    <3>2. \A v \in Workers, r \in Records(doc) : Ahead(v, r)' => Ahead(v, r) /\ r # n
      BY <2>2, <2>5, <2>6
    <3> QED  BY <1>3, <2>4, <2>5, <3>1, <3>2 DEF IInv, Unfolded
  <2>11. Blamed' /\ Published'
    BY <1>1, <1>3, <2>3, <2>5 DEF IInv, Blamed, Published, NO_FAILURE
  <2>12. Cover'
    <3> SUFFICES ASSUME NEW r \in Records(doc), r < Frontier
                 PROVE  \/ Settled(r)'
                        \/ \E v \in Workers : Ahead(v, r)'
                        \/ \E v \in Workers : failure'[v].failed /\ failure'[v].rec <= r
      BY <1>3, <2>5 DEF Cover
    <3>1. CASE r = n
      BY <1>3, <2>1, <2>4, <3>1 DEF Settled
    <3>2. CASE r # n
      BY <1>3, <2>3, <2>4, <2>5, <2>6, <3>2 DEF IInv, Cover, Settled
    <3> QED  BY <3>1, <3>2
  <2>13. Exhausted' /\ Unspawned'
    BY <1>1, <1>3, <2>3 DEF IInv, Exhausted, Unspawned, Spawned
  <2>14. Reconciled'
    <3>1. \A v \in 1..joined : v # w /\ v \in Workers
      BY <1>1, Basics DEF IInv, Reconciled
    <3> QED  BY <1>3, <2>3, <3>1 DEF IInv, Reconciled, caller
  <2> QED  BY <2>7, <2>8, <2>9, <2>10, <2>11, <2>12, <2>13, <2>14 DEF IInv
<1> QED  BY <1>4, <1>5

(* The chunk at the cursor starts at the frontier, so the worker that      *)
(* claims it takes on every record the frontier moves past.                *)
LEMMA ClaimStep ==
    ASSUME IInv, TypeOK', NEW w \in Spawned, Claim(w)
    PROVE  IInv'
<1>1. w \in Workers /\ pc[w] = "claim" /\ ~failure[w].failed /\ ~InChunk(w)
  BY Basics DEF Claim, InChunk
<1>2. /\ cursor' = cursor + 1 /\ cursor \in Nat \ {0}
      /\ UNCHANGED <<doc, barrier, published, failure, folded, caller>>
  BY DEF Claim, IInv, TypeOK
<1>3. CASE cursor \in Chunks(doc)
  <2>1. /\ pc'[w] = "read" /\ chunk'[w] = cursor /\ next'[w] = doc.first[cursor]
        /\ \A v \in Workers \ {w} : pc'[v] = pc[v] /\ chunk'[v] = chunk[v] /\ next'[v] = next[v]
    BY <1>1, <1>3, Basics DEF Claim
  <2>2. /\ doc.first[cursor] \in 1..(doc.size + 1) /\ ChunkEnd(doc, cursor) \in 1..(doc.size + 1)
        /\ doc.first[cursor] < ChunkEnd(doc, cursor) \/ (doc.size = 0 /\ doc.first[cursor] = 1)
        /\ Len(doc.first) \in Nat /\ doc.size \in Nat
    BY <1>3, Basics, ChunkBounds
  <2>3. Frontier = doc.first[cursor] /\ Frontier' = ChunkEnd(doc, cursor)
    BY <1>2, <1>3, <2>2 DEF Frontier, ChunkEnd, Chunks
  <2>4. Frontier <= Frontier'
    BY <2>2, <2>3
  <2>5. /\ InChunk(w)'
        /\ \A r \in Records(doc) :
              Ahead(w, r)' <=> doc.first[cursor] <= r /\ r < ChunkEnd(doc, cursor)
        /\ \A v \in Workers \ {w} :
              /\ InChunk(v)' <=> InChunk(v)
              /\ \A r \in Records(doc) : Ahead(v, r)' <=> Ahead(v, r)
    BY <1>1, <1>2, <2>1 DEF InChunk, Ahead
  <2>6. Placed'
    <3> SUFFICES ASSUME NEW v \in Workers, InChunk(v)'
                 PROVE  /\ chunk'[v] \in Chunks(doc) /\ chunk'[v] < cursor + 1
                        /\ doc.first[chunk'[v]] <= next'[v]
                        /\ next'[v] >= ChunkEnd(doc, chunk'[v]) =>
                              pc'[v] = "read" /\ next'[v] > doc.size
                        /\ pc'[v] \in {"fold", "check"} => doc.fate[next'[v]] \notin ParseFailures
      BY <1>2 DEF Placed
    <3>1. CASE v = w
      BY <1>2, <1>3, <2>1, <2>2, <3>1
    <3>2. CASE v # w
      <4>1. InChunk(v) /\ chunk[v] \in Chunks(doc) /\ chunk[v] < cursor
        BY <2>5, <3>2 DEF IInv, Placed
      <4>2. chunk[v] < cursor + 1
        BY <1>2, <4>1 DEF Chunks
      <4> QED  BY <2>1, <3>2, <4>1, <4>2 DEF IInv, Placed
    <3> QED  BY <3>1, <3>2
  <2>7. Exclusive'
    <3>1. \A v \in Workers \ {w} : InChunk(v)' => InChunk(v) /\ chunk'[v] # cursor
      <4> SUFFICES ASSUME NEW v \in Workers \ {w}, InChunk(v)'
                   PROVE  InChunk(v) /\ chunk'[v] # cursor
        OBVIOUS
      <4>1. InChunk(v) /\ chunk[v] \in Chunks(doc) /\ chunk[v] < cursor
        BY <2>5 DEF IInv, Placed
      <4> QED  BY <1>2, <2>1, <4>1 DEF Chunks
    <3> QED  BY <2>1, <3>1 DEF IInv, Exclusive
  <2>8. FoldedAtMostOnce'
    BY <1>2 DEF IInv, FoldedAtMostOnce
  <2>9. Unfolded'
    <3>1. \A r \in Records(doc) : r >= Frontier' => r >= Frontier
      BY <2>2, <2>3, <2>4 DEF Records
    <3>2. \A r \in Records(doc) : Ahead(w, r)' => r >= Frontier
      BY <2>2, <2>3, <2>5 DEF Records
    <3> QED  BY <1>2, <2>5, <3>1, <3>2 DEF IInv, Unfolded
  <2>10. Blamed'
    <3>1. \A r \in Failing(doc) : r < Frontier => r < Frontier'
      BY <2>2, <2>3, <2>4 DEF Failing, Records
    <3> QED  BY <1>1, <1>2, <2>1, <3>1 DEF IInv, Blamed
  <2>11. Published'
    BY <1>2 DEF IInv, Published, NO_FAILURE
  <2>12. Cover'
    <3> SUFFICES ASSUME NEW r \in Records(doc), r < Frontier'
                 PROVE  \/ Settled(r)
                        \/ \E v \in Workers : Ahead(v, r)'
                        \/ \E v \in Workers : failure[v].failed /\ failure[v].rec <= r
      BY <1>2 DEF Cover, Settled
    <3>1. CASE r < Frontier
      BY <1>1, <2>5, <3>1 DEF IInv, Cover, Ahead, InChunk
    <3>2. CASE r >= Frontier
      BY <1>1, <2>3, <2>5, <3>2
    <3> QED  BY <3>1, <3>2, <2>2, <2>3 DEF Records
  <2>13. Exhausted' /\ Unspawned'
    <3>1. Exhausted'
      BY <1>2, <2>1, <2>2 DEF IInv, Exhausted
    <3>2. Unspawned'
      BY <1>1, <1>2, <2>1 DEF IInv, Unspawned, Spawned
    <3> QED  BY <3>1, <3>2
  <2>14. Reconciled'
    <3>1. \A v \in 1..joined : v # w /\ v \in Workers
      BY <1>1, Basics DEF IInv, Reconciled
    <3> QED  BY <1>2, <2>1, <3>1 DEF IInv, Reconciled, caller
  <2> QED  BY <2>6, <2>7, <2>8, <2>9, <2>10, <2>11, <2>12, <2>13, <2>14 DEF IInv
<1>4. CASE cursor \notin Chunks(doc)
  <2>1. /\ pc'[w] = "exit" /\ UNCHANGED <<chunk, next>>
        /\ \A v \in Workers \ {w} : pc'[v] = pc[v]
    BY <1>1, <1>4, Basics DEF Claim
  <2>2. cursor > Len(doc.first) /\ cursor + 1 \notin Chunks(doc)
    BY <1>2, <1>4, Basics DEF Chunks
  <2>3. Frontier' = Frontier
    BY <1>2, <1>4, <2>2 DEF Frontier
  <2>4. \A v \in Workers :
           /\ InChunk(v)' <=> InChunk(v)
           /\ InChunk(v) => pc'[v] = pc[v]
           /\ \A r \in Records(doc) : Ahead(v, r)' <=> Ahead(v, r)
    BY <1>1, <1>2, <2>1 DEF InChunk, Ahead
  <2>5. Placed'
    <3>1. \A v \in Workers : InChunk(v) => chunk[v] < cursor + 1
      BY <1>2 DEF IInv, Placed, Chunks
    <3> QED  BY <1>2, <2>1, <2>4, <3>1 DEF IInv, Placed
  <2>6. Exclusive' /\ FoldedAtMostOnce' /\ Unfolded'
    BY <1>2, <2>1, <2>3, <2>4 DEF IInv, Exclusive, FoldedAtMostOnce, Unfolded
  <2>7. Blamed' /\ Published'
    BY <1>1, <1>2, <2>1, <2>3 DEF IInv, Blamed, Published, NO_FAILURE
  <2>8. Cover'
    BY <1>2, <2>3, <2>4 DEF IInv, Cover, Settled
  <2>9. Exhausted'
    BY <1>2, <2>1, <2>2, Basics DEF IInv, Exhausted
  <2>10. Unspawned'
    BY <1>1, <1>2, <2>1 DEF IInv, Unspawned, Spawned
  <2>11. Reconciled'
    <3>1. \A v \in 1..joined : v # w /\ v \in Workers
      BY <1>1, Basics DEF IInv, Reconciled
    <3> QED  BY <1>2, <2>1, <3>1 DEF IInv, Reconciled, caller
  <2> QED  BY <2>5, <2>6, <2>7, <2>8, <2>9, <2>10, <2>11 DEF IInv
<1> QED  BY <1>3, <1>4

(* Fencing publishes the failure the worker returns with.                  *)
LEMMA FenceStep ==
    ASSUME IInv, TypeOK', NEW w \in Spawned, Fence(w)
    PROVE  IInv'
<1>1. w \in Workers /\ pc[w] = "fence" /\ failure[w].failed
  BY Basics DEF Fence, IInv, Blamed
<1>2. /\ UNCHANGED <<doc, cursor, chunk, next, failure, folded, caller>>
      /\ barrier' \in {barrier, failure[w].at} /\ published' = published \cup {barrier'}
      /\ pc'[w] = "exit" /\ \A v \in Workers \ {w} : pc'[v] = pc[v]
  BY <1>1, Basics DEF Fence
<1>3. /\ Frontier' = Frontier
      /\ \A v \in Workers : /\ InChunk(v)' => InChunk(v) /\ pc'[v] = pc[v]
                            /\ \A r \in Records(doc) : Ahead(v, r)' <=> Ahead(v, r)
  BY <1>1, <1>2 DEF Frontier, InChunk, Ahead
<1>4. Placed' /\ Exclusive' /\ FoldedAtMostOnce' /\ Unfolded'
  BY <1>2, <1>3 DEF IInv, Placed, Exclusive, FoldedAtMostOnce, Unfolded
<1>5. Blamed'
  BY <1>1, <1>2, <1>3 DEF IInv, Blamed
<1>6. Published'
  BY <1>1, <1>2 DEF IInv, Published, NO_FAILURE
<1>7. Cover'
  BY <1>2, <1>3 DEF IInv, Cover, Settled
<1>8. Exhausted' /\ Unspawned'
  BY <1>1, <1>2 DEF IInv, Exhausted, Unspawned, Spawned
<1>9. Reconciled'
  <2>1. \A v \in 1..joined : v # w /\ v \in Workers
    BY <1>1, Basics DEF IInv, Reconciled
  <2> QED  BY <1>2, <2>1 DEF IInv, Reconciled, caller
<1> QED  BY <1>4, <1>5, <1>6, <1>7, <1>8, <1>9 DEF IInv

(* The caller joins the workers in turn and keeps the least offset.        *)
LEMMA JoinStep ==
    ASSUME IInv, TypeOK', NEW w \in Spawned, Join(w)
    PROVE  IInv'
<1>1. /\ w \in Workers /\ pc[w] = "exit" /\ w = joined + 1 /\ joined \in Nat
      /\ w <= ActiveWorkers(doc, Threads)
  BY Basics DEF Join, Spawned
<1>2. UNCHANGED <<doc, shared, pc, seen, chunk, next, failure, returned>> /\ joined' = w
  BY DEF Join
<1>3. /\ Frontier' = Frontier
      /\ \A v \in Workers : /\ InChunk(v)' <=> InChunk(v)
                            /\ \A r \in Records(doc) : Ahead(v, r)' <=> Ahead(v, r)
  BY <1>2 DEF Frontier, InChunk, Ahead, shared
<1>4. Placed' /\ Exclusive' /\ FoldedAtMostOnce' /\ Unfolded'
  BY <1>2, <1>3 DEF IInv, Placed, Exclusive, FoldedAtMostOnce, Unfolded, shared
<1>5. Blamed' /\ Published' /\ Cover'
  BY <1>2, <1>3 DEF IInv, Blamed, Published, Cover, Settled, NO_FAILURE, shared
<1>6. Exhausted' /\ Unspawned'
  BY <1>2 DEF IInv, Exhausted, Unspawned, Spawned, shared
<1>7. Reconciled'
  <2>1. 1..joined' = 1..joined \cup {w}
    BY <1>1, <1>2
  <2>2. \A v \in 1..joined : pc[v] = "exit"
    BY DEF IInv, Reconciled
  <2>3. \A v \in Workers : failure[v].at \in Nat
    BY Basics DEF IInv, TypeOK, Failures, Offsets, NO_FAILURE
  <2>4. earliest.at \in Nat
    BY Basics DEF IInv, TypeOK, Failures, Offsets, NO_FAILURE
  <2>5. \/ /\ failure[w].failed /\ earliest' = failure[w]
           /\ earliest.failed => failure[w].at < earliest.at
        \/ /\ earliest' = earliest
           /\ failure[w].failed => earliest.failed /\ ~(failure[w].at < earliest.at)
    BY DEF Join, FailureIsEarlier
  <2>6. \A v \in 1..joined' :
           failure[v].failed => earliest'.failed /\ earliest'.at <= failure[v].at
    <3> SUFFICES ASSUME NEW v \in 1..joined', failure[v].failed
                 PROVE  earliest'.failed /\ earliest'.at <= failure[v].at
      OBVIOUS
    <3>1. v \in Workers /\ (v = w \/ v \in 1..joined)
      BY <1>1, <2>1, Basics
    <3>2. v \in 1..joined => earliest.failed /\ earliest.at <= failure[v].at
      BY DEF IInv, Reconciled
    <3> QED  BY <1>1, <2>3, <2>4, <2>5, <3>1, <3>2
  <2>7. earliest'.failed => \E v \in 1..joined' : failure[v] = earliest'
    <3>1. earliest.failed => \E v \in 1..joined : failure[v] = earliest
      BY DEF IInv, Reconciled
    <3> QED  BY <2>1, <2>5, <3>1
  <2>8. returned => w = ActiveWorkers(doc, Threads)
    BY <1>1, Basics DEF IInv, Reconciled
  <2> QED  BY <1>1, <1>2, <2>1, <2>2, <2>6, <2>7, <2>8 DEF Reconciled
<1> QED  BY <1>4, <1>5, <1>6, <1>7 DEF IInv

(* Only a caller that has joined every worker returns.                     *)
LEMMA ReturnStep ==
    ASSUME IInv, TypeOK', Return
    PROVE  IInv'
<1>1. UNCHANGED <<doc, shared, pc, seen, chunk, next, failure, joined, earliest>>
  BY DEF Return
<1>2. /\ Frontier' = Frontier
      /\ \A v \in Workers : /\ InChunk(v)' <=> InChunk(v)
                            /\ \A r \in Records(doc) : Ahead(v, r)' <=> Ahead(v, r)
  BY <1>1 DEF Frontier, InChunk, Ahead, shared
<1>3. Placed' /\ Exclusive' /\ FoldedAtMostOnce' /\ Unfolded'
  BY <1>1, <1>2 DEF IInv, Placed, Exclusive, FoldedAtMostOnce, Unfolded, shared
<1>4. Blamed' /\ Published' /\ Cover'
  BY <1>1, <1>2 DEF IInv, Blamed, Published, Cover, Settled, NO_FAILURE, shared
<1>5. Exhausted' /\ Unspawned'
  BY <1>1 DEF IInv, Exhausted, Unspawned, Spawned, shared
<1>6. Reconciled'
  <2>1. joined = ActiveWorkers(doc, Threads)
    BY Basics DEF IInv, Reconciled, Return, Spawned
  <2> QED  BY <1>1, <2>1 DEF IInv, Reconciled
<1> QED  BY <1>3, <1>4, <1>5, <1>6 DEF IInv

(* Every step of a worker or of the caller keeps the inductive invariant,  *)
(* and so does no step at all.                                             *)
LEMMA InvariantStep == IInv /\ [Next]_vars => IInv'
<1> SUFFICES ASSUME IInv, [Next]_vars PROVE IInv'
  OBVIOUS
<1>1. TypeOK'
  BY TypeStep DEF IInv
<1>2. ASSUME NEW w \in Spawned, Work(w)
      PROVE  IInv'
  BY <1>1, <1>2, BuildStep, ClaimStep, ReadNothingStep, ReadRecordStep, ReadFailureStep,
     CheckStep, FoldStep, FenceStep DEF Work
<1>3. CASE UNCHANGED vars
  <2>1. UNCHANGED <<doc, shared, pc, seen, chunk, next, failure, caller>>
    BY <1>3 DEF vars, shared, caller
  <2>2. /\ Frontier' = Frontier
        /\ \A v \in Workers : /\ InChunk(v)' <=> InChunk(v)
                              /\ \A r \in Records(doc) : Ahead(v, r)' <=> Ahead(v, r)
    BY <2>1 DEF Frontier, InChunk, Ahead, shared
  <2>3. Placed' /\ Exclusive' /\ FoldedAtMostOnce' /\ Unfolded'
    BY <2>1, <2>2 DEF IInv, Placed, Exclusive, FoldedAtMostOnce, Unfolded, shared
  <2>4. Blamed' /\ Published' /\ Cover'
    BY <2>1, <2>2 DEF IInv, Blamed, Published, Cover, Settled, NO_FAILURE, shared
  <2>5. Exhausted' /\ Unspawned' /\ Reconciled'
    BY <2>1 DEF IInv, Exhausted, Unspawned, Spawned, Reconciled, shared, caller
  <2> QED  BY <1>1, <2>3, <2>4, <2>5 DEF IInv
<1> QED
  BY <1>1, <1>2, <1>3, JoinStep, ReturnStep DEF Next, Terminated

-----------------------------------------------------------------------------
(* Nobody is in a chunk, and nobody has given up, when drive returns.      *)
LEMMA AtReturn ==
    ASSUME IInv, returned
    PROVE  /\ \A w \in Spawned : pc[w] = "exit"
           /\ \A w \in Workers, r \in Records(doc) : ~Ahead(w, r)
           /\ (\A w \in Workers : ~failure[w].failed) => Frontier = doc.size + 1
           /\ \A w \in Workers : failure[w].failed =>
                 earliest.failed /\ earliest.at <= failure[w].at
           /\ earliest.failed => \E w \in Workers : failure[w] = earliest
<1>1. Spawned = 1..joined
  BY DEF IInv, Reconciled, Spawned
<1>2. \A w \in Spawned : pc[w] = "exit"
  BY <1>1 DEF IInv, Reconciled
<1>3. \A w \in Workers, r \in Records(doc) : ~Ahead(w, r)
  BY <1>2 DEF Ahead, IInv, Unspawned
<1>4. ASSUME \A w \in Workers : ~failure[w].failed
      PROVE  Frontier = doc.size + 1
  <2>1. 1 \in Spawned /\ 1 \in Workers
    BY Basics DEF Spawned
  <2>2. cursor > Len(doc.first)
    BY <1>2, <1>4, <2>1 DEF IInv, Exhausted
  <2> QED  BY <2>2, Basics DEF Frontier, Chunks, IInv, TypeOK
<1>5. \A w \in Workers : failure[w].failed => earliest.failed /\ earliest.at <= failure[w].at
  BY <1>1 DEF IInv, Reconciled, Unspawned
<1>6. earliest.failed => \E w \in Workers : failure[w] = earliest
  BY Basics DEF IInv, Reconciled
<1> QED  BY <1>2, <1>3, <1>4, <1>5, <1>6

(* When it returns and every parser was built, the records before the      *)
(* first failing one are settled, and that one is some worker's failure.   *)
LEMMA DealtWith ==
    ASSUME IInv, returned, ~BuildFailed
    PROVE  /\ \A r \in Records(doc) : r < SerialFailure(doc) => Settled(r)
           /\ Failing(doc) # {} =>
                 \E w \in Workers : failure[w].failed /\ failure[w].rec = SerialFailure(doc)
           /\ \A w \in Workers : failure[w].failed =>
                 /\ failure[w].rec \in Failing(doc)
                 /\ failure[w].at = FailureOffset(doc, failure[w].rec)
<1> DEFINE s == SerialFailure(doc)
<1>1. doc.size \in Nat /\ Failing(doc) \subseteq Records(doc) /\ Records(doc) \subseteq Nat
  BY Basics DEF Failing, Records
<1>2. /\ Failing(doc) = {} => s = doc.size + 1
      /\ Failing(doc) # {} => s \in Failing(doc) /\ \A r \in Failing(doc) : s <= r
  BY <1>1, SerialFailureLeast
<1>3. s \in Nat
  BY <1>1, <1>2
<1> HIDE DEF s
<1>4. \A w \in Workers : failure[w].failed =>
          /\ failure[w].rec \in Failing(doc) /\ failure[w].rec < Frontier
          /\ failure[w].at = FailureOffset(doc, failure[w].rec)
  BY DEF IInv, Blamed, BuildFailed
<1>5. \A r \in Records(doc) : r <= s => r < Frontier
  <2>1. CASE \E w \in Workers : failure[w].failed
    <3>1. PICK w \in Workers : failure[w].failed
      BY <2>1
    <3>2. s <= failure[w].rec /\ failure[w].rec \in Nat
      BY <1>1, <1>2, <1>4, <3>1
    <3> QED  BY <1>1, <1>3, <1>4, <3>1, <3>2, Basics
  <2>2. CASE \A w \in Workers : ~failure[w].failed
    BY <1>1, <2>2, AtReturn DEF Records
  <2> QED  BY <2>1, <2>2
<1>6. \A r \in Records(doc) : r < Frontier =>
          Settled(r) \/ \E w \in Workers : failure[w].failed /\ failure[w].rec <= r
  BY AtReturn DEF IInv, Cover
<1>7. ASSUME NEW r \in Records(doc), r < s
      PROVE  Settled(r)
  <2>1. ASSUME NEW w \in Workers, failure[w].failed, failure[w].rec <= r
        PROVE  FALSE
    BY <1>1, <1>2, <1>3, <1>4, <1>7, <2>1
  <2> QED  BY <1>1, <1>3, <1>5, <1>6, <1>7, <2>1
<1>8. ASSUME Failing(doc) # {}
      PROVE  \E w \in Workers : failure[w].failed /\ failure[w].rec = s
  <2>1. s \in Failing(doc) /\ s \in Records(doc) /\ doc.fate[s] # "ok"
    BY <1>1, <1>2, <1>8 DEF Failing
  <2>2. PICK w \in Workers : failure[w].failed /\ failure[w].rec <= s
    BY <1>3, <1>5, <1>6, <2>1 DEF Settled
  <2>3. failure[w].rec \in Nat /\ s <= failure[w].rec
    BY <1>1, <1>2, <1>4, <2>2
  <2> QED  BY <1>3, <2>2, <2>3
<1> QED  BY <1>4, <1>7, <1>8 DEF s

-----------------------------------------------------------------------------
(* Every variable keeps its type, the barrier and every offset a worker    *)
(* returns staying within the document.                                    *)
THEOREM UnorderedTypeOK == Spec => []TypeOK
<1>1. IInv => TypeOK
  BY DEF IInv
<1> QED  BY <1>1, InvariantInit, InvariantStep, PTL DEF Spec

(* No record reaches the closure twice, whichever workers race for the     *)
(* chunks (unordered.rs worker, parse_chunk).                              *)
THEOREM NeverFoldedTwice == Spec => []FoldedAtMostOnce
<1>1. IInv => FoldedAtMostOnce
  BY DEF IInv
<1> QED  BY <1>1, InvariantInit, InvariantStep, PTL DEF Spec

(* Nothing before the failure a serial parse would report is lost to an    *)
(* abandoned chunk, and without a failure nothing at all (unordered.rs).   *)
THEOREM PrefixIsFolded == Spec => []PrefixFolded
<1>1. IInv => PrefixFolded
  BY DealtWith DEF PrefixFolded, Settled
<1> QED  BY <1>1, InvariantInit, InvariantStep, PTL DEF Spec

(* The offset of the failure returned is the one a serial parse reports,   *)
(* in whatever order the workers failed (unordered.rs drive).              *)
THEOREM SerialOffsetReported == Spec => []ReportedOffset
<1>1. ASSUME IInv, returned, ~BuildFailed
      PROVE  /\ earliest.failed <=> Failing(doc) # {}
             /\ earliest.failed => earliest.at = FailureOffset(doc, SerialFailure(doc))
  <2> DEFINE s == SerialFailure(doc)
  <2>1. doc.size \in Nat /\ Failing(doc) \subseteq Records(doc) /\ Records(doc) \subseteq Nat
    BY <1>1, Basics DEF Failing, Records
  <2>2. Failing(doc) # {} => s \in Failing(doc) /\ \A r \in Failing(doc) : s <= r
    BY <2>1, SerialFailureLeast
  <2> HIDE DEF s
  <2>3. ASSUME Failing(doc) # {}
        PROVE  earliest.failed /\ earliest.at <= FailureOffset(doc, s)
    <3>1. PICK w \in Workers : failure[w].failed /\ failure[w].rec = s
      BY <1>1, <2>3, DealtWith DEF s
    <3>2. failure[w].at = FailureOffset(doc, s)
      BY <1>1, <3>1, DealtWith
    <3> QED  BY <1>1, <3>1, <3>2, AtReturn
  <2>4. ASSUME earliest.failed
        PROVE  Failing(doc) # {} /\ FailureOffset(doc, s) <= earliest.at
    <3>1. PICK w \in Workers : failure[w] = earliest
      BY <1>1, <2>4, AtReturn
    <3> DEFINE f == failure[w].rec
    <3>2. f \in Failing(doc) /\ earliest.at = FailureOffset(doc, f)
      BY <1>1, <2>4, <3>1, DealtWith
    <3>3. s \in Failing(doc) /\ s <= f
      BY <2>2, <3>2
    <3>4. s \in Nat /\ f \in Nat
      BY <2>1, <3>2, <3>3
    <3>5. FailureOffset(doc, s) \in {s, s + 1} /\ FailureOffset(doc, f) \in {f, f + 1}
      BY <2>1, <3>2, <3>3, FailureOffsetBounds
    <3>6. CASE s = f
      BY <3>2, <3>4, <3>5, <3>6
    <3>7. CASE s < f
      BY <3>2, <3>4, <3>5, <3>7
    <3> QED  BY <3>2, <3>3, <3>4, <3>6, <3>7
  <2>5. ASSUME earliest.failed
        PROVE  earliest.at = FailureOffset(doc, s)
    <3>1. s \in Records(doc)
      BY <2>1, <2>2, <2>4, <2>5
    <3>2. FailureOffset(doc, s) \in Nat
      BY <2>1, <3>1, FailureOffsetBounds
    <3>3. earliest.at \in Nat
      BY <1>1, Basics DEF IInv, TypeOK, Failures, Offsets, NO_FAILURE
    <3> QED  BY <2>3, <2>4, <2>5, <3>2, <3>3
  <2> QED  BY <2>3, <2>4, <2>5 DEF s
<1>2. IInv => ReportedOffset
  BY <1>1 DEF ReportedOffset
<1> QED  BY <1>2, InvariantInit, InvariantStep, PTL DEF Spec
=============================================================================
