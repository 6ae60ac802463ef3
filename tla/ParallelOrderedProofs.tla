----------------------- MODULE ParallelOrderedProofs -----------------------
(***************************************************************************)
(* However many threads, however deep the queues and whatever the          *)
(* document: what the consumer of ParallelOrdered is handed is what one    *)
(* thread would hand it, from one inductive invariant, IInv.               *)
(*                                                                         *)
(* A place in the document is a chunk and a record of it.  Every message   *)
(* says where it takes the consumer from and where it leaves it, and a     *)
(* worker's queue is a chain of them that leads from the place where the   *)
(* consumer expects that worker to go on to the place the worker is at.    *)
(***************************************************************************)
EXTENDS ParallelOrdered, Arithmetic, SequenceTheorems, FiniteSetTheorems

(* The record a serial parse stops at, when there is one.                  *)
LEMMA SerialFailureLeast ==
    ASSUME NEW d, d.size \in Nat
    PROVE  /\ Failing(d) = {} => SerialFailure(d) = d.size + 1
           /\ Failing(d) # {} => /\ SerialFailure(d) \in Failing(d)
                                /\ \A r \in Failing(d) : SerialFailure(d) <= r
<1>1. Failing(d) \subseteq Nat
  BY DEF Failing, Records
<1>2. CASE Failing(d) # {}
  <2>1. \E r \in Failing(d) : \A s \in Failing(d) : r <= s
    BY <1>1, <1>2, LeastExists
  <2> QED  BY <1>2, <2>1 DEF SerialFailure
<1> QED  BY <1>2 DEF SerialFailure

(* Chunks follow one another, and only a document without records has an   *)
(* empty one.                                                              *)
LEMMA ChunkBounds ==
    ASSUME NEW d, WellFormed(d)
    PROVE  /\ d.size \in Nat /\ Len(d.first) \in Nat \ {0}
           /\ \A c \in Chunks(d) :
                 /\ d.first[c] \in 1..(d.size + 1)
                 /\ ChunkEnd(d, c) \in 1..(d.size + 1)
                 /\ d.first[c] < ChunkEnd(d, c) \/ (d.size = 0 /\ d.first[c] = 1)
           /\ \A b, c \in Chunks(d) : b < c => ChunkEnd(d, b) <= d.first[c]
<1>1. /\ d.size \in Nat /\ d.first \in Seq(Nat) /\ Len(d.first) >= 1 /\ d.first[1] = 1
      /\ \A c \in 2..Len(d.first) : d.first[c] \in 2..d.size
      /\ \A b, c \in 1..Len(d.first) : b < c => d.first[b] < d.first[c]
  BY DEF WellFormed
<1>2. Len(d.first) \in Nat \ {0}
  BY <1>1
<1>3. ASSUME NEW c \in Chunks(d)
      PROVE  d.first[c] \in 1..(d.size + 1)
  <2>1. c = 1 \/ c \in 2..Len(d.first)
    BY <1>2, <1>3 DEF Chunks
  <2> QED  BY <1>1, <2>1
<1>4. ASSUME NEW c \in Chunks(d)
      PROVE  /\ ChunkEnd(d, c) \in 1..(d.size + 1)
             /\ d.first[c] < ChunkEnd(d, c) \/ (d.size = 0 /\ d.first[c] = 1)
  <2>1. CASE c < Len(d.first)
    <3>1. c + 1 \in Chunks(d) /\ c < c + 1
      BY <1>2, <2>1 DEF Chunks
    <3>2. d.first[c] < d.first[c + 1]
      BY <1>1, <3>1 DEF Chunks
    <3>3. ChunkEnd(d, c) = d.first[c + 1]
      BY <2>1 DEF ChunkEnd
    <3>4. d.first[c + 1] \in 1..(d.size + 1)
      BY <1>3, <3>1
    <3> QED  BY <3>2, <3>3, <3>4
  <2>2. CASE c = Len(d.first)
    <3>1. ChunkEnd(d, c) = d.size + 1
      BY <1>2, <2>2 DEF ChunkEnd
    <3>2. CASE c = 1
      BY <1>1, <3>1, <3>2
    <3>3. CASE c \in 2..Len(d.first)
      <4>1. d.first[c] \in 2..d.size /\ d.size \in Nat
        BY <1>1, <3>3
      <4> QED  BY <3>1, <4>1
    <3>4. c = 1 \/ c \in 2..Len(d.first)
      BY <1>2 DEF Chunks
    <3> QED  BY <3>2, <3>3, <3>4
  <2>3. c < Len(d.first) \/ c = Len(d.first)
    BY <1>2 DEF Chunks
  <2> QED  BY <2>1, <2>2, <2>3
<1>5. ASSUME NEW b \in Chunks(d), NEW c \in Chunks(d), b < c
      PROVE  ChunkEnd(d, b) <= d.first[c]
  <2>1. b + 1 \in Chunks(d) /\ b < Len(d.first) /\ (b + 1 = c \/ b + 1 < c)
    BY <1>2, <1>5 DEF Chunks
  <2>2. ChunkEnd(d, b) = d.first[b + 1]
    BY <2>1 DEF ChunkEnd
  <2>3. d.first[b + 1] \in 1..(d.size + 1) /\ d.first[c] \in 1..(d.size + 1)
    BY <1>3, <2>1
  <2>4. b + 1 < c => d.first[b + 1] < d.first[c]
    BY <1>1, <2>1 DEF Chunks
  <2>5. d.first[b + 1] <= d.first[c]
    BY <1>1, <2>1, <2>3, <2>4
  <2> QED  BY <2>2, <2>5
<1> QED  BY <1>1, <1>2, <1>3, <1>4, <1>5

-----------------------------------------------------------------------------

(* How many records the consumer has received.                             *)
Received == Len(delivered) + Len(held)

(* Where a message takes the consumer from, and where it leaves it.        *)
From(m) ==
    IF m.kind = "batch" THEN m.recs[1]
    ELSE IF m.kind = "done" THEN ChunkEnd(doc, m.chunk)
    ELSE IF m.rec = BuildError THEN doc.first[m.chunk] ELSE m.rec
NextChunk(m) == IF m.kind = "done" THEN m.chunk + Active ELSE m.chunk
NextRecord(m) ==
    IF m.kind = "done" THEN doc.first[m.chunk + Active] ELSE m.recs[Len(m.recs)] + 1

Leads(m, c, r) ==
    /\ m.kind # "failed"
    /\ c = NextChunk(m)
    /\ c \in Chunks(doc) => r = NextRecord(m)

(* Records of chunk c in order, none of which fails.                       *)
Run(recs, c) ==
    /\ recs \in Seq(Nat)
    /\ \A i \in 1..Len(recs) :
          /\ recs[i] = recs[1] + i - 1
          /\ recs[i] \in Records(doc) \ Failing(doc)
          /\ doc.first[c] <= recs[i] /\ recs[i] < ChunkEnd(doc, c)

Sound(w, m) ==
    /\ m.chunk \in Chunks(doc)
    /\ Owner(m.chunk) = w
    /\ m.kind = "batch" => Run(m.recs, m.chunk) /\ Len(m.recs) \in 1..Capacity
    /\ m.kind = "failed" =>
          \/ m.rec = BuildError /\ BuildMayFail
          \/ m.rec \in Failing(doc)

(* Where the consumer expects a worker to go on.                           *)
Expected(c, r) ==
    /\ at <= c /\ c < at + Active
    /\ c \in Chunks(doc) => r = IF c = at THEN Received + 1 ELSE doc.first[c]

(* Where a worker is: in front of the records of its batch.                *)
Here(w) ==
    IF next[w] = BuildError THEN doc.first[chunk[w]] ELSE next[w] - Len(batch[w])

Chained(w) ==
    LET q == queue[w]
        n == Len(q)
    IN  /\ \A i \in 1..n : Sound(w, q[i])
        /\ \A i \in 1..(n - 1) : Leads(q[i], q[i + 1].chunk, From(q[i + 1]))
        /\ IF n = 0 THEN Expected(chunk[w], Here(w))
           ELSE /\ Expected(q[1].chunk, From(q[1]))
                /\ IF q[n].kind = "failed" THEN pc[w] = "exit"
                   ELSE Leads(q[n], chunk[w], Here(w))

(* What a worker knows of its chunk and its batch.                         *)
InChunk(w) ==
    /\ doc.first[chunk[w]] <= next[w]
    /\ next[w] <= ChunkEnd(doc, chunk[w])
    /\ Run(batch[w], chunk[w])
    /\ batch[w] # <<>> => batch[w][1] = next[w] - Len(batch[w])

Onward(w) ==
    /\ after[w] = "read" => next[w] < ChunkEnd(doc, chunk[w])
    /\ after[w] = "done" => next[w] = ChunkEnd(doc, chunk[w])
    /\ after[w] = "fail" => next[w] \in Failing(doc)

Placed(w) ==
    /\ chunk[w] \in Nat \ {0}
    /\ Owner(chunk[w]) = w
    /\ pc[w] # "exit" => chunk[w] \in Chunks(doc)
    /\ pc[w] \in {"build", "reuse", "done", "fail"} => batch[w] = <<>>
    /\ pc[w] = "build" => next[w] = BuildError /\ chunk[w] = w
    /\ pc[w] = "read" =>
          /\ InChunk(w)
          /\ Len(batch[w]) < Capacity
          /\ next[w] < ChunkEnd(doc, chunk[w]) \/ (doc.size = 0 /\ next[w] = 1)
    /\ pc[w] = "send" =>
          /\ InChunk(w)
          /\ Len(batch[w]) \in 1..Capacity
          /\ Onward(w)
    /\ pc[w] = "reuse" => InChunk(w) /\ Onward(w)
    /\ pc[w] = "done" => InChunk(w) /\ next[w] = ChunkEnd(doc, chunk[w])
    /\ pc[w] = "fail" =>
          \/ next[w] = BuildError /\ BuildMayFail
          \/ InChunk(w) /\ next[w] \in Failing(doc)
    /\ pc[w] = "exit" =>
          \/ chunk[w] \notin Chunks(doc)
          \/ queue[w] # <<>> /\ queue[w][Len(queue[w])].kind = "failed"

(* Where the consumer is.                                                  *)
Consuming ==
    /\ at \in 1..(Len(doc.first) + 1)
    /\ held # <<>> => at \in Chunks(doc)
    /\ Len(held) <= Capacity
    /\ \A i \in 1..Len(held) : held[i] = Len(delivered) + i
    /\ \A r \in 1..Received : r \in Records(doc) \ Failing(doc)
    /\ at \in Chunks(doc) =>
          doc.first[at] <= Received + 1 /\ Received + 1 <= ChunkEnd(doc, at)
    /\ at \notin Chunks(doc) => Received = doc.size
    /\ error = BuildError

Draining ==
    Open => Consuming /\ \A w \in Spawned : Placed(w) /\ Chained(w)

(* What has been handed over, and the outcome, stay once drain is over.    *)
HandedOver ==
    /\ delivered = [i \in 1..Len(delivered) |-> i]
    /\ \A r \in 1..Len(delivered) : r \in Records(doc) \ Failing(doc)

IInv ==
    /\ TypeOK
    /\ HandedOver
    /\ OutcomeIsSerial
    /\ Draining

-----------------------------------------------------------------------------
(* Chunks are dealt out round-robin to the workers there are.              *)
LEMMA Dealt ==
    ASSUME WellFormed(doc)
    PROVE  /\ Active \in 1..Threads /\ Active <= Len(doc.first)
           /\ Spawned \subseteq Workers /\ Spawned \subseteq Chunks(doc)
           /\ \A c \in Nat \ {0} : Owner(c) \in Spawned /\ Owner(c + Active) = Owner(c)
           /\ \A w \in Spawned : Owner(w) = w
           /\ \A b, c \in Nat \ {0} :
                 b <= c /\ c < b + Active /\ Owner(b) = Owner(c) => b = c
<1>1. Len(doc.first) \in Nat \ {0} /\ Threads \in Nat \ {0}
  BY ChunkBounds, ThreadsAssumption
<1>2. Active \in 1..Threads /\ Active <= Len(doc.first) /\ Active \in Nat \ {0}
  BY <1>1 DEF Active, ActiveWorkers
<1>3. Spawned \subseteq Workers /\ Spawned \subseteq Chunks(doc)
  BY <1>1, <1>2 DEF Spawned, Workers, Chunks
<1>4. ASSUME NEW c \in Nat \ {0}
      PROVE  Owner(c) \in Spawned /\ Owner(c + Active) = Owner(c)
  <2>1. c - 1 \in Nat /\ (c + Active) - 1 = (c - 1) + Active
    BY <1>2
  <2>2. (c - 1) % Active \in 0..(Active - 1)
    BY <1>2, <2>1, DivMod
  <2>3. ((c + Active) - 1) % Active = (c - 1) % Active
    BY <1>2, <2>1, RemainderTurn
  <2> QED  BY <1>2, <2>2, <2>3 DEF Owner, Spawned
<1>5. ASSUME NEW b \in Nat \ {0}, NEW c \in Nat \ {0},
             b <= c, c < b + Active, Owner(b) = Owner(c)
      PROVE  b = c
  <2>1. b - 1 \in Nat /\ c - 1 \in Nat /\ b - 1 <= c - 1 /\ c - 1 < (b - 1) + Active
    BY <1>2, <1>5
  <2>2. (b - 1) % Active \in 0..(Active - 1) /\ (c - 1) % Active \in 0..(Active - 1)
    BY <1>2, <2>1, DivMod
  <2>3. (b - 1) % Active = (c - 1) % Active
    BY <1>2, <1>5, <2>2 DEF Owner
  <2>4. b - 1 = c - 1
    BY <1>2, <2>1, <2>3, SameRemainder
  <2> QED  BY <2>4
<1>6. ASSUME NEW w \in Spawned
      PROVE  Owner(w) = w
  <2>1. w - 1 \in 0..(Active - 1) /\ w - 1 \in Nat
    BY <1>2 DEF Spawned
  <2>2. (w - 1) % Active \in 0..(Active - 1)
    BY <1>2, <2>1, DivMod
  <2>3. (w - 1) % Active = w - 1
    BY <1>2, <2>1
  <2> QED  BY <1>2, <2>1, <2>3 DEF Owner, Spawned
<1> QED  BY <1>2, <1>3, <1>4, <1>5, <1>6

(* What is sent is a message.                                              *)
LEMMA MessageTypes ==
    /\ \A c \in Nat, recs \in Seq(Nat) : Batch(c, recs) \in Messages
    /\ \A c \in Nat : ChunkDone(c) \in Messages
    /\ \A c \in Nat, r \in Nat : Failed(c, r) \in Messages
<1>1. <<>> \in Seq(Nat)
  BY EmptySeq
<1> QED  BY <1>1 DEF Batch, ChunkDone, Failed, Messages

-----------------------------------------------------------------------------
LEMMA TypeInit == Init => TypeOK
<1> SUFFICES ASSUME Init PROVE TypeOK
  OBVIOUS
<1>1. WellFormed(doc)
  BY DocumentsAssumption DEF Init
<1>2. Workers \subseteq Nat
  BY DEF Workers
<1>3. /\ \A S : <<>> \in Seq(S)
      /\ Len(<<>>) = 0
  BY EmptySeq
<1>4. \A w \in Workers : Len(queue[w]) <= QueueDepth /\ Len(returns[w]) <= QueueDepth + 1
  BY <1>3, QueueDepthAssumption DEF Init
<1>5. /\ batch \in [Workers -> Seq(Nat)] /\ queue \in [Workers -> Seq(Messages)]
      /\ returns \in [Workers -> Seq(Seq(Nat))]
      /\ held \in Seq(Nat) /\ delivered \in Seq(Nat)
  BY <1>3 DEF Init
<1>6. /\ pc \in [Workers -> {"build", "read", "send", "reuse", "done", "fail", "exit"}]
      /\ after \in [Workers -> {"read", "done", "fail"}]
      /\ chunk \in [Workers -> Nat] /\ next \in [Workers -> Nat] /\ pool \in [Workers -> Nat]
  BY <1>2 DEF Init, BuildError
<1>7. at \in Nat \ {0} /\ error \in Nat
  BY DEF Init, BuildError
<1>8. returned \in BOOLEAN /\ result \in {"draining", "ok", "parse_error", "refused"}
  BY Zenon DEF Init
<1> QED  BY <1>1, <1>4, <1>5, <1>6, <1>7, <1>8 DEF TypeOK

(* A message sent, and a message received.                                 *)
LEMMA SendType ==
    ASSUME TypeOK, NEW w \in Workers, NEW m \in Messages, Len(queue[w]) < QueueDepth
    PROVE  /\ [queue EXCEPT ![w] = Append(@, m)] \in [Workers -> Seq(Messages)]
           /\ \A v \in Workers : Len([queue EXCEPT ![w] = Append(@, m)][v]) <= QueueDepth
<1>1. /\ queue \in [Workers -> Seq(Messages)] /\ QueueDepth \in Nat
      /\ \A v \in Workers : Len(queue[v]) <= QueueDepth
  BY QueueDepthAssumption DEF TypeOK
<1>2. Append(queue[w], m) \in Seq(Messages) /\ Len(Append(queue[w], m)) = Len(queue[w]) + 1
  BY <1>1
<1>3. Len(queue[w]) \in Nat
  BY <1>1
<1> QED  BY <1>1, <1>2, <1>3

LEMMA ReceiveType ==
    ASSUME TypeOK, NEW w \in Workers, queue[w] # <<>>
    PROVE  /\ Head(queue[w]) \in Messages
           /\ [queue EXCEPT ![w] = Tail(@)] \in [Workers -> Seq(Messages)]
           /\ \A v \in Workers : Len([queue EXCEPT ![w] = Tail(@)][v]) <= QueueDepth
<1>1. /\ queue \in [Workers -> Seq(Messages)] /\ QueueDepth \in Nat
      /\ \A v \in Workers : Len(queue[v]) <= QueueDepth
  BY QueueDepthAssumption DEF TypeOK
<1>2. /\ Head(queue[w]) \in Messages
      /\ Tail(queue[w]) \in Seq(Messages) /\ Len(Tail(queue[w])) = Len(queue[w]) - 1
      /\ Len(queue[w]) \in Nat
  BY <1>1, HeadTailProperties, LenProperties
<1> QED  BY <1>1, <1>2

(* drain ends: nothing is queued any more.                                 *)
LEMMA CloseType ==
    ASSUME TypeOK, NEW outcome, Close(outcome)
    PROVE  /\ queue' \in [Workers -> Seq(Messages)]
           /\ \A v \in Workers : Len(queue'[v]) <= QueueDepth
           /\ result' = outcome
<1>1. <<>> \in Seq(Messages) /\ Len(<<>>) = 0
  BY EmptySeq
<1> QED  BY <1>1, QueueDepthAssumption DEF Close

(* Every step of a worker, of the consumer and of the caller keeps types.  *)
LEMMA WorkType ==
    ASSUME TypeOK, NEW w \in Spawned, Work(w)
    PROVE  TypeOK'
<1>0. WellFormed(doc)
  BY DEF TypeOK
<1>1. /\ doc.first \in Seq(Nat) /\ doc.size \in Nat
      /\ w \in Workers /\ Active \in Nat /\ w \in Chunks(doc)
  BY <1>0, Dealt DEF WellFormed
<1>2. \A c \in Chunks(doc) : doc.first[c] \in Nat
  BY <1>1, ElementOfSeq DEF Chunks
<1>3. /\ chunk[w] \in Nat /\ next[w] \in Nat /\ batch[w] \in Seq(Nat) /\ pool[w] \in Nat
      /\ after[w] \in {"read", "done", "fail"}
      /\ queue[w] \in Seq(Messages) /\ returns[w] \in Seq(Seq(Nat))
      /\ <<>> \in Seq(Nat)
  BY <1>1, EmptySeq DEF TypeOK
<1>4. CASE Build(w)
  BY <1>1, <1>2, <1>4 DEF Build, TypeOK, consumer
<1>5. CASE ReadRecord(w)
  <2>1. Append(batch[w], next[w]) \in Seq(Nat)
    BY <1>3
  <2>2. Popped(pool[w]) \in Nat
    BY <1>3 DEF Popped
  <2>3. batch' \in [Workers -> Seq(Nat)] /\ pool' \in [Workers -> Nat] /\ next' \in [Workers -> Nat]
    BY SMTT(30), <1>1, <1>3, <1>5, <2>1, <2>2 DEF ReadRecord, TypeOK
  <2>4. /\ pc' \in [Workers -> {"build", "read", "send", "reuse", "done", "fail", "exit"}]
        /\ after' \in [Workers -> {"read", "done", "fail"}]
    BY <1>5 DEF ReadRecord, TypeOK
  <2> QED  BY <1>5, <2>3, <2>4 DEF ReadRecord, TypeOK, consumer
<1>6. CASE ReadFailure(w)
  <2>1. Popped(pool[w]) \in Nat
    BY <1>3 DEF Popped
  <2> QED  BY <1>1, <1>6, <2>1 DEF ReadFailure, TypeOK, consumer
<1>7. CASE ReadNothing(w)
  BY <1>1, <1>7 DEF ReadNothing, TypeOK, consumer
<1>8. CASE SendBatch(w)
  <2>1. batch' \in [Workers -> Seq(Nat)]
    BY <1>3, <1>8 DEF SendBatch, TypeOK
  <2>2. /\ queue' \in [Workers -> Seq(Messages)]
        /\ \A v \in Workers : Len(queue'[v]) <= QueueDepth
        /\ pc' \in [Workers -> {"build", "read", "send", "reuse", "done", "fail", "exit"}]
    <3>1. CASE Open
      <4>1. Batch(chunk[w], batch[w]) \in Messages
        BY <1>3, MessageTypes
      <4>2. queue' = [queue EXCEPT ![w] = Append(@, Batch(chunk[w], batch[w]))]
            /\ Len(queue[w]) < QueueDepth /\ pc' = [pc EXCEPT ![w] = "reuse"]
        BY <1>8, <3>1 DEF SendBatch
      <4> QED  BY <1>1, <4>1, <4>2, SendType DEF TypeOK
    <3>2. CASE ~Open
      BY <1>8, <3>2 DEF SendBatch, TypeOK
    <3> QED  BY <3>1, <3>2
  <2> QED  BY <1>8, <2>1, <2>2 DEF SendBatch, TypeOK, consumer
<1>9. CASE Reuse(w)
  <2>1. batch' \in [Workers -> Seq(Nat)]
    BY <1>3, <1>9 DEF Reuse, TypeOK
  <2>2. pc' \in [Workers -> {"build", "read", "send", "reuse", "done", "fail", "exit"}]
    BY <1>1, <1>9 DEF Reuse, TypeOK
  <2>3. /\ returns' \in [Workers -> Seq(Seq(Nat))] /\ pool' \in [Workers -> Nat]
        /\ \A v \in Workers : Len(returns'[v]) <= QueueDepth + 1
    <3>1. CASE returns[w] = <<>>
      BY <1>9, <3>1 DEF Reuse, TypeOK
    <3>2. CASE returns[w] # <<>>
      <4>1. /\ returns' = [returns EXCEPT ![w] = Tail(@)]
            /\ pool' = [pool EXCEPT ![w] = IF after[w] = "fail" THEN @ ELSE @ + Len(Head(returns[w]))]
        BY <1>9, <3>2 DEF Reuse
      <4>2. /\ Head(returns[w]) \in Seq(Nat) /\ Tail(returns[w]) \in Seq(Seq(Nat))
            /\ Len(Tail(returns[w])) = Len(returns[w]) - 1 /\ Len(returns[w]) \in Nat
        BY <1>3, <3>2, HeadTailProperties, LenProperties
      <4>3. Len(Head(returns[w])) \in Nat
        BY <4>2, LenProperties
      <4>4. pool' \in [Workers -> Nat]
        <5>1. pool[w] + Len(Head(returns[w])) \in Nat
          BY <1>3, <4>3
        <5>2. CASE after[w] = "fail"
          BY <4>1, <5>2 DEF TypeOK
        <5>3. CASE after[w] # "fail"
          BY <4>1, <5>1, <5>3 DEF TypeOK
        <5> QED  BY <5>2, <5>3
      <4>5. returns' \in [Workers -> Seq(Seq(Nat))]
        BY <4>1, <4>2 DEF TypeOK
      <4>6. ASSUME NEW v \in Workers
            PROVE  Len(returns'[v]) <= QueueDepth + 1
        <5>1. returns'[v] = IF v = w THEN Tail(returns[w]) ELSE returns[v]
          BY <1>1, <4>1 DEF TypeOK
        <5>2. Len(returns[v]) <= QueueDepth + 1 /\ Len(returns[w]) <= QueueDepth + 1
          BY <1>1 DEF TypeOK
        <5> QED  BY <4>2, <5>1, <5>2, QueueDepthAssumption
      <4> QED  BY <4>4, <4>5, <4>6
    <3> QED  BY <3>1, <3>2
  <2> QED  BY <1>9, <2>1, <2>2, <2>3 DEF Reuse, TypeOK, consumer
<1>10. CASE SendDone(w)
  <2>1. CASE Open
    <3>1. ChunkDone(chunk[w]) \in Messages
      BY <1>3, MessageTypes
    <3>2. /\ queue' = [queue EXCEPT ![w] = Append(@, ChunkDone(chunk[w]))]
          /\ Len(queue[w]) < QueueDepth
          /\ chunk' = [chunk EXCEPT ![w] = @ + Active]
          /\ IF chunk'[w] \in Chunks(doc)
               THEN next' = [next EXCEPT ![w] = doc.first[chunk'[w]]] ELSE UNCHANGED next
          /\ pc' \in [Workers -> {"build", "read", "send", "reuse", "done", "fail", "exit"}]
      BY ZenonT(60), <1>10, <2>1 DEF SendDone, TypeOK
    <3>3. /\ queue' \in [Workers -> Seq(Messages)]
          /\ \A v \in Workers : Len(queue'[v]) <= QueueDepth
      BY <1>1, <3>1, <3>2, SendType
    <3>4. chunk' \in [Workers -> Nat]
      <4>1. chunk[w] + Active \in Nat
        BY <1>1, <1>3
      <4> QED  BY <3>2, <4>1 DEF TypeOK
    <3>5. next' \in [Workers -> Nat]
      <4>1. CASE chunk'[w] \in Chunks(doc)
        <5>1. doc.first[chunk'[w]] \in Nat /\ next' = [next EXCEPT ![w] = doc.first[chunk'[w]]]
          BY <1>2, <3>2, <4>1
        <5> QED  BY <5>1 DEF TypeOK
      <4>2. CASE chunk'[w] \notin Chunks(doc)
        BY <3>2, <4>2 DEF TypeOK
      <4> QED  BY <4>1, <4>2
    <3> QED  BY <1>10, <3>2, <3>3, <3>4, <3>5 DEF SendDone, TypeOK, consumer
  <2>2. CASE ~Open
    BY <1>10, <2>2 DEF SendDone, TypeOK, consumer
  <2> QED  BY <2>1, <2>2
<1>11. CASE SendFailed(w)
  <2>1. /\ queue' \in [Workers -> Seq(Messages)]
        /\ \A v \in Workers : Len(queue'[v]) <= QueueDepth
    <3>1. CASE Open
      <4>1. Failed(chunk[w], next[w]) \in Messages
        BY <1>3, MessageTypes
      <4>2. queue' = [queue EXCEPT ![w] = Append(@, Failed(chunk[w], next[w]))]
            /\ Len(queue[w]) < QueueDepth
        BY <1>11, <3>1 DEF SendFailed
      <4> QED  BY <1>1, <4>1, <4>2, SendType
    <3>2. CASE ~Open
      BY <1>11, <3>2 DEF SendFailed, TypeOK
    <3> QED  BY <3>1, <3>2
  <2> QED  BY <1>11, <2>1 DEF SendFailed, TypeOK, consumer
<1> QED  BY <1>4, <1>5, <1>6, <1>7, <1>8, <1>9, <1>10, <1>11 DEF Work

LEMMA DrainType ==
    ASSUME TypeOK, Drain
    PROVE  TypeOK'
<1>1. /\ WellFormed(doc) /\ at \in Nat \ {0} /\ <<>> \in Seq(Nat)
      /\ Owner(at) \in Workers /\ held \in Seq(Nat) /\ delivered \in Seq(Nat)
  BY Dealt, EmptySeq DEF TypeOK
<1>2. CASE Receive
  <2> DEFINE w == Owner(at)
             message == Head(queue[w])
  <2>1. CASE queue[w] = <<>>
    <3>1. Close("ok") /\ UNCHANGED <<doc, worker, returns, delivered, returned, at, held, error>>
      BY <1>2, <2>1 DEF Receive
    <3> QED  BY <3>1, CloseType DEF TypeOK, worker
  <2>2. CASE queue[w] # <<>>
    <3>1. /\ message \in Messages
          /\ [queue EXCEPT ![w] = Tail(@)] \in [Workers -> Seq(Messages)]
          /\ \A v \in Workers : Len([queue EXCEPT ![w] = Tail(@)][v]) <= QueueDepth
      BY <1>1, <2>2, ReceiveType
    <3>2. UNCHANGED <<doc, worker, returns, delivered, returned>>
      BY <1>2 DEF Receive
    <3>3. message.recs \in Seq(Nat) /\ message.rec \in Nat
      BY <3>1 DEF Messages
    <3>4. CASE message.kind = "batch"
      <4>1. held' = message.recs /\ queue' = [queue EXCEPT ![w] = Tail(@)]
            /\ UNCHANGED <<at, result, error>>
        BY <1>2, <2>2, <3>4 DEF Receive
      <4> QED  BY <3>1, <3>2, <3>3, <4>1 DEF TypeOK, worker
    <3>5. CASE message.kind = "done"
      <4>1. at' = at + 1 /\ queue' = [queue EXCEPT ![w] = Tail(@)]
            /\ UNCHANGED <<held, result, error>>
        BY <1>2, <2>2, <3>5 DEF Receive
      <4> QED  BY <1>1, <3>1, <3>2, <4>1 DEF TypeOK, worker
    <3>6. CASE message.kind = "failed"
      <4>1. Close("parse_error") /\ error' = message.rec /\ UNCHANGED <<at, held>>
        BY <1>2, <2>2, <3>6 DEF Receive
      <4> QED  BY <3>2, <3>3, <4>1, CloseType DEF TypeOK, worker
    <3> QED  BY <3>1, <3>4, <3>5, <3>6 DEF Messages
  <2> QED  BY <2>1, <2>2
<1>3. CASE Accept
  <2>1. delivered' \in Seq(Nat)
    BY <1>1, <1>3, ConcatProperties DEF Accept
  <2>2. PICK left \in {<<>>, held} :
           returns' = [returns EXCEPT ![Owner(at)] =
                          IF pc[Owner(at)] # "exit" /\ Len(@) < QueueDepth + 1
                            THEN Append(@, left) ELSE @]
    BY <1>3 DEF Accept
  <2>3. /\ Append(returns[Owner(at)], left) \in Seq(Seq(Nat))
        /\ Len(Append(returns[Owner(at)], left)) = Len(returns[Owner(at)]) + 1
        /\ Len(returns[Owner(at)]) \in Nat
    <3>1. returns[Owner(at)] \in Seq(Seq(Nat))
      BY <1>1 DEF TypeOK
    <3>2. left \in Seq(Nat)
      BY <1>1
    <3> QED  BY <3>1, <3>2, AppendProperties, LenProperties
  <2>4. returns' \in [Workers -> Seq(Seq(Nat))]
    BY <1>1, <2>2, <2>3 DEF TypeOK
  <2>5. ASSUME NEW v \in Workers
        PROVE  Len(returns'[v]) <= QueueDepth + 1
    <3>1. returns[v] \in Seq(Seq(Nat)) /\ Len(returns[v]) <= QueueDepth + 1
      BY DEF TypeOK
    <3>2. CASE v = Owner(at)
      <4>1. Len(returns[v]) \in Nat /\ QueueDepth \in Nat
        BY <2>3, <3>2, QueueDepthAssumption
      <4>2. \/ returns'[v] = returns[v]
            \/ Len(returns[v]) < QueueDepth + 1 /\ returns'[v] = Append(returns[v], left)
        BY <1>1, <2>2, <3>2 DEF TypeOK
      <4> QED  BY <2>3, <3>1, <3>2, <4>1, <4>2
    <3>3. CASE v # Owner(at)
      BY <2>2, <3>1, <3>3 DEF TypeOK
    <3> QED  BY <3>2, <3>3
  <2> QED  BY <1>1, <1>3, <2>1, <2>4, <2>5 DEF Accept, TypeOK, worker
<1>4. CASE Refuse
  <2>1. delivered' \in Seq(Nat)
    BY <1>1, <1>4, ConcatProperties DEF Refuse
  <2> QED  BY <1>1, <1>4, <2>1, CloseType DEF Refuse, TypeOK, worker
<1>5. CASE Drained
  BY <1>5, CloseType DEF Drained, TypeOK, worker
<1> QED  BY <1>2, <1>3, <1>4, <1>5 DEF Drain

-----------------------------------------------------------------------------
(* The state of one worker, and what the invariant of another one reads.   *)
Own(w) == <<pc[w], after[w], chunk[w], next[w], batch[w], queue[w]>>
Shared == <<doc, at, delivered, held>>

(* Nothing changes for a worker that does not move.                        *)
LEMMA Elsewhere ==
    ASSUME NEW v, UNCHANGED Own(v), UNCHANGED Shared, Placed(v), Chained(v)
    PROVE  Placed(v)' /\ Chained(v)'
<1>1. /\ pc'[v] = pc[v] /\ after'[v] = after[v] /\ chunk'[v] = chunk[v] /\ next'[v] = next[v]
      /\ batch'[v] = batch[v] /\ queue'[v] = queue[v]
  BY DEF Own
<1>2. doc' = doc /\ at' = at /\ delivered' = delivered /\ held' = held
  BY DEF Shared
<1>3. Placed(v)'
  BY ZenonT(60), <1>1, <1>2 DEF Placed, InChunk, Onward, Owner, Active, Run
<1>4. Here(v)' = Here(v)
  BY <1>1, <1>2 DEF Here
<1>5. Chained(v)'
  BY <1>1, <1>2, <1>4 DEF Chained, Sound, Leads, From, NextChunk, NextRecord, Expected,
                          Received, Owner, Active, Run
<1> QED  BY <1>3, <1>5

(* A worker that sends nothing and is still at the same place.             *)
LEMMA Moved ==
    ASSUME NEW w, queue'[w] = queue[w], chunk'[w] = chunk[w], Here(w)' = Here(w),
           UNCHANGED Shared, pc[w] # "exit", Chained(w)
    PROVE  Chained(w)'
<1>1. doc' = doc /\ at' = at /\ delivered' = delivered /\ held' = held
  BY DEF Shared
<1> QED  BY <1>1 DEF Chained, Sound, Leads, From, NextChunk, NextRecord, Expected,
                     Received, Owner, Active, Run

(* A message that starts where the worker is, and that leads to where it   *)
(* goes or is its last.                                                    *)
LEMMA Sent ==
    ASSUME TypeOK, NEW w \in Workers, NEW m \in Messages, queue'[w] = Append(queue[w], m),
           UNCHANGED Shared, pc[w] # "exit", Chained(w),
           Sound(w, m), m.chunk = chunk[w], From(m) = Here(w),
           \/ m.kind = "failed" /\ pc'[w] = "exit"
           \/ m.kind # "failed" /\ Leads(m, chunk'[w], Here(w)')
    PROVE  Chained(w)'
<1> DEFINE q == queue[w]
           n == Len(q)
           p == queue'[w]
<1>1. q \in Seq(Messages) /\ n \in Nat
  BY LenProperties DEF TypeOK
<1>2. /\ Len(p) = n + 1 /\ p[n + 1] = m /\ \A i \in 1..n : p[i] = q[i]
  BY <1>1
<1>3. doc' = doc /\ at' = at /\ delivered' = delivered /\ held' = held
  BY DEF Shared
<1>4. /\ \A i \in 1..n : Sound(w, q[i])
      /\ \A i \in 1..(n - 1) : Leads(q[i], q[i + 1].chunk, From(q[i + 1]))
      /\ n = 0 => Expected(chunk[w], Here(w))
      /\ n # 0 => Expected(q[1].chunk, From(q[1])) /\ Leads(q[n], chunk[w], Here(w))
  BY DEF Chained, Leads
<1> HIDE DEF q, n, p
<1>5. \A i \in 1..(n + 1) : Sound(w, p[i])
  BY <1>1, <1>2, <1>4
<1>6. ASSUME NEW i \in 1..n
      PROVE  Leads(p[i], p[i + 1].chunk, From(p[i + 1]))
  <2>1. CASE i = n
    <3>1. p[i] = q[n] /\ p[i + 1] = m /\ n # 0
      BY <1>1, <1>2, <2>1
    <3> QED  BY <1>4, <3>1
  <2>2. CASE i # n
    <3>1. i \in 1..(n - 1) /\ p[i] = q[i] /\ p[i + 1] = q[i + 1]
      BY SMTT(30), <1>1, <1>2, <2>2
    <3> QED  BY <1>4, <3>1
  <2> QED  BY <2>1, <2>2
<1>7. Expected(p[1].chunk, From(p[1]))
  <2>1. CASE n = 0
    <3>1. p[1] = m
      BY <1>2, <2>1
    <3> QED  BY <1>4, <2>1, <3>1
  <2>2. CASE n # 0
    <3>1. p[1] = q[1]
      BY <1>1, <1>2, <2>2
    <3> QED  BY <1>4, <2>2, <3>1
  <2> QED  BY <2>1, <2>2
<1>8. /\ \A i \in 1..Len(p) : Sound(w, p[i])
      /\ \A i \in 1..(Len(p) - 1) : Leads(p[i], p[i + 1].chunk, From(p[i + 1]))
      /\ Len(p) # 0 /\ Expected(p[1].chunk, From(p[1]))
      /\ IF p[Len(p)].kind = "failed" THEN pc'[w] = "exit"
         ELSE Leads(p[Len(p)], chunk'[w], Here(w)')
  <2>1. Len(p) - 1 = n /\ Len(p) # 0 /\ p[Len(p)] = m
    BY <1>1, <1>2
  <2> QED  BY <1>2, <1>5, <1>6, <1>7, <2>1
<1>9. queue'[w] = p
  BY DEF p
<1>10. /\ \A x, c : Expected(c, x)' <=> Expected(c, x)
       /\ \A x : Sound(w, x)' <=> Sound(w, x)
       /\ \A x : From(x)' = From(x)
       /\ \A x, c, r : Leads(x, c, r)' <=> Leads(x, c, r)
  BY <1>3 DEF Sound, Leads, From, NextChunk, NextRecord, Expected, Received, Owner, Active, Run
<1> QED  BY <1>8, <1>9, <1>10 DEF Chained

(* A batch grows by the next record.                                       *)
LEMMA RunAppend ==
    ASSUME NEW b, NEW c, NEW n \in Records(doc) \ Failing(doc), doc.size \in Nat,
           Run(b, c), doc.first[c] <= n, n < ChunkEnd(doc, c),
           b # <<>> => b[1] = n - Len(b)
    PROVE  /\ Run(Append(b, n), c)
           /\ Len(Append(b, n)) = Len(b) + 1
           /\ Append(b, n)[1] = (n + 1) - Len(Append(b, n))
<1>1. b \in Seq(Nat) /\ Len(b) \in Nat /\ n \in Nat
  BY LenProperties DEF Run, Records
<1>2. /\ Append(b, n) \in Seq(Nat) /\ Len(Append(b, n)) = Len(b) + 1
      /\ \A i \in 1..Len(b) : Append(b, n)[i] = b[i]
      /\ Append(b, n)[Len(b) + 1] = n
  BY <1>1
<1>3. Append(b, n)[1] = n - Len(b)
  <2>1. CASE b = <<>>
    <3>1. Len(b) = 0
      BY <2>1, EmptySeq
    <3> QED  BY <1>1, <1>2, <3>1
  <2>2. CASE b # <<>>
    <3>1. 1 \in 1..Len(b)
      BY <1>1, <2>2, EmptySeq
    <3> QED  BY <1>2, <2>2, <3>1
  <2> QED  BY <2>1, <2>2
<1>4. Append(b, n)[1] = (n + 1) - Len(Append(b, n))
  BY <1>1, <1>2, <1>3
<1>5. ASSUME NEW i \in 1..(Len(b) + 1)
      PROVE  /\ Append(b, n)[i] = Append(b, n)[1] + i - 1
             /\ Append(b, n)[i] \in Records(doc) \ Failing(doc)
             /\ doc.first[c] <= Append(b, n)[i] /\ Append(b, n)[i] < ChunkEnd(doc, c)
  <2>1. CASE i \in 1..Len(b)
    <3>1. /\ Append(b, n)[i] = b[i] /\ b # <<>> /\ b[i] = b[1] + i - 1
          /\ b[i] \in Records(doc) \ Failing(doc)
          /\ doc.first[c] <= b[i] /\ b[i] < ChunkEnd(doc, c)
      BY <1>1, <1>2, <2>1, EmptySeq DEF Run
    <3>2. b[1] = n - Len(b)
      BY <3>1
    <3> QED  BY <1>3, <3>1, <3>2
  <2>2. CASE i = Len(b) + 1
    BY <1>1, <1>2, <1>3, <2>2
  <2> QED  BY <1>1, <2>1, <2>2
<1> DEFINE p == Append(b, n)
<1> HIDE DEF p
<1>6. Run(p, c)
  BY <1>1, <1>2, <1>5 DEF Run, p
<1> QED  BY <1>2, <1>4, <1>6 DEF p

(* Where a worker that is not done is.                                     *)
LEMMA WorkerTypes ==
    ASSUME TypeOK, NEW w \in Spawned, Placed(w), pc[w] # "exit"
    PROVE  /\ w \in Workers /\ doc.size \in Nat /\ Len(doc.first) \in Nat \ {0}
           /\ chunk[w] \in Chunks(doc) /\ chunk[w] \in Nat \ {0} /\ Owner(chunk[w]) = w
           /\ next[w] \in Nat /\ batch[w] \in Seq(Nat) /\ Len(batch[w]) \in Nat
           /\ queue[w] \in Seq(Messages)
           /\ doc.first[chunk[w]] \in 1..(doc.size + 1)
           /\ ChunkEnd(doc, chunk[w]) \in 1..(doc.size + 1)
           /\ doc.first[chunk[w]] < ChunkEnd(doc, chunk[w]) \/ doc.size = 0
           /\ doc.size = 0 => ChunkEnd(doc, chunk[w]) = 1 /\ doc.first[chunk[w]] = 1
<1>1. WellFormed(doc)
  BY DEF TypeOK
<1>2. w \in Workers /\ chunk[w] \in Chunks(doc) /\ chunk[w] \in Nat \ {0} /\ Owner(chunk[w]) = w
  BY <1>1, Dealt DEF Placed
<1>3. /\ next[w] \in Nat /\ batch[w] \in Seq(Nat) /\ Len(batch[w]) \in Nat
      /\ queue[w] \in Seq(Messages)
  BY <1>2, LenProperties DEF TypeOK
<1>4. /\ doc.size \in Nat /\ Len(doc.first) \in Nat \ {0}
      /\ doc.first[chunk[w]] \in 1..(doc.size + 1)
      /\ ChunkEnd(doc, chunk[w]) \in 1..(doc.size + 1)
      /\ doc.first[chunk[w]] < ChunkEnd(doc, chunk[w]) \/ doc.size = 0
  BY <1>1, <1>2, ChunkBounds
<1> QED  BY <1>2, <1>3, <1>4

(* A worker that goes on within its chunk.                                 *)
LEMMA StillInChunk ==
    ASSUME NEW w, doc' = doc, chunk'[w] = chunk[w],
           doc.first[chunk[w]] <= next'[w], next'[w] <= ChunkEnd(doc, chunk[w]),
           Run(batch'[w], chunk[w]),
           batch'[w] # <<>> => batch'[w][1] = next'[w] - Len(batch'[w])
    PROVE  InChunk(w)'
<1>1. Run(batch[w], chunk[w])'
  BY DEF Run
<1>2. ChunkEnd(doc, chunk[w])' = ChunkEnd(doc, chunk[w])
  OBVIOUS
<1> QED  BY <1>1, <1>2 DEF InChunk

-----------------------------------------------------------------------------
LEMMA BuildKeeps ==
    ASSUME TypeOK, NEW w \in Spawned, Placed(w), Chained(w), Build(w)
    PROVE  Placed(w)' /\ Chained(w)'
<1>1. pc[w] = "build" /\ batch[w] = <<>> /\ next[w] = BuildError
  BY DEF Build, Placed
<1>2. /\ w \in Workers /\ chunk[w] \in Chunks(doc) /\ chunk[w] \in Nat \ {0} /\ Owner(chunk[w]) = w
      /\ doc.size \in Nat
      /\ doc.first[chunk[w]] \in 1..(doc.size + 1)
      /\ ChunkEnd(doc, chunk[w]) \in 1..(doc.size + 1)
      /\ doc.first[chunk[w]] < ChunkEnd(doc, chunk[w]) \/ doc.size = 0
      /\ doc.size = 0 => ChunkEnd(doc, chunk[w]) = 1 /\ doc.first[chunk[w]] = 1
  BY <1>1, WorkerTypes
<1>3. /\ UNCHANGED <<doc, after, chunk, batch, pool, queue, returns, consumer, returned>>
      /\ UNCHANGED Shared
  BY DEF Build, Shared, consumer
<1>4. CASE pc' = [pc EXCEPT ![w] = "read"] /\ next' = [next EXCEPT ![w] = doc.first[w]]
  <2>1. pc'[w] = "read" /\ next'[w] = doc.first[w]
    BY <1>2, <1>4 DEF TypeOK
  <2>2. chunk[w] = w
    BY <1>1 DEF Placed
  <2>3. Run(batch[w], chunk[w]) /\ Len(batch[w]) = 0
    BY <1>1, EmptySeq DEF Run
  <2>4. Here(w)' = Here(w)
    BY <1>1, <1>2, <1>3, <2>1, <2>2, <2>3 DEF Here, BuildError
  <2>5. Placed(w)'
    <3>1. InChunk(w)'
      <4>1. /\ doc.first[chunk[w]] <= next'[w] /\ next'[w] <= ChunkEnd(doc, chunk[w])
            /\ doc' = doc /\ chunk'[w] = chunk[w] /\ batch'[w] = batch[w]
        BY <1>2, <1>3, <2>1, <2>2
      <4> QED  BY <1>1, <2>3, <4>1, StillInChunk
    <3>2. next'[w] < ChunkEnd(doc, chunk[w]) \/ (doc.size = 0 /\ next'[w] = 1)
      BY <1>2, <2>1, <2>2
    <3>3. Len(batch'[w]) < Capacity
      BY <1>3, <2>3, CapacityAssumption
    <3> QED  BY <1>2, <1>3, <2>1, <3>1, <3>2, <3>3 DEF Placed, Owner, Active
  <2> QED  BY <1>1, <1>3, <2>4, <2>5, Moved
<1>5. CASE BuildMayFail /\ pc' = [pc EXCEPT ![w] = "fail"] /\ next' = next
  <2>1. pc'[w] = "fail" /\ next'[w] = BuildError
    BY <1>1, <1>2, <1>5 DEF TypeOK
  <2>2. Here(w)' = Here(w)
    BY <1>1, <1>3, <1>5 DEF Here
  <2>3. Placed(w)'
    BY <1>1, <1>2, <1>3, <1>5, <2>1 DEF Placed, Owner, Active
  <2> QED  BY <1>1, <1>3, <2>2, <2>3, Moved
<1> QED  BY <1>4, <1>5 DEF Build

LEMMA ReadRecordKeeps ==
    ASSUME TypeOK, NEW w \in Spawned, Placed(w), Chained(w), ReadRecord(w)
    PROVE  Placed(w)' /\ Chained(w)'
<1>1. pc[w] = "read" /\ next[w] \in Records(doc) \ Failing(doc)
  BY DEF ReadRecord
<1>2. /\ w \in Workers /\ chunk[w] \in Chunks(doc) /\ chunk[w] \in Nat \ {0} /\ Owner(chunk[w]) = w
      /\ doc.size \in Nat /\ next[w] \in Nat \ {0} /\ batch[w] \in Seq(Nat) /\ Len(batch[w]) \in Nat
      /\ doc.first[chunk[w]] \in 1..(doc.size + 1)
      /\ ChunkEnd(doc, chunk[w]) \in 1..(doc.size + 1)
  BY <1>1, WorkerTypes DEF Records
<1>3. /\ InChunk(w) /\ Len(batch[w]) < Capacity /\ next[w] < ChunkEnd(doc, chunk[w])
  BY <1>1, <1>2 DEF Placed, Records
<1>4. /\ UNCHANGED Shared /\ doc' = doc /\ chunk' = chunk /\ queue' = queue
      /\ batch'[w] = Append(batch[w], next[w]) /\ next'[w] = next[w] + 1
  BY <1>2 DEF ReadRecord, TypeOK, Shared, consumer
<1>5. /\ Run(batch'[w], chunk[w])
      /\ Len(batch'[w]) = Len(batch[w]) + 1
      /\ batch'[w][1] = next'[w] - Len(batch'[w])
  <2>1. /\ Run(batch[w], chunk[w]) /\ doc.first[chunk[w]] <= next[w]
        /\ batch[w] # <<>> => batch[w][1] = next[w] - Len(batch[w])
    BY <1>3 DEF InChunk
  <2>2. /\ Run(Append(batch[w], next[w]), chunk[w])
        /\ Len(Append(batch[w], next[w])) = Len(batch[w]) + 1
        /\ Append(batch[w], next[w])[1] = (next[w] + 1) - Len(Append(batch[w], next[w]))
    BY <1>1, <1>2, <1>3, <2>1, RunAppend
  <2> QED  BY <1>4, <2>2
<1>6. InChunk(w)'
  <2>1. doc.first[chunk[w]] <= next'[w] /\ next'[w] <= ChunkEnd(doc, chunk[w])
    BY <1>2, <1>3, <1>4 DEF InChunk
  <2> QED  BY <1>4, <1>5, <2>1, StillInChunk
<1>7. Here(w)' = Here(w)
  BY <1>2, <1>4, <1>5 DEF Here, BuildError
<1>8. Placed(w)'
  <2> DEFINE last == Reached(doc, chunk[w], next[w])
  <2>1. /\ pc'[w] = IF last \/ Len(batch'[w]) >= Capacity THEN "send" ELSE "read"
        /\ after'[w] = IF last THEN "done" ELSE "read"
    BY <1>2 DEF ReadRecord, TypeOK
  <2>2. last <=> next'[w] = ChunkEnd(doc, chunk[w])
    BY <1>2, <1>3, <1>4 DEF Reached
  <2>3. ~last => next'[w] < ChunkEnd(doc, chunk[w])
    BY <1>2, <1>3, <1>4 DEF Reached
  <2>4. Len(batch'[w]) \in 1..Capacity
    BY <1>2, <1>3, <1>5, CapacityAssumption
  <2> HIDE DEF last
  <2>5. CASE pc'[w] = "send"
    <3>1. Onward(w)'
      BY <1>4, <2>1, <2>2, <2>3 DEF Onward
    <3> QED  BY <1>2, <1>4, <1>6, <2>4, <2>5, <3>1 DEF Placed, Owner, Active
  <2>6. CASE pc'[w] = "read"
    <3>1. Len(batch'[w]) < Capacity /\ next'[w] < ChunkEnd(doc, chunk[w])
      BY <2>1, <2>3, <2>4, <2>6, CapacityAssumption
    <3> QED  BY <1>2, <1>4, <1>6, <2>6, <3>1 DEF Placed, Owner, Active
  <2> QED  BY <2>1, <2>5, <2>6
<1>9. queue'[w] = queue[w] /\ chunk'[w] = chunk[w] /\ pc[w] # "exit"
  BY <1>1, <1>4
<1> QED  BY <1>4, <1>7, <1>8, <1>9, Moved

LEMMA ReadFailureKeeps ==
    ASSUME TypeOK, NEW w \in Spawned, Placed(w), Chained(w), ReadFailure(w)
    PROVE  Placed(w)' /\ Chained(w)'
<1>1. pc[w] = "read" /\ next[w] \in Failing(doc)
  BY DEF ReadFailure
<1>2. /\ w \in Workers /\ chunk[w] \in Chunks(doc) /\ chunk[w] \in Nat \ {0} /\ Owner(chunk[w]) = w
      /\ batch[w] \in Seq(Nat) /\ Len(batch[w]) \in Nat
  BY <1>1, WorkerTypes
<1>3. InChunk(w) /\ Len(batch[w]) < Capacity
  BY <1>1 DEF Placed
<1>4. /\ UNCHANGED Shared /\ doc' = doc /\ chunk' = chunk /\ queue' = queue
      /\ batch' = batch /\ next' = next
      /\ pc'[w] = (IF batch[w] = <<>> THEN "fail" ELSE "send") /\ after'[w] = "fail"
  BY <1>2 DEF ReadFailure, TypeOK, Shared, consumer
<1>5. InChunk(w)'
  BY <1>3, <1>4, StillInChunk DEF InChunk
<1>6. Here(w)' = Here(w)
  BY <1>4 DEF Here
<1>7. Placed(w)'
  <2>1. CASE batch[w] = <<>>
    <3>1. pc'[w] = "fail" /\ batch'[w] = <<>> /\ next'[w] \in Failing(doc)
      BY <1>1, <1>4, <2>1
    <3> QED  BY <1>2, <1>4, <1>5, <3>1 DEF Placed, Owner, Active
  <2>2. CASE batch[w] # <<>>
    <3>1. pc'[w] = "send" /\ Len(batch'[w]) \in 1..Capacity
      BY <1>2, <1>3, <1>4, <2>2, EmptySeq, CapacityAssumption
    <3>2. Onward(w)'
      BY <1>1, <1>4 DEF Onward
    <3> QED  BY <1>2, <1>4, <1>5, <3>1, <3>2 DEF Placed, Owner, Active
  <2> QED  BY <2>1, <2>2
<1>8. queue'[w] = queue[w] /\ chunk'[w] = chunk[w] /\ pc[w] # "exit"
  BY <1>1, <1>4
<1> QED  BY <1>4, <1>6, <1>7, <1>8, Moved

(* Only a document without records is at its end before a chunk is.        *)
LEMMA ReadNothingKeeps ==
    ASSUME TypeOK, NEW w \in Spawned, Placed(w), Chained(w), ReadNothing(w)
    PROVE  Placed(w)' /\ Chained(w)'
<1>1. pc[w] = "read" /\ next[w] > doc.size
  BY DEF ReadNothing
<1>2. /\ w \in Workers /\ chunk[w] \in Chunks(doc) /\ chunk[w] \in Nat \ {0} /\ Owner(chunk[w]) = w
      /\ doc.size \in Nat /\ next[w] \in Nat /\ batch[w] \in Seq(Nat) /\ Len(batch[w]) \in Nat
      /\ ChunkEnd(doc, chunk[w]) \in 1..(doc.size + 1)
      /\ doc.size = 0 => ChunkEnd(doc, chunk[w]) = 1
  BY <1>1, WorkerTypes
<1>3. InChunk(w) /\ doc.size = 0 /\ next[w] = ChunkEnd(doc, chunk[w])
  BY <1>1, <1>2 DEF Placed
<1>4. batch[w] = <<>>
  <2>1. Records(doc) = {}
    BY <1>3 DEF Records
  <2>2. \A i \in 1..Len(batch[w]) : batch[w][i] \in Records(doc)
    BY <1>3 DEF InChunk, Run
  <2>3. Len(batch[w]) = 0
    <3>1. 1 \notin 1..Len(batch[w])
      BY <2>1, <2>2
    <3> DEFINE n == Len(batch[w])
    <3>2. n \in Nat /\ 1 \notin 1..n
      BY <1>2, <3>1
    <3> HIDE DEF n
    <3>3. n = 0
      BY <3>2
    <3> QED  BY <3>3 DEF n
  <2> QED  BY <1>2, <2>3, EmptySeq
<1>5. /\ UNCHANGED Shared /\ doc' = doc /\ chunk' = chunk /\ queue' = queue
      /\ batch' = batch /\ next' = next /\ pc'[w] = "done"
  BY <1>2, <1>4 DEF ReadNothing, TypeOK, Shared, consumer
<1>6. InChunk(w)'
  BY <1>3, <1>5, StillInChunk DEF InChunk
<1>7. Here(w)' = Here(w)
  BY <1>5 DEF Here
<1>8. Placed(w)'
  <2>1. batch'[w] = <<>> /\ next'[w] = ChunkEnd(doc, chunk[w])
    BY <1>3, <1>4, <1>5
  <2> QED  BY <1>2, <1>5, <1>6, <2>1 DEF Placed, Owner, Active
<1>9. queue'[w] = queue[w] /\ chunk'[w] = chunk[w] /\ pc[w] # "exit"
  BY <1>1, <1>5
<1> QED  BY <1>5, <1>7, <1>8, <1>9, Moved

LEMMA ReuseKeeps ==
    ASSUME TypeOK, NEW w \in Spawned, Placed(w), Chained(w), Reuse(w)
    PROVE  Placed(w)' /\ Chained(w)'
<1>1. pc[w] = "reuse" /\ batch[w] = <<>> /\ InChunk(w) /\ Onward(w)
  BY DEF Reuse, Placed
<1>2. /\ w \in Workers /\ chunk[w] \in Chunks(doc) /\ chunk[w] \in Nat \ {0} /\ Owner(chunk[w]) = w
      /\ after[w] \in {"read", "done", "fail"}
  BY <1>1, WorkerTypes DEF TypeOK
<1>3. /\ UNCHANGED Shared /\ doc' = doc /\ chunk' = chunk /\ queue' = queue
      /\ batch'[w] = batch[w] /\ next' = next /\ after' = after /\ pc'[w] = after[w]
  BY <1>1, <1>2 DEF Reuse, TypeOK, Shared, consumer
<1>4. InChunk(w)'
  BY <1>1, <1>3, StillInChunk DEF InChunk
<1>5. Here(w)' = Here(w)
  BY <1>3 DEF Here
<1>6. Placed(w)'
  <2>1. CASE after[w] = "read"
    <3>1. Len(batch'[w]) < Capacity
      BY <1>1, <1>3, EmptySeq, CapacityAssumption
    <3>2. next'[w] < ChunkEnd(doc, chunk[w])
      BY <1>1, <1>3, <2>1 DEF Onward
    <3> QED  BY <1>2, <1>3, <1>4, <2>1, <3>1, <3>2 DEF Placed, Owner, Active
  <2>2. CASE after[w] = "done"
    <3>1. next'[w] = ChunkEnd(doc, chunk[w]) /\ batch'[w] = <<>>
      BY <1>1, <1>3, <2>2 DEF Onward
    <3> QED  BY <1>2, <1>3, <1>4, <2>2, <3>1 DEF Placed, Owner, Active
  <2>3. CASE after[w] = "fail"
    <3>1. next'[w] \in Failing(doc) /\ batch'[w] = <<>>
      BY <1>1, <1>3, <2>3 DEF Onward
    <3> QED  BY <1>2, <1>3, <1>4, <2>3, <3>1 DEF Placed, Owner, Active
  <2> QED  BY <1>2, <2>1, <2>2, <2>3
<1>7. queue'[w] = queue[w] /\ chunk'[w] = chunk[w] /\ pc[w] # "exit"
  BY <1>1, <1>3
<1> QED  BY <1>3, <1>5, <1>6, <1>7, Moved

LEMMA SendBatchKeeps ==
    ASSUME TypeOK, NEW w \in Spawned, Placed(w), Chained(w), Open, SendBatch(w)
    PROVE  Placed(w)' /\ Chained(w)'
<1> DEFINE m == Batch(chunk[w], batch[w])
<1>1. /\ pc[w] = "send" /\ InChunk(w) /\ Len(batch[w]) \in 1..Capacity /\ Onward(w)
  BY DEF SendBatch, Placed
<1>2. /\ w \in Workers /\ chunk[w] \in Chunks(doc) /\ chunk[w] \in Nat \ {0} /\ Owner(chunk[w]) = w
      /\ next[w] \in Nat /\ batch[w] \in Seq(Nat) /\ Len(batch[w]) \in Nat \ {0} /\ batch[w] # <<>>
      /\ doc.first[chunk[w]] \in 1..(doc.size + 1)
  BY <1>1, WorkerTypes, EmptySeq
<1>3. /\ UNCHANGED Shared /\ doc' = doc /\ chunk' = chunk /\ next' = next /\ after' = after
      /\ queue'[w] = Append(queue[w], m) /\ batch'[w] = <<>> /\ pc'[w] = "reuse"
  BY <1>2 DEF SendBatch, TypeOK, Shared, consumer
<1>4. InChunk(w)'
  <2>1. Run(<<>>, chunk[w])
    BY EmptySeq DEF Run
  <2>2. doc.first[chunk[w]] <= next'[w] /\ next'[w] <= ChunkEnd(doc, chunk[w])
    BY <1>1, <1>3 DEF InChunk
  <2> QED  BY <1>3, <2>1, <2>2, StillInChunk
<1>5. Placed(w)'
  <2>1. Onward(w)'
    BY <1>1, <1>3 DEF Onward
  <2> QED  BY <1>2, <1>3, <1>4, <2>1 DEF Placed, Owner, Active
<1>6. /\ next[w] \in Nat \ {0} /\ Run(batch[w], chunk[w])
      /\ batch[w][1] = next[w] - Len(batch[w])
      /\ batch[w][Len(batch[w])] = next[w] - 1
  <2>1. /\ doc.first[chunk[w]] <= next[w] /\ Run(batch[w], chunk[w])
        /\ batch[w][1] = next[w] - Len(batch[w])
    BY <1>1, <1>2 DEF InChunk
  <2>2. Len(batch[w]) \in 1..Len(batch[w])
    BY <1>2
  <2>3. batch[w][Len(batch[w])] = batch[w][1] + Len(batch[w]) - 1
    BY <2>1, <2>2 DEF Run
  <2>4. next[w] \in Nat \ {0}
    BY <1>2, <2>1
  <2>5. batch[w][Len(batch[w])] = next[w] - 1
    <3> DEFINE l == Len(batch[w])
    <3>1. l \in Nat /\ batch[w][1] = next[w] - l /\ batch[w][l] = batch[w][1] + l - 1
      BY <1>2, <2>1, <2>3
    <3> HIDE DEF l
    <3>2. batch[w][l] = next[w] - 1
      BY <2>4, <3>1
    <3> QED  BY <3>2 DEF l
  <2> QED  BY <2>1, <2>4, <2>5
<1>7. /\ m.kind = "batch" /\ m.chunk = chunk[w] /\ m.recs = batch[w] /\ m \in Messages
  BY <1>2, MessageTypes DEF Batch
<1>8. Here(w) = batch[w][1] /\ Here(w)' = next[w]
  <2>1. Len(<<>>) = 0
    BY EmptySeq
  <2>2. next[w] # BuildError
    BY <1>6 DEF BuildError
  <2> QED  BY <1>3, <1>6, <2>1, <2>2 DEF Here
<1> HIDE DEF m
<1>9. Sound(w, m)
  BY <1>1, <1>2, <1>6, <1>7 DEF Sound
<1>10. From(m) = Here(w)
  BY <1>7, <1>8 DEF From
<1>11. Leads(m, chunk'[w], Here(w)')
  <2>1. next[w] = batch[w][Len(batch[w])] + 1
    BY <1>6
  <2> QED  BY <1>3, <1>7, <1>8, <2>1 DEF Leads, NextChunk, NextRecord
<1>12. Chained(w)'
  <2>1. pc[w] # "exit" /\ m.kind # "failed"
    BY <1>1, <1>7
  <2> QED  BY <1>2, <1>3, <1>7, <1>9, <1>10, <1>11, <2>1, Sent
<1> QED  BY <1>5, <1>12

LEMMA SendDoneKeeps ==
    ASSUME TypeOK, NEW w \in Spawned, Placed(w), Chained(w), Open, SendDone(w)
    PROVE  Placed(w)' /\ Chained(w)'
<1> DEFINE m == ChunkDone(chunk[w])
<1>1. /\ pc[w] = "done" /\ InChunk(w) /\ next[w] = ChunkEnd(doc, chunk[w]) /\ batch[w] = <<>>
  BY DEF SendDone, Placed
<1>2. /\ w \in Workers /\ chunk[w] \in Chunks(doc) /\ chunk[w] \in Nat \ {0} /\ Owner(chunk[w]) = w
      /\ next[w] \in Nat /\ doc.size \in Nat /\ ChunkEnd(doc, chunk[w]) \in 1..(doc.size + 1)
  BY <1>1, WorkerTypes
<1>3. WellFormed(doc) /\ Active \in Nat /\ Len(<<>>) = 0
  BY Dealt, EmptySeq DEF TypeOK
<1>4. chunk[w] + Active \in Nat \ {0} /\ Owner(chunk[w] + Active) = w
  <2>1. \A c \in Nat \ {0} : Owner(c + Active) = Owner(c)
    BY <1>3, Dealt
  <2> QED  BY <1>2, <1>3, <2>1
<1>5. /\ UNCHANGED Shared /\ doc' = doc /\ batch' = batch
      /\ queue'[w] = Append(queue[w], m) /\ chunk'[w] = chunk[w] + Active
  BY <1>2 DEF SendDone, TypeOK, Shared, consumer
<1>6. m.kind = "done" /\ m.chunk = chunk[w] /\ m \in Messages
  BY <1>2, MessageTypes DEF ChunkDone
<1> HIDE DEF m
<1>7. Sound(w, m) /\ From(m) = Here(w)
  BY <1>1, <1>2, <1>3, <1>6 DEF Sound, From, Here, BuildError
<1>8. Placed(w)' /\ Leads(m, chunk'[w], Here(w)')
  <2>1. CASE chunk'[w] \in Chunks(doc)
    <3>1. pc'[w] = "read" /\ next'[w] = doc.first[chunk'[w]]
      BY <1>2, <2>1 DEF SendDone, TypeOK
    <3>2. /\ next'[w] \in 1..(doc.size + 1) /\ ChunkEnd(doc, chunk'[w]) \in 1..(doc.size + 1)
          /\ next'[w] < ChunkEnd(doc, chunk'[w]) \/ (doc.size = 0 /\ next'[w] = 1)
      BY <1>3, <2>1, <3>1, ChunkBounds
    <3>3. Here(w)' = doc.first[chunk'[w]]
      BY <1>1, <1>3, <1>5, <3>1, <3>2 DEF Here, BuildError
    <3>4. InChunk(w)'
      <4>2. ChunkEnd(doc', chunk'[w]) = ChunkEnd(doc, chunk'[w])
        BY <1>5
      <4>3. batch'[w] = <<>>
        BY <1>1, <1>5
      <4>4. Run(batch[w], chunk[w])'
        BY <4>3, EmptySeq DEF Run
      <4>5. doc.first[chunk'[w]] <= next'[w] /\ next'[w] <= ChunkEnd(doc, chunk'[w])
        BY <1>2, <3>1, <3>2
      <4> QED  BY <1>5, <4>2, <4>3, <4>4, <4>5 DEF InChunk
    <3>5. Len(batch'[w]) < Capacity
      BY <1>1, <1>3, <1>5, CapacityAssumption
    <3>6. Placed(w)'
      BY <1>4, <1>5, <2>1, <3>1, <3>2, <3>4, <3>5 DEF Placed, Owner, Active
    <3> QED  BY <1>5, <1>6, <3>3, <3>6 DEF Leads, NextChunk, NextRecord
  <2>2. CASE chunk'[w] \notin Chunks(doc)
    <3>1. pc'[w] = "exit"
      BY <1>2, <2>2 DEF SendDone, TypeOK
    <3>2. Placed(w)'
      BY <1>4, <1>5, <2>2, <3>1 DEF Placed, Owner, Active
    <3> QED  BY <1>5, <1>6, <2>2, <3>2 DEF Leads, NextChunk
  <2> QED  BY <2>1, <2>2
<1>9. Chained(w)'
  <2>1. pc[w] # "exit" /\ m.kind # "failed"
    BY <1>1, <1>6
  <2> QED  BY <1>2, <1>5, <1>6, <1>7, <1>8, <2>1, Sent
<1> QED  BY <1>8, <1>9

LEMMA SendFailedKeeps ==
    ASSUME TypeOK, NEW w \in Spawned, Placed(w), Chained(w), Open, SendFailed(w)
    PROVE  Placed(w)' /\ Chained(w)'
<1> DEFINE m == Failed(chunk[w], next[w])
<1>1. /\ pc[w] = "fail" /\ batch[w] = <<>>
      /\ \/ next[w] = BuildError /\ BuildMayFail
         \/ next[w] \in Failing(doc)
  BY DEF SendFailed, Placed
<1>2. /\ w \in Workers /\ chunk[w] \in Chunks(doc) /\ chunk[w] \in Nat \ {0} /\ Owner(chunk[w]) = w
      /\ next[w] \in Nat /\ queue[w] \in Seq(Messages)
  BY <1>1, WorkerTypes
<1>3. /\ UNCHANGED Shared /\ doc' = doc /\ chunk' = chunk /\ batch' = batch
      /\ queue'[w] = Append(queue[w], m) /\ pc'[w] = "exit"
  BY <1>2 DEF SendFailed, TypeOK, Shared, consumer
<1>4. m.kind = "failed" /\ m.chunk = chunk[w] /\ m.rec = next[w] /\ m \in Messages
  BY <1>2, MessageTypes DEF Failed
<1> HIDE DEF m
<1>5. Sound(w, m)
  BY <1>1, <1>2, <1>4 DEF Sound
<1>6. From(m) = Here(w)
  <2>1. Len(<<>>) = 0
    BY EmptySeq
  <2> QED  BY <1>1, <1>2, <1>4, <2>1 DEF From, Here
<1>7. queue'[w] # <<>> /\ queue'[w][Len(queue'[w])] = m
  <2>1. Append(queue[w], m) # <<>> /\ Append(queue[w], m)[Len(Append(queue[w], m))] = m
    BY <1>2, <1>4, AppendProperties
  <2> QED  BY <1>3, <2>1
<1>8. Placed(w)'
  BY <1>2, <1>3, <1>4, <1>7 DEF Placed, Owner, Active
<1>9. Chained(w)'
  <2>1. pc[w] # "exit"
    BY <1>1
  <2> QED  BY <1>2, <1>3, <1>4, <1>5, <1>6, <2>1, Sent
<1> QED  BY <1>8, <1>9

LEMMA WorkKeeps ==
    ASSUME TypeOK, NEW w \in Spawned, Placed(w), Chained(w), Open, Work(w)
    PROVE  Placed(w)' /\ Chained(w)'
BY BuildKeeps, ReadRecordKeeps, ReadFailureKeeps, ReadNothingKeeps, SendBatchKeeps, ReuseKeeps,
   SendDoneKeeps, SendFailedKeeps DEF Work

(* A worker moves nobody else.                                             *)
LEMMA WorkAlone ==
    ASSUME TypeOK, NEW w \in Spawned, Work(w)
    PROVE  /\ UNCHANGED <<doc, consumer, returned>>
           /\ \A v \in Workers \ {w} : UNCHANGED Own(v)
<1>1. UNCHANGED <<doc, consumer, returned>>
  BY DEF Work, Build, ReadRecord, ReadFailure, ReadNothing, SendBatch, Reuse, SendDone, SendFailed
<1>2. ASSUME NEW v \in Workers, v # w
      PROVE  UNCHANGED Own(v)
  <2>1. pc'[v] = pc[v] /\ after'[v] = after[v]
    BY <1>2 DEF TypeOK, Work, Build, ReadRecord, ReadFailure, ReadNothing, SendBatch, Reuse,
                SendDone, SendFailed
  <2>2. chunk'[v] = chunk[v] /\ next'[v] = next[v]
    BY <1>2 DEF TypeOK, Work, Build, ReadRecord, ReadFailure, ReadNothing, SendBatch, Reuse,
                SendDone, SendFailed
  <2>3. batch'[v] = batch[v] /\ queue'[v] = queue[v]
    BY <1>2 DEF TypeOK, Work, Build, ReadRecord, ReadFailure, ReadNothing, SendBatch, Reuse,
                SendDone, SendFailed
  <2> QED  BY <2>1, <2>2, <2>3 DEF Own
<1> QED  BY <1>1, <1>2

LEMMA WorkKeepsIInv ==
    ASSUME IInv, NEW w \in Spawned, Work(w)
    PROVE  IInv'
<1>1. TypeOK /\ TypeOK' /\ WellFormed(doc)
  BY WorkType DEF IInv, TypeOK
<1>2. /\ UNCHANGED <<doc, consumer, returned>>
      /\ \A v \in Workers \ {w} : UNCHANGED Own(v)
  BY <1>1, WorkAlone
<1>3. /\ doc' = doc /\ at' = at /\ held' = held /\ delivered' = delivered
      /\ result' = result /\ error' = error
  BY <1>2 DEF consumer
<1>4. HandedOver' /\ OutcomeIsSerial'
  BY <1>3 DEF IInv, HandedOver, OutcomeIsSerial
<1>5. ASSUME Open'
      PROVE  Consuming' /\ \A v \in Spawned' : Placed(v)' /\ Chained(v)'
  <2>1. Open /\ Consuming /\ \A v \in Spawned : Placed(v) /\ Chained(v)
    BY <1>3, <1>5 DEF IInv, Draining, Open
  <2>2. Consuming'
    BY <1>3, <2>1 DEF Consuming, Received
  <2>3. Spawned' = Spawned
    BY <1>3 DEF Spawned, Active
  <2>4. ASSUME NEW v \in Spawned
        PROVE  Placed(v)' /\ Chained(v)'
    <3>1. CASE v = w
      BY <1>1, <2>1, <3>1, WorkKeeps
    <3>2. CASE v # w
      <4>1. UNCHANGED Own(v) /\ UNCHANGED Shared
        BY <1>1, <1>2, <1>3, <3>2, Dealt DEF Shared
      <4> QED  BY <2>1, <4>1, Elsewhere
    <3> QED  BY <3>1, <3>2
  <2> QED  BY <2>2, <2>3, <2>4
<1> QED  BY <1>1, <1>4, <1>5 DEF IInv, Draining

LEMMA InitIInv == Init => IInv
<1> SUFFICES ASSUME Init PROVE IInv
  OBVIOUS
<1>1. TypeOK /\ WellFormed(doc)
  BY TypeInit DEF TypeOK
<1>2. Len(<<>>) = 0 /\ <<>> \in Seq(Nat)
  BY EmptySeq
<1>3. Len(delivered) = 0 /\ Len(held) = 0 /\ Received = 0 /\ at = 1 /\ error = BuildError /\ held = <<>>
  BY <1>2 DEF Init, Received
<1>4. /\ Len(doc.first) \in Nat \ {0} /\ doc.size \in Nat /\ 1 \in Chunks(doc) /\ doc.first[1] = 1
      /\ ChunkEnd(doc, 1) \in 1..(doc.size + 1)
  <2>1. Len(doc.first) \in Nat \ {0} /\ doc.size \in Nat /\ doc.first[1] = 1
    BY <1>1, ChunkBounds DEF WellFormed
  <2>2. 1 \in Chunks(doc)
    BY <2>1 DEF Chunks
  <2> QED  BY <1>1, <2>1, <2>2, ChunkBounds
<1>5. HandedOver
  <2>1. delivered = <<>>
    BY DEF Init
  <2>2. delivered = [i \in 1..Len(delivered) |-> i]
    BY <1>2, <2>1
  <2> QED  BY <1>3, <2>2 DEF HandedOver
<1>6. OutcomeIsSerial
  BY DEF Init, OutcomeIsSerial
<1>7. Consuming
  <2>1. at \in 1..(Len(doc.first) + 1) /\ at \in Chunks(doc)
    BY <1>3, <1>4
  <2>2. /\ Len(held) <= Capacity
        /\ \A i \in 1..Len(held) : held[i] = Len(delivered) + i
        /\ \A r \in 1..Received : r \in Records(doc) \ Failing(doc)
    BY <1>3, CapacityAssumption
  <2>3. doc.first[at] <= Received + 1 /\ Received + 1 <= ChunkEnd(doc, at)
    BY <1>3, <1>4
  <2> QED  BY <1>3, <2>1, <2>2, <2>3 DEF Consuming
<1>8. ASSUME NEW w \in Spawned
      PROVE  Placed(w) /\ Chained(w)
  <2>1. /\ w \in Workers /\ w \in Chunks(doc) /\ Owner(w) = w /\ Active \in Nat
        /\ 1 <= w /\ w < 1 + Active /\ w \in Nat \ {0}
    BY SMTT(30), <1>1, Dealt DEF Spawned
  <2>2. /\ pc[w] = "build" /\ chunk[w] = w /\ next[w] = BuildError /\ batch[w] = <<>>
        /\ queue[w] = <<>>
    BY <2>1 DEF Init
  <2>3. Placed(w)
    BY <2>1, <2>2 DEF Placed
  <2>4. Expected(chunk[w], Here(w))
    BY <1>3, <1>4, <2>1, <2>2 DEF Expected, Here
  <2>5. Chained(w)
    BY <1>2, <2>2, <2>4 DEF Chained
  <2> QED  BY <2>3, <2>5
<1> QED  BY <1>1, <1>5, <1>6, <1>7, <1>8 DEF IInv, Draining

-----------------------------------------------------------------------------
(* A worker that waits while the consumer goes on is still where the       *)
(* consumer expects it.                                                    *)
LEMMA Waits ==
    ASSUME TypeOK, NEW v \in Workers, UNCHANGED Own(v), doc' = doc, Placed(v), Chained(v),
           \A c \in Nat \ {0} : \A r : Owner(c) = v /\ Expected(c, r) => Expected(c, r)'
    PROVE  Placed(v)' /\ Chained(v)'
<1>1. /\ pc'[v] = pc[v] /\ after'[v] = after[v] /\ chunk'[v] = chunk[v] /\ next'[v] = next[v]
      /\ batch'[v] = batch[v] /\ queue'[v] = queue[v]
  BY DEF Own
<1>2. Placed(v)'
  BY <1>1 DEF Placed, InChunk, Onward, Owner, Active, Run
<1>3. Here(v)' = Here(v)
  BY <1>1 DEF Here
<1>4. /\ \A x : Sound(v, x)' <=> Sound(v, x)
      /\ \A x : From(x)' = From(x)
      /\ \A x, c, r : Leads(x, c, r)' <=> Leads(x, c, r)
  BY DEF Sound, Leads, From, NextChunk, NextRecord, Owner, Active, Run
<1> DEFINE q == queue[v]
           n == Len(q)
<1>5. /\ \A i \in 1..n : Sound(v, q[i])
      /\ \A i \in 1..(n - 1) : Leads(q[i], q[i + 1].chunk, From(q[i + 1]))
      /\ IF n = 0 THEN Expected(chunk[v], Here(v))
         ELSE /\ Expected(q[1].chunk, From(q[1]))
              /\ IF q[n].kind = "failed" THEN pc[v] = "exit" ELSE Leads(q[n], chunk[v], Here(v))
  BY DEF Chained
<1>6. /\ chunk[v] \in Nat \ {0} /\ Owner(chunk[v]) = v
      /\ n # 0 => Sound(v, q[1])
  <2>1. n \in Nat
    BY LenProperties DEF TypeOK
  <2> QED  BY <1>5, <2>1 DEF Placed
<1>7. n # 0 => q[1].chunk \in Nat \ {0} /\ Owner(q[1].chunk) = v
  BY <1>6 DEF Sound, Chunks
<1> HIDE DEF q, n
<1>8. /\ \A c, r : n = 0 /\ c = chunk[v] /\ r = Here(v) => Expected(c, r)'
      /\ \A c, r : n # 0 /\ c = q[1].chunk /\ r = From(q[1]) => Expected(c, r)'
  BY <1>5, <1>6, <1>7
<1>9. Chained(v)'
  <2>1. queue'[v] = q /\ Len(q) = n
    BY <1>1 DEF q, n
  <2>2. CASE n = 0
    <3>1. \A i \in 1..n : FALSE
      BY <2>2
    <3>2. \A i \in 1..(n - 1) : FALSE
      BY <2>2
    <3> QED  BY <1>1, <1>3, <1>8, <2>1, <2>2, <3>1, <3>2 DEF Chained
  <2>3. CASE n # 0
    BY <1>1, <1>3, <1>4, <1>5, <1>8, <2>1, <2>3 DEF Chained
  <2> QED  BY <2>2, <2>3
<1> QED  BY <1>2, <1>9

(* The worker a message is taken from: what comes next starts where the    *)
(* message led.                                                            *)
LEMMA Taken ==
    ASSUME TypeOK, NEW w \in Workers, queue[w] # <<>>, queue'[w] = Tail(queue[w]),
           pc'[w] = pc[w], after'[w] = after[w], chunk'[w] = chunk[w], next'[w] = next[w],
           batch'[w] = batch[w], doc' = doc, Placed(w), Chained(w),
           queue[w][1].kind # "failed",
           \A c, r : Leads(queue[w][1], c, r) => Expected(c, r)'
    PROVE  Placed(w)' /\ Chained(w)'
<1> DEFINE q == queue[w]
           n == Len(q)
           p == Tail(q)
<1>1. /\ q \in Seq(Messages) /\ n \in Nat \ {0}
      /\ Len(p) = n - 1 /\ \A i \in 1..(n - 1) : p[i] = q[i + 1]
  <2>1. q \in Seq(Messages) /\ q # <<>>
    BY DEF TypeOK
  <2>2. Len(q) \in Nat /\ Len(q) # 0
    BY <2>1, LenProperties, EmptySeq
  <2>3. Len(p) = Len(q) - 1 /\ \A i \in 1..(Len(q) - 1) : p[i] = q[i + 1]
    BY <2>1
  <2> QED  BY <2>1, <2>2, <2>3
<1>2. /\ \A i \in 1..n : Sound(w, q[i])
      /\ \A i \in 1..(n - 1) : Leads(q[i], q[i + 1].chunk, From(q[i + 1]))
      /\ IF q[n].kind = "failed" THEN pc[w] = "exit" ELSE Leads(q[n], chunk[w], Here(w))
  BY <1>1 DEF Chained
<1>3. /\ q[1].kind # "failed" /\ queue'[w] = p /\ \A c, r : Leads(q[1], c, r) => Expected(c, r)'
      /\ queue[w] = q
  OBVIOUS
<1>4. p \in Seq(Messages) /\ Len(<<>>) = 0
  BY <1>1, EmptySeq
<1> HIDE DEF q, n, p
<1>5. (n = 1 => p = <<>>) /\ (n # 1 => p # <<>>)
  BY <1>1, <1>4, EmptySeq
<1>6. Here(w)' = Here(w)
  BY DEF Here
<1>7. /\ \A x : Sound(w, x)' <=> Sound(w, x)
      /\ \A x : From(x)' = From(x)
      /\ \A x, c, r : Leads(x, c, r)' <=> Leads(x, c, r)
  BY DEF Sound, Leads, From, NextChunk, NextRecord, Owner, Active, Run
<1>8. Len(q) = n /\ n - 1 \in Nat
  BY <1>1 DEF n
<1>9. Placed(w)'
  <2>1. queue[w] # <<>> /\ queue[w][Len(queue[w])].kind = "failed"
          => p # <<>> /\ p[Len(p)].kind = "failed"
    <3>1. CASE n = 1
      BY <1>3, <1>8, <3>1
    <3>2. CASE n # 1
      <4>1. p[n - 1] = q[n] /\ p # <<>> /\ Len(p) = n - 1
        BY <1>1, <1>5, <3>2
      <4> QED  BY <1>3, <1>8, <4>1
    <3> QED  BY <3>1, <3>2
  <2> QED  BY SMTT(30), <1>3, <2>1 DEF Placed, InChunk, Onward, Owner, Active, Run
<1>10. Chained(w)'
  <2>1. CASE n = 1
    <3>1. \A c, r : c = chunk[w] /\ r = Here(w) => Expected(c, r)'
      BY <1>2, <1>3, <2>1
    <3>2. Len(queue'[w]) = 0
      <4>1. Len(p) = 0
        BY <1>1, <2>1
      <4> QED  BY <1>3, <4>1
    <3>3. \A i \in 1..0 : FALSE
      OBVIOUS
    <3>4. \A i \in 1..(0 - 1) : FALSE
      OBVIOUS
    <3> QED  BY <1>6, <3>1, <3>2, <3>3, <3>4 DEF Chained
  <2>2. CASE n # 1
    <3>1. /\ \A i \in 1..(n - 1) : Sound(w, p[i])
          /\ \A i \in 1..((n - 1) - 1) : Leads(p[i], p[i + 1].chunk, From(p[i + 1]))
      <4>0. n \in Nat \ {0} /\ \A i \in 1..(n - 1) : p[i] = q[i + 1]
        BY <1>1
      <4>1. \A i \in 1..(n - 1) : i + 1 \in 1..n /\ p[i] = q[i + 1]
        BY <4>0
      <4>2. \A i \in 1..((n - 1) - 1) :
               i \in 1..(n - 1) /\ i + 1 \in 1..(n - 1) /\ p[i] = q[i + 1] /\ p[i + 1] = q[(i + 1) + 1]
        BY <1>1
      <4> QED  BY <1>2, <4>1, <4>2
    <3>2. /\ p[n - 1] = q[n] /\ p[1] = q[2] /\ Len(queue'[w]) = n - 1 /\ n - 1 # 0
          /\ 1 \in 1..(n - 1)
      BY <1>1, <1>3, <2>2
    <3>3. \A c, r : c = p[1].chunk /\ r = From(p[1]) => Expected(c, r)'
      <4>1. Leads(q[1], q[1 + 1].chunk, From(q[1 + 1]))
        BY <1>2, <3>2
      <4> QED  BY <1>3, <3>2, <4>1
    <3>4. IF p[n - 1].kind = "failed" THEN pc[w] = "exit" ELSE Leads(p[n - 1], chunk[w], Here(w))
      BY <1>2, <3>2
    <3> QED  BY <1>3, <1>6, <1>7, <3>1, <3>2, <3>3, <3>4 DEF Chained
  <2> QED  BY <2>1, <2>2
<1> QED  BY <1>9, <1>10

(* The next message is for the chunk the consumer is in, and starts where  *)
(* the consumer is; a worker that is gone has left one.                    *)
LEMMA NextMessage ==
    ASSUME IInv, Open, at \in Chunks(doc), held = <<>>
    PROVE  LET w == Owner(at)
           IN  /\ w \in Spawned /\ w \in Workers
               /\ queue[w] = <<>> => pc[w] # "exit"
               /\ queue[w] # <<>> =>
                     /\ queue[w][1] \in Messages /\ Head(queue[w]) = queue[w][1]
                     /\ Sound(w, queue[w][1]) /\ queue[w][1].chunk = at
                     /\ From(queue[w][1]) = Received + 1
<1> DEFINE w == Owner(at)
<1>1. TypeOK /\ WellFormed(doc) /\ Consuming /\ at \in Nat \ {0}
  BY DEF IInv, TypeOK, Draining
<1>2. w \in Spawned /\ w \in Workers
  BY <1>1, Dealt
<1>3. Placed(w) /\ Chained(w)
  BY <1>2 DEF IInv, Draining
<1>4. queue[w] \in Seq(Messages) /\ Len(queue[w]) \in Nat
  BY <1>1, <1>2, LenProperties DEF TypeOK
<1>5. \A c \in Nat \ {0} : at <= c /\ c < at + Active /\ Owner(c) = w => c = at
  BY <1>1, Dealt
<1>6. w = Owner(at)
  OBVIOUS
<1> HIDE DEF w
<1>7. CASE queue[w] = <<>>
  <2>1. Len(queue[w]) = 0
    BY <1>7, EmptySeq
  <2>2. Expected(chunk[w], Here(w)) /\ chunk[w] \in Nat \ {0} /\ Owner(chunk[w]) = w
    BY <1>3, <2>1 DEF Chained, Placed
  <2>3. chunk[w] = at
    BY <1>5, <2>2 DEF Expected
  <2>4. pc[w] # "exit"
    BY <1>3, <1>7, <2>3 DEF Placed
  <2> QED  BY <1>2, <1>6, <1>7, <2>4
<1>8. CASE queue[w] # <<>>
  <2>1. Len(queue[w]) # 0 /\ 1 \in 1..Len(queue[w])
    BY <1>4, <1>8, EmptySeq
  <2>2. Sound(w, queue[w][1]) /\ Expected(queue[w][1].chunk, From(queue[w][1]))
    BY <1>3, <2>1 DEF Chained
  <2>3. queue[w][1].chunk = at
    BY <1>5, <2>2 DEF Expected, Sound, Chunks
  <2>4. From(queue[w][1]) = Received + 1
    BY <2>2, <2>3 DEF Expected
  <2>5. queue[w][1] \in Messages /\ Head(queue[w]) = queue[w][1]
    BY <1>4, <2>1, ElementOfSeq
  <2> QED  BY <1>2, <1>6, <1>8, <2>2, <2>3, <2>4, <2>5
<1> QED  BY <1>7, <1>8

(* Records that parse are before the record a serial parse stops at, and   *)
(* the one that fails behind them is that record.                          *)
LEMMA BeforeFailure ==
    ASSUME doc.size \in Nat, NEW n \in Nat, \A r \in 1..n : r \in Records(doc) \ Failing(doc)
    PROVE  /\ n < SerialFailure(doc)
           /\ n + 1 \in Failing(doc) => SerialFailure(doc) = n + 1
<1>1. CASE Failing(doc) = {}
  <2>1. SerialFailure(doc) = doc.size + 1
    BY <1>1, SerialFailureLeast
  <2>2. n = 0 \/ n \in Records(doc)
    OBVIOUS
  <2>3. n <= doc.size
    BY <2>2 DEF Records
  <2> QED  BY <1>1, <2>1, <2>3
<1>2. CASE Failing(doc) # {}
  <2>1. /\ SerialFailure(doc) \in Failing(doc)
        /\ \A r \in Failing(doc) : SerialFailure(doc) <= r
    BY <1>2, SerialFailureLeast
  <2>2. SerialFailure(doc) \in Nat \ {0}
    BY <2>1 DEF Failing, Records
  <2>3. SerialFailure(doc) \notin 1..n
    BY <2>1
  <2>4. n < SerialFailure(doc)
    BY <2>2, <2>3
  <2>5. n + 1 \in Failing(doc) => SerialFailure(doc) <= n + 1
    BY <2>1
  <2> QED  BY <2>2, <2>4, <2>5
<1> QED  BY <1>1, <1>2

(* What the consumer holds are the records that come next.                 *)
LEMMA Holding ==
    ASSUME IInv, Open
    PROVE  /\ Len(delivered) \in Nat /\ Len(held) \in Nat /\ Received \in Nat /\ doc.size \in Nat
           /\ held = [i \in 1..Len(held) |-> Len(delivered) + i]
           /\ delivered \o held = [i \in 1..Received |-> i]
           /\ Len(delivered \o held) = Received
           /\ Received < SerialFailure(doc)
           /\ Received + 1 \in Failing(doc) => SerialFailure(doc) = Received + 1
<1>1. TypeOK /\ Consuming /\ HandedOver /\ doc.size \in Nat
  BY DEF IInv, Draining, TypeOK, WellFormed
<1>2. /\ delivered \in Seq(Nat) /\ held \in Seq(Nat)
      /\ Len(delivered) \in Nat /\ Len(held) \in Nat /\ Received \in Nat
      /\ DOMAIN held = 1..Len(held)
  BY <1>1, LenProperties DEF TypeOK, Received
<1>3. held = [i \in 1..Len(held) |-> Len(delivered) + i]
  <2>1. held = [i \in DOMAIN held |-> held[i]]
    BY <1>2
  <2> QED  BY <1>1, <1>2, <2>1 DEF Consuming
<1>4. /\ delivered \o held \in Seq(Nat) /\ Len(delivered \o held) = Received
      /\ \A i \in 1..Received :
            (delivered \o held)[i] = IF i <= Len(delivered) THEN delivered[i]
                                     ELSE held[i - Len(delivered)]
  BY <1>2, ConcatProperties DEF Received
<1> DEFINE s == delivered \o held
<1>5. /\ s \in Seq(Nat) /\ Len(s) = Received /\ s = delivered \o held
      /\ \A i \in 1..Received :
            s[i] = IF i <= Len(delivered) THEN delivered[i] ELSE held[i - Len(delivered)]
  BY <1>4
<1> HIDE DEF s
<1>6. s = [i \in 1..Received |-> i]
  <2>1. ASSUME NEW i \in 1..Received
        PROVE  s[i] = i
    <3>1. CASE i <= Len(delivered)
      <4>1. i \in 1..Len(delivered)
        BY <1>2, <3>1
      <4>2. delivered[i] = i
        BY <1>1, <4>1 DEF HandedOver
      <4> QED  BY <1>5, <3>1, <4>2
    <3>2. CASE i > Len(delivered)
      <4>1. i - Len(delivered) \in 1..Len(held)
        BY <1>2, <3>2 DEF Received
      <4>2. held[i - Len(delivered)] = Len(delivered) + (i - Len(delivered))
        BY <1>1, <4>1 DEF Consuming
      <4>3. Len(delivered) + (i - Len(delivered)) = i /\ ~(i <= Len(delivered))
        BY <1>2, <3>2
      <4> QED  BY <1>5, <4>2, <4>3
    <3> QED  BY <1>2, <3>1, <3>2
  <2>2. s \in [1..Received -> Nat]
    BY <1>5, LenProperties
  <2>3. s = [i \in 1..Received |-> s[i]]
    BY <2>2
  <2> QED  BY <2>1, <2>3
<1>7. \A r \in 1..Received : r \in Records(doc) \ Failing(doc)
  BY <1>1 DEF Consuming
<1> QED  BY <1>1, <1>2, <1>3, <1>5, <1>6, <1>7, BeforeFailure

LEMMA ReceiveBatchKeeps ==
    ASSUME IInv, Receive, queue[Owner(at)] # <<>>, Head(queue[Owner(at)]).kind = "batch"
    PROVE  IInv'
<1> DEFINE w == Owner(at)
           m == queue[w][1]
<1>1. Open /\ at \in Chunks(doc) /\ held = <<>>
  BY DEF Receive
<1>2. /\ w \in Spawned /\ w \in Workers /\ m \in Messages /\ Head(queue[w]) = m /\ Sound(w, m)
      /\ m.chunk = at /\ From(m) = Received + 1
  BY <1>1, NextMessage
<1>3. TypeOK /\ TypeOK' /\ WellFormed(doc) /\ Consuming /\ HandedOver /\ OutcomeIsSerial
  BY <1>1, DrainType DEF IInv, Draining, TypeOK, Drain
<1>4. /\ held' = m.recs /\ queue' = [queue EXCEPT ![w] = Tail(@)]
      /\ at' = at /\ result' = result /\ error' = error /\ delivered' = delivered /\ doc' = doc
      /\ UNCHANGED worker
  BY <1>2 DEF Receive
<1>5. HandedOver' /\ OutcomeIsSerial'
  BY <1>3, <1>4 DEF HandedOver, OutcomeIsSerial
<1> DEFINE n == Len(m.recs)
           d == Len(delivered)
<1>6. /\ m.kind = "batch" /\ Run(m.recs, at) /\ n \in 1..Capacity /\ m.recs[1] = Received + 1
      /\ m.recs \in Seq(Nat)
  BY <1>2 DEF Sound, From, Run
<1>7. Len(<<>>) = 0 /\ d \in Nat /\ Received = d /\ Received' = d + n /\ n \in Nat \ {0}
  <2>1. Len(<<>>) = 0 /\ d \in Nat
    BY <1>3, EmptySeq, LenProperties DEF TypeOK
  <2>2. n \in Nat \ {0}
    BY <1>6, CapacityAssumption
  <2> QED  BY <1>1, <1>4, <2>1, <2>2 DEF Received
<1>8. /\ \A i \in 1..n : m.recs[i] = d + i
      /\ \A i \in 1..n : d + i \in Records(doc) \ Failing(doc) /\ d + i < ChunkEnd(doc, at)
  <2>1. \A i \in 1..n :
           /\ m.recs[i] = m.recs[1] + i - 1
           /\ m.recs[i] \in Records(doc) \ Failing(doc) /\ m.recs[i] < ChunkEnd(doc, at)
    BY <1>6 DEF Run
  <2>2. m.recs[1] = d + 1
    BY <1>6, <1>7
  <2>3. \A i \in 1..n : m.recs[i] = d + i
    <3> HIDE DEF d, n, m
    <3> QED  BY <1>7, <2>1, <2>2
  <2> QED  BY <2>1, <2>3
<1>9. /\ ChunkEnd(doc, at) \in Nat /\ doc.first[at] \in Nat
  BY <1>1, <1>3, ChunkBounds
<1> HIDE DEF n, d
<1>10. Consuming'
  <2>1. ASSUME NEW r \in 1..(d + n)
        PROVE  r \in Records(doc) \ Failing(doc)
    <3>1. CASE r <= d
      BY <1>3, <1>7, <3>1 DEF Consuming
    <3>2. CASE r > d
      <4>1. r - d \in 1..n /\ d + (r - d) = r
        BY <1>7, <3>2
      <4> QED  BY <1>8, <4>1
    <3> QED  BY <1>7, <3>1, <3>2
  <2>2. doc.first[at] <= (d + n) + 1 /\ (d + n) + 1 <= ChunkEnd(doc, at)
    <3>1. d + n < ChunkEnd(doc, at) /\ doc.first[at] <= d + 1
      <4>1. n \in 1..n
        BY <1>7
      <4> QED  BY <1>1, <1>3, <1>7, <1>8, <4>1 DEF Consuming
    <3> QED  BY <1>7, <1>9, <3>1
  <2>3. Len(held') = n /\ Len(delivered') = d
    BY <1>4 DEF n, d
  <2>4. n <= Capacity
    BY <1>6, CapacityAssumption
  <2>5. /\ at' \in 1..(Len(doc'.first) + 1) /\ at' \in Chunks(doc') /\ error' = BuildError
    BY <1>1, <1>3, <1>4 DEF Consuming
  <2>6. \A i \in 1..Len(held') : held'[i] = Len(delivered') + i
    BY <1>4, <1>8, <2>3
  <2>7. /\ \A r \in 1..Received' : r \in Records(doc') \ Failing(doc')
        /\ doc'.first[at'] <= Received' + 1 /\ Received' + 1 <= ChunkEnd(doc', at')
    BY <1>4, <1>7, <2>1, <2>2
  <2> QED  BY <2>3, <2>4, <2>5, <2>6, <2>7 DEF Consuming
<1>11. ASSUME NEW v \in Spawned
       PROVE  Placed(v)' /\ Chained(v)'
  <2>1. Placed(v) /\ Chained(v) /\ v \in Workers
    BY <1>1, <1>3, Dealt DEF IInv, Draining
  <2>2. CASE v = w
    <3>1. ASSUME NEW c, NEW r, Leads(m, c, r)
          PROVE  Expected(c, r)'
      <4>1. c = at /\ r = m.recs[n] + 1
        BY <1>1, <1>2, <1>6, <3>1 DEF Leads, NextChunk, NextRecord, n
      <4>2. r = Received' + 1
        BY <1>7, <1>8, <4>1
      <4>3. at <= at /\ at < at + Active
        BY SMTT(30), <1>3, Dealt DEF TypeOK
      <4> QED  BY <1>4, <4>1, <4>2, <4>3 DEF Expected, Active
    <3>2. /\ queue'[w] = Tail(queue[w]) /\ queue[w] # <<>> /\ m.kind # "failed"
      BY <1>2, <1>3, <1>4, <1>6 DEF TypeOK
    <3>3. /\ pc' = pc /\ after' = after /\ chunk' = chunk /\ next' = next /\ batch' = batch
      BY <1>4 DEF worker
    <3> QED  BY <1>2, <1>3, <1>4, <2>1, <2>2, <3>1, <3>2, <3>3, Taken
  <2>3. CASE v # w
    <3>1. UNCHANGED Own(v)
      BY <1>3, <1>4, <2>1, <2>3 DEF Own, worker, TypeOK
    <3>2. ASSUME NEW c \in Nat \ {0}, NEW r, Owner(c) = v, Expected(c, r)
          PROVE  Expected(c, r)'
      <4>1. c # at
        BY <2>3, <3>2
      <4> QED  BY <1>4, <3>2, <4>1 DEF Expected, Active
    <3> QED  BY <1>3, <1>4, <2>1, <3>1, <3>2, Waits
  <2> QED  BY <2>2, <2>3
<1>12. Spawned' = Spawned
  BY <1>4 DEF Spawned, Active
<1> QED  BY <1>3, <1>5, <1>10, <1>11, <1>12 DEF IInv, Draining

LEMMA ReceiveDoneKeeps ==
    ASSUME IInv, Receive, queue[Owner(at)] # <<>>, Head(queue[Owner(at)]).kind = "done"
    PROVE  IInv'
<1> DEFINE w == Owner(at)
           m == queue[w][1]
<1>1. Open /\ at \in Chunks(doc) /\ held = <<>>
  BY DEF Receive
<1>2. /\ w \in Spawned /\ w \in Workers /\ m \in Messages /\ Head(queue[w]) = m /\ Sound(w, m)
      /\ m.chunk = at /\ From(m) = Received + 1
  BY <1>1, NextMessage
<1>3. TypeOK /\ TypeOK' /\ WellFormed(doc) /\ Consuming /\ HandedOver /\ OutcomeIsSerial
  BY <1>1, DrainType DEF IInv, Draining, TypeOK, Drain
<1>4. /\ at' = at + 1 /\ queue' = [queue EXCEPT ![w] = Tail(@)] /\ m.kind = "done"
      /\ held' = held /\ result' = result /\ error' = error /\ delivered' = delivered /\ doc' = doc
      /\ UNCHANGED worker
  BY <1>2 DEF Receive
<1>5. HandedOver' /\ OutcomeIsSerial'
  <2>1. result' # "ok" /\ result' # "parse_error"
    BY <1>1, <1>4 DEF Open
  <2> QED  BY <1>3, <1>4, <2>1 DEF HandedOver, OutcomeIsSerial
<1>6. Received \in Nat /\ Received' = Received
  BY <1>1, <1>4, Holding DEF Received
<1>7. /\ Received + 1 = ChunkEnd(doc, at) /\ at \in Nat \ {0} /\ Active \in Nat \ {0}
      /\ Len(doc.first) \in Nat /\ at <= Len(doc.first) /\ doc.size \in Nat
  <2>1. Received + 1 = ChunkEnd(doc, at)
    BY <1>2, <1>4 DEF From
  <2>2. Len(doc.first) \in Nat /\ doc.size \in Nat /\ Active \in 1..Threads
    BY <1>3, Dealt, ChunkBounds
  <2>3. Active \in Nat \ {0}
    BY <2>2, ThreadsAssumption
  <2>4. at \in Nat \ {0} /\ at <= Len(doc.first)
    BY <1>1, <2>2 DEF Chunks
  <2> QED  BY <2>1, <2>2, <2>3, <2>4
<1>8. /\ at + 1 \in Chunks(doc) => /\ doc.first[at + 1] = Received + 1
                                  /\ Received + 1 <= ChunkEnd(doc, at + 1)
      /\ at + 1 \notin Chunks(doc) => Received = doc.size
  <2>1. CASE at + 1 \in Chunks(doc)
    <3>1. doc.first[at + 1] = Received + 1
      BY <1>7, <2>1 DEF ChunkEnd, Chunks
    <3>2. /\ doc.first[at + 1] \in Nat /\ ChunkEnd(doc, at + 1) \in Nat \ {0}
          /\ doc.first[at + 1] <= ChunkEnd(doc, at + 1)
      <4>1. /\ doc.first[at + 1] \in 1..(doc.size + 1) /\ ChunkEnd(doc, at + 1) \in 1..(doc.size + 1)
            /\ \/ doc.first[at + 1] < ChunkEnd(doc, at + 1)
               \/ doc.size = 0 /\ doc.first[at + 1] = 1
        BY <1>3, <2>1, ChunkBounds
      <4> QED  BY <1>7, <4>1
    <3> QED  BY <2>1, <3>1, <3>2
  <2>2. CASE at + 1 \notin Chunks(doc)
    <3>1. ~(at < Len(doc.first))
      BY <1>7, <2>2 DEF Chunks
    <3>2. ChunkEnd(doc, at) = doc.size + 1
      BY <3>1 DEF ChunkEnd
    <3> QED  BY <1>6, <1>7, <2>2, <3>2
  <2> QED  BY <2>1, <2>2
<1>9. Consuming'
  <2>1. at' \in 1..(Len(doc'.first) + 1)
    BY <1>4, <1>7
  <2>2. /\ held' = <<>> /\ Len(held') <= Capacity /\ error' = BuildError
        /\ \A i \in 1..Len(held') : held'[i] = Len(delivered') + i
        /\ \A r \in 1..Received' : r \in Records(doc') \ Failing(doc')
    BY <1>1, <1>3, <1>4, <1>6 DEF Consuming
  <2>3. /\ at' \in Chunks(doc') => /\ doc'.first[at'] <= Received' + 1
                                  /\ Received' + 1 <= ChunkEnd(doc', at')
        /\ at' \notin Chunks(doc') => Received' = doc'.size
    BY <1>4, <1>6, <1>8
  <2> QED  BY <2>1, <2>2, <2>3 DEF Consuming
<1>10. ASSUME NEW v \in Spawned
       PROVE  Placed(v)' /\ Chained(v)'
  <2>1. Placed(v) /\ Chained(v) /\ v \in Workers
    BY <1>1, <1>3, Dealt DEF IInv, Draining
  <2>2. CASE v = w
    <3>1. ASSUME NEW c, NEW r, Leads(m, c, r)
          PROVE  Expected(c, r)'
      <4>1. c = at + Active /\ (c \in Chunks(doc) => r = doc.first[c])
        BY <1>2, <1>4, <3>1 DEF Leads, NextChunk, NextRecord
      <4>2. at + 1 <= c /\ c < (at + 1) + Active
        BY <1>7, <4>1
      <4> QED  BY <1>4, <1>6, <1>8, <4>1, <4>2 DEF Expected, Active
    <3>2. /\ queue'[w] = Tail(queue[w]) /\ queue[w] # <<>> /\ m.kind # "failed"
      BY <1>2, <1>3, <1>4 DEF TypeOK
    <3>3. /\ pc' = pc /\ after' = after /\ chunk' = chunk /\ next' = next /\ batch' = batch
      BY <1>4 DEF worker
    <3> QED  BY <1>2, <1>3, <1>4, <2>1, <2>2, <3>1, <3>2, <3>3, Taken
  <2>3. CASE v # w
    <3>1. UNCHANGED Own(v)
      BY <1>3, <1>4, <2>1, <2>3 DEF Own, worker, TypeOK
    <3>2. ASSUME NEW c \in Nat \ {0}, NEW r, Owner(c) = v, Expected(c, r)
          PROVE  Expected(c, r)'
      <4>1. c # at /\ at <= c /\ c < at + Active /\ (c \in Chunks(doc) => r = doc.first[c])
        BY <2>3, <3>2 DEF Expected
      <4>2. at + 1 <= c /\ c < (at + 1) + Active
        BY <1>7, <4>1
      <4> QED  BY <1>4, <1>6, <1>8, <4>1, <4>2 DEF Expected, Active
    <3> QED  BY <1>3, <1>4, <2>1, <3>1, <3>2, Waits
  <2> QED  BY <2>2, <2>3
<1>11. Spawned' = Spawned
  BY <1>4 DEF Spawned, Active
<1> QED  BY <1>3, <1>5, <1>9, <1>10, <1>11 DEF IInv, Draining

LEMMA ReceiveFailedKeeps ==
    ASSUME IInv, Receive, queue[Owner(at)] # <<>>, Head(queue[Owner(at)]).kind = "failed"
    PROVE  /\ IInv'
           /\ result' = "parse_error" /\ delivered' = delivered /\ doc' = doc
           /\ \/ error' = BuildError /\ BuildMayFail
              \/ error' = Len(delivered) + 1 /\ error' \in Failing(doc)
<1> DEFINE w == Owner(at)
           m == queue[w][1]
<1>1. Open /\ at \in Chunks(doc) /\ held = <<>> /\ Receive
  BY DEF Receive
<1>2. /\ w \in Spawned /\ w \in Workers /\ m \in Messages /\ Head(queue[w]) = m /\ Sound(w, m)
      /\ m.chunk = at /\ From(m) = Received + 1
  BY <1>1, NextMessage
<1>3. TypeOK /\ TypeOK' /\ WellFormed(doc) /\ HandedOver
  BY <1>1, DrainType DEF IInv, TypeOK, Drain
<1>4. /\ result' = "parse_error" /\ error' = m.rec /\ m.kind = "failed"
      /\ at' = at /\ held' = held /\ delivered' = delivered /\ doc' = doc
  BY <1>2 DEF Receive, Close
<1>5. HandedOver'
  BY <1>3, <1>4 DEF HandedOver
<1>6. Len(<<>>) = 0 /\ Len(delivered) \in Nat /\ Received = Len(delivered)
  <2>1. Len(<<>>) = 0 /\ Len(delivered) \in Nat
    BY <1>1, Holding, EmptySeq
  <2> QED  BY <1>1, <2>1 DEF Received
<1>7. CASE m.rec = BuildError
  <2>1. BuildMayFail
    BY <1>2, <1>4, <1>7 DEF Sound, Failing, Records, BuildError
  <2>2. doc.first[at] = Len(delivered) + 1
    BY <1>2, <1>4, <1>6, <1>7 DEF From
  <2>3. OutcomeIsSerial'
    <3>1. result' # "ok"
      BY <1>4
    <3>2. Len(delivered) = doc.first[at] - 1
      BY <1>6, <2>2
    <3> QED  BY <1>4, <1>7, <2>1, <3>1, <3>2 DEF OutcomeIsSerial
  <2> QED  BY <1>3, <1>4, <1>5, <1>7, <2>1, <2>3 DEF IInv, Draining, Open
<1>8. CASE m.rec # BuildError
  <2>1. m.rec = Received + 1 /\ m.rec \in Failing(doc)
    BY <1>2, <1>4, <1>8 DEF Sound, From
  <2>2. m.rec = SerialFailure(doc) /\ Len(delivered) = m.rec - 1
    <3>1. SerialFailure(doc) = Received + 1
      BY <1>1, <2>1, Holding
    <3> QED  BY <1>6, <2>1, <3>1
  <2>3. OutcomeIsSerial'
    <3>1. result' # "ok"
      BY <1>4
    <3> QED  BY <1>4, <2>2, <3>1 DEF OutcomeIsSerial
  <2> QED  BY <1>3, <1>4, <1>5, <1>6, <2>1, <2>3 DEF IInv, Draining, Open
<1> QED  BY <1>7, <1>8

LEMMA ReceiveKeeps ==
    ASSUME IInv, Receive
    PROVE  IInv' /\ queue[Owner(at)] # <<>>
<1>1. Open /\ at \in Chunks(doc) /\ held = <<>>
  BY DEF Receive
<1>2. queue[Owner(at)] # <<>>
  BY <1>1, NextMessage DEF Receive
<1>3. Head(queue[Owner(at)]).kind \in {"batch", "done", "failed"}
  <2>1. Head(queue[Owner(at)]) \in Messages
    BY <1>1, <1>2, NextMessage
  <2> QED  BY <2>1 DEF Messages
<1> QED  BY <1>2, <1>3, ReceiveBatchKeeps, ReceiveDoneKeeps, ReceiveFailedKeeps

LEMMA AcceptKeeps ==
    ASSUME IInv, Accept
    PROVE  IInv'
<1>1. Open /\ held # <<>>
  BY DEF Accept
<1>2. TypeOK /\ TypeOK' /\ WellFormed(doc) /\ Consuming
  BY <1>1, DrainType DEF IInv, Draining, TypeOK, Drain
<1>3. /\ delivered' = delivered \o held /\ held' = <<>>
      /\ UNCHANGED <<doc, worker, queue, at, result, error, returned>>
  BY DEF Accept
<1>4. /\ Len(<<>>) = 0 /\ Received \in Nat
      /\ delivered' = [i \in 1..Received |-> i] /\ Len(delivered') = Received
  BY <1>1, <1>3, Holding, EmptySeq
<1>5. Received' = Received
  BY <1>3, <1>4 DEF Received
<1>6. HandedOver'
  BY <1>2, <1>3, <1>4 DEF HandedOver, Consuming
<1>7. OutcomeIsSerial'
  BY <1>1, <1>3 DEF OutcomeIsSerial, Open
<1>8. Consuming'
  <2>1. Len(held') <= Capacity /\ \A i \in 1..Len(held') : held'[i] = Len(delivered') + i
    BY <1>3, <1>4, CapacityAssumption
  <2> QED  BY <1>2, <1>3, <1>5, <2>1 DEF Consuming
<1>9. ASSUME NEW v \in Spawned
      PROVE  Placed(v)' /\ Chained(v)'
  <2>1. Placed(v) /\ Chained(v) /\ v \in Workers
    BY <1>1, <1>2, Dealt DEF IInv, Draining
  <2>2. UNCHANGED Own(v) /\ doc' = doc
    BY <1>3 DEF Own, worker
  <2>3. \A c \in Nat \ {0} : \A r : Owner(c) = v /\ Expected(c, r) => Expected(c, r)'
    BY <1>3, <1>5 DEF Expected, Active
  <2> QED  BY <1>2, <2>1, <2>2, <2>3, Waits
<1>10. Spawned' = Spawned
  BY <1>3 DEF Spawned, Active
<1> QED  BY <1>2, <1>6, <1>7, <1>8, <1>9, <1>10 DEF IInv, Draining

LEMMA RefuseKeeps ==
    ASSUME IInv, Refuse
    PROVE  IInv'
<1>1. Open /\ held # <<>> /\ delivered' = delivered \o held /\ doc' = doc /\ result' = "refused"
  BY DEF Refuse, Close
<1>2. TypeOK' /\ Consuming
  BY <1>1, DrainType DEF IInv, Draining, Drain
<1>3. delivered' = [i \in 1..Received |-> i] /\ Len(delivered') = Received
  BY <1>1, Holding
<1>4. HandedOver'
  BY <1>1, <1>2, <1>3 DEF HandedOver, Consuming
<1>5. OutcomeIsSerial'
  BY <1>1 DEF OutcomeIsSerial
<1> QED  BY <1>1, <1>2, <1>4, <1>5 DEF IInv, Draining, Open

(* Every chunk has been drained: the whole document has been handed over.  *)
LEMMA DrainedKeeps ==
    ASSUME IInv, Drained
    PROVE  IInv' /\ Len(delivered) = doc.size
<1>1. /\ Open /\ at \notin Chunks(doc) /\ delivered' = delivered /\ doc' = doc /\ result' = "ok"
  BY DEF Drained, Close
<1>2. TypeOK' /\ Consuming /\ HandedOver
  BY <1>1, DrainType DEF IInv, Draining, Drain
<1>3. Len(delivered) = doc.size
  <2>1. Len(<<>>) = 0 /\ held = <<>> /\ Len(delivered) \in Nat
    BY <1>1, <1>2, Holding, EmptySeq DEF Consuming
  <2> QED  BY <1>1, <1>2, <2>1 DEF Consuming, Received
<1>4. HandedOver' /\ OutcomeIsSerial'
  BY <1>1, <1>2, <1>3 DEF HandedOver, OutcomeIsSerial
<1> QED  BY <1>1, <1>2, <1>3, <1>4 DEF IInv, Draining, Open

LEMMA DrainKeepsIInv ==
    ASSUME IInv, Drain
    PROVE  IInv'
BY ReceiveKeeps, AcceptKeeps, RefuseKeeps, DrainedKeeps DEF Drain

LEMMA NextKeepsIInv == IInv /\ [Next]_vars => IInv'
<1> SUFFICES ASSUME IInv, [Next]_vars PROVE IInv'
  OBVIOUS
<1>1. CASE \E w \in Spawned : Work(w)
  BY <1>1, WorkKeepsIInv
<1>2. CASE Drain
  BY <1>2, DrainKeepsIInv
<1>3. CASE Return
  <2>1. /\ ~Open /\ UNCHANGED <<doc, worker, queue, returns, consumer>> /\ returned' = TRUE
    BY <1>3 DEF Return
  <2>2. TypeOK'
    BY <2>1 DEF IInv, TypeOK, worker, consumer
  <2>3. HandedOver' /\ OutcomeIsSerial'
    BY <2>1 DEF IInv, HandedOver, OutcomeIsSerial, consumer
  <2>4. ~Open'
    BY <2>1 DEF Open, consumer
  <2> QED  BY <2>2, <2>3, <2>4 DEF IInv, Draining
<1>4. CASE UNCHANGED vars
  <2>1. /\ UNCHANGED Shared /\ \A v \in Workers : UNCHANGED Own(v)
        /\ UNCHANGED <<pool, returns, result, error, returned>>
    BY <1>4 DEF vars, Shared, Own
  <2>2. TypeOK'
    BY <1>4 DEF IInv, TypeOK, vars
  <2>3. HandedOver' /\ OutcomeIsSerial'
    BY <1>4 DEF IInv, HandedOver, OutcomeIsSerial, vars
  <2>4. ASSUME Open'
        PROVE  Consuming' /\ \A v \in Spawned' : Placed(v)' /\ Chained(v)'
    <3>1. Open /\ Consuming /\ \A v \in Spawned : Placed(v) /\ Chained(v)
      BY <2>1, <2>4 DEF IInv, Draining, Open
    <3>2. Consuming'
      BY <1>4, <3>1 DEF Consuming, Received, vars
    <3>3. Spawned' = Spawned /\ Spawned \subseteq Workers
      BY <1>4, Dealt DEF Spawned, Active, vars, IInv, TypeOK
    <3>4. \A v \in Spawned : Placed(v)' /\ Chained(v)'
      BY <2>1, <3>1, <3>3, Elsewhere
    <3> QED  BY <3>2, <3>3, <3>4
  <2> QED  BY <2>2, <2>3, <2>4 DEF IInv, Draining
<1> QED  BY <1>1, <1>2, <1>3, <1>4 DEF Next, Terminated

LEMMA AlwaysIInv == Spec => []IInv
BY InitIInv, NextKeepsIInv, PTL DEF Spec

-----------------------------------------------------------------------------
(* The types of the ordered driver's state: in particular no queue is ever *)
(* longer than its sync_channel (run_worker, drain).                       *)
THEOREM OrderedTypeOK == Spec => []TypeOK
<1>1. IInv => TypeOK
  BY DEF IInv
<1> QED  BY <1>1, AlwaysIInv, PTL

(* for_each_batch: whatever the threads, their speed and the depth of the  *)
(* queues, consume is handed the records of the document in order, each    *)
(* once, and none at or past the first that fails.                         *)
THEOREM HandsOverInOrder == Spec => []DeliveredIsPrefix
<1>1. IInv => DeliveredIsPrefix
  <2> SUFFICES ASSUME IInv PROVE DeliveredIsPrefix
    OBVIOUS
  <2>1. TypeOK /\ HandedOver /\ doc.size \in Nat /\ Len(delivered) \in Nat
    BY LenProperties DEF IInv, TypeOK, WellFormed
  <2>2. Len(delivered) < SerialFailure(doc)
    BY <2>1, BeforeFailure DEF HandedOver
  <2> QED  BY <2>1, <2>2 DEF DeliveredIsPrefix, HandedOver
<1> QED  BY <1>1, AlwaysIInv, PTL

(* for_each_batch: Ok means the whole document was handed over, and an     *)
(* error is the first one of the document, after all the records before    *)
(* it; no worker that is gone is taken for the end of the document.        *)
THEOREM ReportsSerialOutcome == Spec => []OutcomeIsSerial
<1>1. IInv => OutcomeIsSerial
  BY DEF IInv
<1> QED  BY <1>1, AlwaysIInv, PTL

-----------------------------------------------------------------------------
(* What a step of the threads is to someone who sees only the document,    *)
(* the records handed over and the outcome: nothing, or a step of one      *)
(* parser that reads the document from start to end.                       *)
Seen == <<doc, delivered, result, error>>

(* Both speak of the same document.                                        *)
LEMMA SameDocument ==
    /\ Serial!Failing(doc) = Failing(doc)
    /\ Serial!SerialFailure(doc) = SerialFailure(doc)
<1>1. Serial!Failing(doc) = Failing(doc)
  BY DEF Serial!Failing, Failing, Serial!Records, Records
<1> QED  BY <1>1 DEF Serial!SerialFailure, SerialFailure

(* Accept and Refuse hand over the next records, at least one.             *)
LEMMA DeliversNext ==
    ASSUME IInv, Open, held # <<>>, delivered' = delivered \o held,
           UNCHANGED <<doc, error>>, result' \in {"draining", "refused"}
    PROVE  Serial!Next
<1> DEFINE k == Len(held)
<1>1. /\ Len(delivered) \in Nat /\ k \in Nat /\ Received = Len(delivered) + k
      /\ held = [i \in 1..k |-> Len(delivered) + i] /\ Received < SerialFailure(doc)
  BY Holding DEF Received
<1>2. k \in 1..Capacity
  <2>1. held \in Seq(Nat) /\ Consuming
    BY DEF IInv, TypeOK, Draining
  <2>2. k # 0
    BY <2>1, EmptySeq
  <2> QED  BY <1>1, <2>1, <2>2, CapacityAssumption DEF Consuming
<1>3. held = Serial!NextRecords(k)
  BY <1>1 DEF Serial!NextRecords
<1> HIDE DEF k
<1>4. Serial!Deliver(k)
  <2>1. Len(delivered) + k < Serial!SerialFailure(doc)
    BY <1>1, SameDocument
  <2> QED  BY <1>3, <2>1 DEF Serial!Deliver, Open
<1> QED  BY <1>2, <1>4 DEF Serial!Next

LEMMA StepIsSerial == IInv /\ [Next]_vars => [Serial!Next]_Seen
<1> SUFFICES ASSUME IInv, [Next]_vars PROVE [Serial!Next]_Seen
  OBVIOUS
<1>1. CASE \E w \in Spawned : Work(w)
  <2>1. UNCHANGED <<doc, consumer>>
    BY <1>1, WorkAlone DEF IInv
  <2> QED  BY <2>1 DEF Seen, consumer
<1>2. CASE Receive
  <2>1. queue[Owner(at)] # <<>> /\ Head(queue[Owner(at)]).kind \in {"batch", "done", "failed"} /\ Open
    <3>1. Open /\ at \in Chunks(doc) /\ held = <<>> /\ queue[Owner(at)] # <<>>
      BY <1>2, ReceiveKeeps DEF Receive
    <3>2. Head(queue[Owner(at)]) \in Messages
      BY <3>1, NextMessage
    <3> QED  BY <3>1, <3>2 DEF Messages
  <2>2. CASE Head(queue[Owner(at)]).kind = "failed"
    <3>1. /\ result' = "parse_error" /\ delivered' = delivered /\ doc' = doc /\ error = BuildError
          /\ \/ error' = BuildError /\ BuildMayFail
             \/ error' = Len(delivered) + 1 /\ error' \in Failing(doc)
      BY <1>2, <2>1, <2>2, ReceiveFailedKeeps DEF IInv, Draining, Consuming
    <3>2. Serial!Fail \/ Serial!FailToBuild
      BY <2>1, <3>1, SameDocument DEF Serial!Fail, Serial!FailToBuild, Open
    <3> QED  BY <3>2 DEF Serial!Next
  <2>3. CASE Head(queue[Owner(at)]).kind \in {"batch", "done"}
    BY <1>2, <2>1, <2>3 DEF Receive, Seen
  <2> QED  BY <2>1, <2>2, <2>3
<1>3. CASE Accept
  <2>1. result' = "draining"
    BY <1>3 DEF Accept, Open
  <2> QED  BY <1>3, <2>1, DeliversNext DEF Accept
<1>4. CASE Refuse
  BY <1>4, DeliversNext DEF Refuse, Close
<1>5. CASE Drained
  <2>1. /\ Open /\ Len(delivered) = doc.size /\ result' = "ok"
        /\ UNCHANGED <<doc, delivered, error>>
    BY <1>5, DrainedKeeps DEF Drained, Close
  <2> QED  BY <2>1 DEF Serial!Next, Serial!Finish, Open
<1>6. CASE Return
  BY <1>6 DEF Return, Seen, consumer
<1>7. CASE UNCHANGED vars
  BY <1>7 DEF vars, Seen
<1> QED  BY <1>1, <1>2, <1>3, <1>4, <1>5, <1>6, <1>7 DEF Next, Drain, Terminated

(* "the consumer sees exactly the records a SliceParser would, in the same *)
(* order" (parallel.rs:119): every behaviour of the threads is a behaviour *)
(* of a single parser to whoever sees only what is handed over.            *)
THEOREM ImplementsSerial == Spec => ImplementsSerialParse
<1>1. Init => Serial!Init
  BY DEF Init, Serial!Init, BuildError, Serial!BuildError
<1>2. IInv /\ [Next]_vars => [Serial!Next]_(Serial!vars)
  BY StepIsSerial DEF Seen, Serial!vars
<1> QED  BY <1>1, <1>2, AlwaysIInv, PTL DEF Spec, ImplementsSerialParse, Serial!Spec

-----------------------------------------------------------------------------
(* How many record buffers a worker has.  They are counted as the cells of *)
(* a table: one row per message or batch, one cell per record in it.       *)
Cells(f) == UNION { {<<i, j>> : j \in 1..f[i]} : i \in 1..Len(f) }

RecordsOf(q) == [i \in 1..Len(q) |-> Len(q[i].recs)]
Lengths(b)   == [i \in 1..Len(b) |-> Len(b[i])]
Marks(f)     == [i \in 1..Len(f) |-> IF f[i] = 0 THEN 0 ELSE 1]

(* The messages that carry records.                                        *)
Loaded(q) == Cardinality(Cells(Marks(RecordsOf(q))))

(* The batch the consumer has in its hands, when it is this worker's.      *)
InHand(w) == IF at \in Chunks(doc) /\ w = Owner(at) THEN held ELSE <<>>

(* What a worker is filling is a batch at most, and less while it reads.   *)
Filling(w) ==
    /\ Len(batch[w]) <= Capacity
    /\ pc[w] = "read" => Len(batch[w]) < Capacity
    /\ pc[w] \in {"build", "reuse", "done"} => batch[w] = <<>>

(* Nothing longer than a batch is queued, in the consumer's hands or on    *)
(* its way back.                                                           *)
Fits(q) == \A i \in 1..Len(q) : Len(q[i].recs) <= Capacity
Returnable(b) == \A i \in 1..Len(b) : Len(b[i]) <= Capacity

(* The batches on their way: one more than the queue holds, and another    *)
(* one between a send and the batch that is taken back after it.           *)
Loads(w) ==
    Loaded(queue[w]) + Len(returns[w]) + (IF InHand(w) = <<>> THEN 0 ELSE 1)
InFlight(w) ==
    Loads(w) <= IF pc[w] = "reuse" THEN QueueDepth + 2 ELSE QueueDepth + 1

Recycles(w) ==
    /\ Filling(w)
    /\ Fits(queue[w]) /\ Returnable(returns[w]) /\ Len(InHand(w)) <= Capacity
    /\ InFlight(w)
    /\ Buffers(w) <= (QueueDepth + 2) * Capacity

Recycling == \A w \in Workers : Recycles(w)

-----------------------------------------------------------------------------
(* Counting the cells of a table with rows of at most k cells.             *)
LEMMA CellsAre ==
    ASSUME NEW k \in Nat, NEW f \in Seq(0..k)
    PROVE  /\ Len(f) \in Nat
           /\ \A i \in 1..Len(f) : f[i] \in 0..k
           /\ \A i \in Nat, j \in Nat :
                 <<i, j>> \in Cells(f) <=> i \in 1..Len(f) /\ j \in 1..f[i]
           /\ Cells(f) \subseteq (1..Len(f)) \X (1..k)
<1>1. Len(f) \in Nat /\ \A i \in 1..Len(f) : f[i] \in 0..k
  BY LenProperties, ElementOfSeq
<1>2. \A i, j : <<i, j>> \in Cells(f) <=> i \in 1..Len(f) /\ j \in 1..f[i]
  BY DEF Cells
<1>3. ASSUME NEW x \in Cells(f)
      PROVE  x \in (1..Len(f)) \X (1..k)
  <2>1. PICK i \in 1..Len(f) : x \in {<<i, j>> : j \in 1..f[i]}
    BY DEF Cells
  <2>2. PICK j \in 1..f[i] : x = <<i, j>>
    BY <2>1
  <2>3. j \in 1..k
    BY <1>1, <2>2
  <2> QED  BY <2>2, <2>3
<1> QED  BY <1>1, <1>2, <1>3

(* The numbers from one to n are n.                                        *)
LEMMA UpTo ==
    ASSUME NEW n \in Nat
    PROVE  IsFiniteSet(1..n) /\ Cardinality(1..n) = n
<1>1. /\ IsFiniteSet(1..n)
      /\ Cardinality(1..n) = IF 1 > n THEN 0 ELSE n - 1 + 1
  BY FS_Interval
<1> QED  BY <1>1

(* A table is finite, and no larger than its rows times the longest.       *)
LEMMA CellsFinite ==
    ASSUME NEW k \in Nat, NEW f \in Seq(0..k)
    PROVE  /\ IsFiniteSet(Cells(f)) /\ Cardinality(Cells(f)) \in Nat
           /\ Cardinality(Cells(f)) <= Len(f) * k
<1>1. Len(f) \in Nat /\ Cells(f) \subseteq (1..Len(f)) \X (1..k)
  BY CellsAre
<1>2. /\ IsFiniteSet(1..Len(f)) /\ Cardinality(1..Len(f)) = Len(f)
      /\ IsFiniteSet(1..k) /\ Cardinality(1..k) = k
  BY <1>1, UpTo
<1>3. /\ IsFiniteSet((1..Len(f)) \X (1..k))
      /\ Cardinality((1..Len(f)) \X (1..k)) = Len(f) * k
  BY ZenonT(60), <1>2, FS_Product
<1>4. IsFiniteSet(Cells(f)) /\ Cardinality(Cells(f)) <= Len(f) * k
  BY <1>1, <1>3, FS_Subset
<1> QED  BY <1>4, FS_CardinalityType

(* A row of n cells.                                                       *)
LEMMA RowCells ==
    ASSUME NEW i, NEW n \in Nat
    PROVE  IsFiniteSet({i} \X (1..n)) /\ Cardinality({i} \X (1..n)) = n
<1>1. IsFiniteSet({i}) /\ Cardinality({i}) = 1
  BY FS_Singleton
<1>2. IsFiniteSet(1..n) /\ Cardinality(1..n) = n
  BY UpTo
<1>3. /\ IsFiniteSet({i} \X (1..n))
      /\ Cardinality({i} \X (1..n)) = Cardinality({i}) * Cardinality(1..n)
  BY <1>1, <1>2, FS_Product
<1> QED  BY <1>1, <1>2, <1>3

(* A row more, and the first row less.                                     *)
LEMMA CellsAppend ==
    ASSUME NEW k \in Nat, NEW f \in Seq(0..k), NEW n \in 0..k
    PROVE  Cardinality(Cells(Append(f, n))) = Cardinality(Cells(f)) + n
<1> DEFINE g == Append(f, n)
           l == Len(f)
           R == {l + 1} \X (1..n)
<1>1. l \in Nat /\ n \in Nat
  BY LenProperties
<1>2. /\ g \in Seq(0..k) /\ Len(g) = l + 1 /\ g[l + 1] = n
      /\ \A i \in 1..l : g[i] = f[i]
  BY <1>1, AppendProperties
<1> HIDE DEF g, l
<1>3. Cells(g) = Cells(f) \cup R
  <2>1. \A i, j : <<i, j>> \in Cells(g) <=> i \in 1..(l + 1) /\ j \in 1..g[i]
    BY <1>2 DEF Cells
  <2>2. \A i, j : <<i, j>> \in Cells(f) <=> i \in 1..l /\ j \in 1..f[i]
    BY DEF Cells, l
  <2>3. \A x \in Cells(g) : \E i, j : x = <<i, j>>
    BY DEF Cells
  <2>4. \A x \in Cells(f) : \E i, j : x = <<i, j>>
    BY DEF Cells
  <2>5. \A i, j : <<i, j>> \in R <=> i = l + 1 /\ j \in 1..n
    OBVIOUS
  <2>6. ASSUME NEW i, NEW j
        PROVE  <<i, j>> \in Cells(g) <=> <<i, j>> \in Cells(f) \/ <<i, j>> \in R
    <3>1. i \in 1..(l + 1) <=> i \in 1..l \/ i = l + 1
      BY <1>1
    <3>2. ~(l + 1 \in 1..l)
      BY <1>1
    <3> QED  BY <1>2, <2>1, <2>2, <2>5, <3>1, <3>2
  <2>7. \A x \in R : \E i, j : x = <<i, j>>
    OBVIOUS
  <2> HIDE DEF R
  <2> QED  BY <2>3, <2>4, <2>6, <2>7
<1>4. Cells(f) \cap R = {}
  <2>1. Cells(f) \subseteq (1..l) \X (1..k)
    BY CellsAre DEF l
  <2> QED  BY <1>1, <2>1
<1>5. IsFiniteSet(R) /\ Cardinality(R) = n
  BY <1>1, RowCells
<1>6. IsFiniteSet(Cells(f)) /\ Cardinality(Cells(f)) \in Nat
  BY CellsFinite
<1> HIDE DEF R
<1>7. Cardinality(Cells(g)) = Cardinality(Cells(f)) + Cardinality(R) - Cardinality({})
  BY <1>3, <1>4, <1>5, <1>6, FS_Union
<1>8. Cardinality({}) = 0
  BY FS_EmptySet
<1> QED  BY <1>1, <1>5, <1>6, <1>7, <1>8 DEF g

LEMMA CellsTail ==
    ASSUME NEW k \in Nat, NEW f \in Seq(0..k), f # <<>>
    PROVE  Cardinality(Cells(f)) = f[1] + Cardinality(Cells(Tail(f)))
<1> DEFINE g == Tail(f)
           l == Len(g)
           R == {1} \X (1..f[1])
           S == {x \in Cells(f) : x[1] # 1}
           h == [x \in Cells(g) |-> <<x[1] + 1, x[2]>>]
<1>1. /\ Len(f) \in Nat /\ Len(f) = l + 1 /\ l \in Nat /\ g \in Seq(0..k)
      /\ \A i \in 1..l : g[i] = f[i + 1]
      /\ f[1] \in 0..k
  <2>1. g \in Seq(0..k) /\ Len(g) = Len(f) - 1 /\ \A i \in 1..Len(g) : g[i] = f[i + 1]
    BY HeadTailProperties
  <2>2. Len(f) \in Nat /\ Len(g) \in Nat /\ Len(f) # 0
    BY <2>1, LenProperties, EmptySeq
  <2>3. f[1] \in 0..k
    BY <2>2, ElementOfSeq
  <2> QED  BY <2>1, <2>2, <2>3
<1>2. /\ \A i \in Nat, j \in Nat : <<i, j>> \in Cells(f) <=> i \in 1..(l + 1) /\ j \in 1..f[i]
      /\ Cells(f) \subseteq (1..(l + 1)) \X (1..k)
      /\ \A i \in Nat, j \in Nat : <<i, j>> \in Cells(g) <=> i \in 1..l /\ j \in 1..g[i]
      /\ Cells(g) \subseteq (1..l) \X (1..k)
  <2> HIDE DEF g
  <2>1. \A i \in Nat, j \in Nat : <<i, j>> \in Cells(f) <=> i \in 1..Len(f) /\ j \in 1..f[i]
    BY CellsAre
  <2>2. Cells(f) \subseteq (1..Len(f)) \X (1..k)
    BY CellsAre
  <2>3. \A i \in Nat, j \in Nat : <<i, j>> \in Cells(g) <=> i \in 1..Len(g) /\ j \in 1..g[i]
    BY <1>1, CellsAre
  <2>4. Cells(g) \subseteq (1..Len(g)) \X (1..k)
    BY <1>1, CellsAre
  <2> QED  BY <1>1, <2>1, <2>2, <2>3, <2>4
<1> HIDE DEF g, l
<1>3. Cells(f) = R \cup S /\ R \cap S = {}
  <2>1. R \subseteq Cells(f)
    <3>1. ASSUME NEW j \in 1..f[1]
          PROVE  <<1, j>> \in Cells(f)
      BY <1>1, <1>2
    <3> QED  BY <3>1
  <2>2. \A x \in Cells(f) : x[1] = 1 => x \in R
    <3>1. ASSUME NEW x \in Cells(f), x[1] = 1
          PROVE  x \in R
      <4>1. x = <<1, x[2]>> /\ x[2] \in Nat
        BY <1>1, <1>2, <3>1
      <4>2. x[2] \in 1..f[1]
        BY <1>2, <3>1, <4>1
      <4> QED  BY <4>1, <4>2
    <3> QED  BY <3>1
  <2> QED  BY <2>1, <2>2
<1>4. h \in Bijection(Cells(g), S)
  <2>1. ASSUME NEW x \in Cells(g)
        PROVE  h[x] \in S
    <3>1. x = <<x[1], x[2]>> /\ x[1] \in 1..l /\ x[2] \in 1..k /\ <<x[1], x[2]>> \in Cells(g)
          /\ x[1] \in Nat /\ x[2] \in Nat
      BY <1>2
    <3>2. x[2] \in 1..g[x[1]] /\ g[x[1]] = f[x[1] + 1]
      BY <1>1, <1>2, <3>1
    <3>3. x[1] + 1 \in 1..(l + 1) /\ x[1] + 1 # 1 /\ x[1] + 1 \in Nat
      BY SMTT(30), <1>1, <3>1
    <3>4. <<x[1] + 1, x[2]>> \in Cells(f)
      BY <1>1, <1>2, <3>1, <3>2, <3>3
    <3> QED  BY <3>3, <3>4
  <2>2. ASSUME NEW y \in S
        PROVE  \E x \in Cells(g) : h[x] = y
    <3>1. y = <<y[1], y[2]>> /\ y[1] \in 1..(l + 1) /\ y[1] # 1 /\ y[2] \in 1..k
          /\ y[1] \in Nat /\ y[2] \in Nat /\ <<y[1], y[2]>> \in Cells(f)
      BY SMTT(30), <1>2
    <3>2. y[2] \in 1..f[y[1]]
      BY <1>2, <3>1
    <3>3. y[1] - 1 \in 1..l /\ y[1] - 1 \in Nat /\ f[y[1]] = g[y[1] - 1] /\ (y[1] - 1) + 1 = y[1]
      BY SMTT(30), <1>1, <3>1
    <3>4. <<y[1] - 1, y[2]>> \in Cells(g)
      BY <1>1, <1>2, <3>1, <3>2, <3>3
    <3> QED  BY <3>1, <3>3, <3>4
  <2>3. ASSUME NEW x \in Cells(g), NEW y \in Cells(g), h[x] = h[y]
        PROVE  x = y
    <3>1. /\ x = <<x[1], x[2]>> /\ x[1] \in 1..l
          /\ y = <<y[1], y[2]>> /\ y[1] \in 1..l
      BY <1>2
    <3>2. x[1] + 1 = y[1] + 1 /\ x[2] = y[2]
      BY <2>3
    <3>3. x[1] = y[1]
      BY <1>1, <3>1, <3>2
    <3> QED  BY <3>1, <3>2, <3>3
  <2>4. h \in [Cells(g) -> S]
    BY <2>1
  <2> HIDE DEF h, S
  <2> QED  BY <2>2, <2>3, <2>4 DEF Bijection, Injection, Surjection, IsInjective
<1>5. IsFiniteSet(Cells(g)) /\ IsFiniteSet(Cells(f)) /\ Cardinality(Cells(g)) \in Nat
  BY <1>1, CellsFinite
<1>6. IsFiniteSet(S) /\ Cardinality(S) = Cardinality(Cells(g))
  BY <1>4, <1>5, FS_Bijection DEF ExistsBijection
<1>7. IsFiniteSet(R) /\ Cardinality(R) = f[1]
  <2>1. f[1] \in Nat
    BY <1>1
  <2> QED  BY <2>1, RowCells
<1> HIDE DEF R, S, h
<1>8. Cardinality(Cells(f)) = Cardinality(R) + Cardinality(S) - Cardinality({})
  BY <1>3, <1>6, <1>7, FS_Union
<1>9. Cardinality({}) = 0
  BY FS_EmptySet
<1> QED  BY <1>1, <1>5, <1>6, <1>7, <1>8, <1>9 DEF g

(* No more cells than rows with any in them, times the longest row.        *)
LEMMA CellsBound ==
    ASSUME NEW k \in Nat, NEW f \in Seq(0..k)
    PROVE  /\ Marks(f) \in Seq(0..1) /\ Len(Marks(f)) = Len(f)
           /\ Cardinality(Cells(f)) <= Cardinality(Cells(Marks(f))) * k
<1> DEFINE g == Marks(f)
           T == Cells(g) \X (1..k)
           h == [x \in Cells(f) |-> << <<x[1], 1>>, x[2]>>]
<1>1. g \in Seq(0..1) /\ Len(g) = Len(f) /\ \A i \in 1..Len(f) : g[i] = IF f[i] = 0 THEN 0 ELSE 1
  BY LenProperties DEF Marks
<1>2. /\ \A i \in Nat, j \in Nat : <<i, j>> \in Cells(f) <=> i \in 1..Len(f) /\ j \in 1..f[i]
      /\ Cells(f) \subseteq (1..Len(f)) \X (1..k)
      /\ \A i \in 1..Len(f) : f[i] \in 0..k
      /\ Len(f) \in Nat
  BY CellsAre
<1>3. \A i \in Nat, j \in Nat : <<i, j>> \in Cells(g) <=> i \in 1..Len(g) /\ j \in 1..g[i]
  <2> HIDE DEF g
  <2> QED  BY <1>1, CellsAre
<1>4. IsFiniteSet(Cells(g)) /\ Cardinality(Cells(g)) \in Nat
  <2> HIDE DEF g
  <2> QED  BY <1>1, CellsFinite
<1> HIDE DEF g
<1>5. IsFiniteSet(T) /\ Cardinality(T) = Cardinality(Cells(g)) * k
  <2>1. IsFiniteSet(1..k) /\ Cardinality(1..k) = k
    BY UpTo
  <2> QED  BY <1>4, <2>1, FS_Product
<1>6. h \in Injection(Cells(f), T)
  <2>1. ASSUME NEW x \in Cells(f)
        PROVE  h[x] \in T
    <3>1. x = <<x[1], x[2]>> /\ x[1] \in 1..Len(f) /\ x[2] \in 1..k
          /\ <<x[1], x[2]>> \in Cells(f) /\ x[1] \in Nat /\ x[2] \in Nat
      BY <1>2
    <3>2. x[2] \in 1..f[x[1]] /\ f[x[1]] \in 0..k
      BY <1>2, <3>1
    <3>3. g[x[1]] = 1
      BY <1>1, <3>1, <3>2
    <3>4. <<x[1], 1>> \in Cells(g)
      BY <1>1, <1>2, <1>3, <3>1, <3>3
    <3> QED  BY <3>1, <3>4
  <2>2. ASSUME NEW x \in Cells(f), NEW y \in Cells(f), h[x] = h[y]
        PROVE  x = y
    <3>1. x = <<x[1], x[2]>> /\ y = <<y[1], y[2]>>
      BY <1>2
    <3>2. x[1] = y[1] /\ x[2] = y[2]
      BY <2>2
    <3> QED  BY <3>1, <3>2
  <2>3. h \in [Cells(f) -> T]
    BY <2>1
  <2> HIDE DEF h, T
  <2> QED  BY <2>2, <2>3 DEF Injection, IsInjective
<1> HIDE DEF h, T
<1>7. Cardinality(Cells(f)) <= Cardinality(T)
  BY <1>5, <1>6, FS_Injection
<1> QED  BY <1>1, <1>5, <1>7 DEF g
-----------------------------------------------------------------------------
(* The records queued, and what a message more or less makes of them.      *)
LEMMA QueueTable ==
    ASSUME NEW q \in Seq(Messages), Fits(q)
    PROVE  /\ RecordsOf(q) \in Seq(0..Capacity)
           /\ InMessages(q) = Cardinality(Cells(RecordsOf(q)))
           /\ Marks(RecordsOf(q)) \in Seq(0..1)
           /\ InMessages(q) \in Nat /\ Loaded(q) \in Nat
           /\ InMessages(q) <= Loaded(q) * Capacity
           /\ Loaded(q) <= Len(q)
<1> DEFINE f == RecordsOf(q)
<1>1. Len(q) \in Nat /\ \A i \in 1..Len(q) : q[i].recs \in Seq(Nat)
  <2>1. \A i \in 1..Len(q) : q[i] \in Messages
    BY ElementOfSeq
  <2> QED  BY <2>1, LenProperties DEF Messages
<1>2. \A i \in 1..Len(q) : Len(q[i].recs) \in 0..Capacity
  <2> SUFFICES ASSUME NEW i \in 1..Len(q) PROVE Len(q[i].recs) \in 0..Capacity
    OBVIOUS
  <2>1. Len(q[i].recs) \in Nat /\ Len(q[i].recs) <= Capacity
    BY <1>1, LenProperties DEF Fits
  <2> QED  BY <2>1, CapacityAssumption
<1>3. f \in Seq(0..Capacity) /\ Len(f) = Len(q) /\ \A i \in 1..Len(q) : f[i] = Len(q[i].recs)
  BY <1>1, <1>2 DEF RecordsOf
<1>4. InMessages(q) = Cardinality(Cells(f))
  <2> DEFINE A == UNION { {<<i, j>> : j \in 1..Len(q[i].recs)} : i \in 1..Len(q) }
  <2>1. \A x : x \in A <=> \E i \in 1..Len(q) : \E j \in 1..Len(q[i].recs) : x = <<i, j>>
    OBVIOUS
  <2>2. \A x : x \in Cells(f) <=> \E i \in 1..Len(f) : \E j \in 1..f[i] : x = <<i, j>>
    BY DEF Cells
  <2>3. InMessages(q) = Cardinality(A)
    BY DEF InMessages
  <2> HIDE DEF A, f
  <2>4. A = Cells(f)
    BY <1>3, <2>1, <2>2
  <2> QED  BY <2>3, <2>4
<1>5. Capacity \in Nat
  BY CapacityAssumption
<1> HIDE DEF f
<1>6. /\ Marks(f) \in Seq(0..1) /\ Len(Marks(f)) = Len(f)
      /\ Cardinality(Cells(f)) <= Cardinality(Cells(Marks(f))) * Capacity
  BY <1>3, <1>5, CellsBound
<1>7. Cardinality(Cells(f)) \in Nat
  BY <1>3, <1>5, CellsFinite
<1>8. Cardinality(Cells(Marks(f))) \in Nat /\ Cardinality(Cells(Marks(f))) <= Len(Marks(f)) * 1
  BY <1>6, CellsFinite
<1>9. Len(Marks(f)) * 1 = Len(q)
  BY <1>1, <1>3, <1>6
<1> QED  BY <1>3, <1>4, <1>6, <1>7, <1>8, <1>9 DEF f, Loaded

LEMMA Queued ==
    ASSUME NEW q \in Seq(Messages), Fits(q), NEW m \in Messages, Len(m.recs) <= Capacity
    PROVE  /\ Fits(Append(q, m))
           /\ InMessages(Append(q, m)) = InMessages(q) + Len(m.recs)
           /\ Loaded(Append(q, m)) = Loaded(q) + IF m.recs = <<>> THEN 0 ELSE 1
<1> DEFINE f == RecordsOf(q)
           p == Append(q, m)
           n == Len(m.recs)
           k == IF n = 0 THEN 0 ELSE 1
<1>1. /\ p \in Seq(Messages) /\ Len(p) = Len(q) + 1 /\ p[Len(q) + 1] = m
      /\ \A i \in 1..Len(q) : p[i] = q[i]
      /\ Len(q) \in Nat
  BY AppendProperties, LenProperties
<1>2. Fits(p)
  BY <1>1 DEF Fits
<1>3. m.recs \in Seq(Nat) /\ n \in 0..Capacity /\ (n = 0 <=> m.recs = <<>>)
  <2>1. m.recs \in Seq(Nat)
    BY DEF Messages
  <2>2. n \in Nat /\ (n = 0 <=> m.recs = <<>>)
    BY <2>1, LenProperties, EmptySeq
  <2> QED  BY <2>1, <2>2, CapacityAssumption
<1>4. f \in Seq(0..Capacity) /\ Marks(f) \in Seq(0..1) /\ InMessages(q) = Cardinality(Cells(f))
  BY QueueTable
<1>5. InMessages(p) = Cardinality(Cells(RecordsOf(p)))
  BY <1>1, <1>2, QueueTable
<1>6. Len(f) = Len(q) /\ \A i \in 1..Len(q) : f[i] = Len(q[i].recs)
  BY <1>1 DEF RecordsOf
<1>7. RecordsOf(p) = Append(f, n)
  <2> HIDE DEF f, n, p
  <2>1. /\ Append(f, n) \in Seq(0..Capacity) /\ Len(Append(f, n)) = Len(q) + 1
        /\ Append(f, n)[Len(q) + 1] = n /\ \A i \in 1..Len(q) : Append(f, n)[i] = f[i]
    BY <1>3, <1>4, <1>6, AppendProperties
  <2>2. /\ RecordsOf(p) \in Seq(0..Capacity)
        /\ Len(RecordsOf(p)) = Len(q) + 1
        /\ \A i \in 1..(Len(q) + 1) : RecordsOf(p)[i] = Len(p[i].recs)
    <3>1. RecordsOf(p) \in Seq(0..Capacity)
      BY <1>1, <1>2, QueueTable
    <3> QED  BY <1>1, <3>1 DEF RecordsOf
  <2>3. \A i \in 1..(Len(q) + 1) : RecordsOf(p)[i] = Append(f, n)[i]
    <3> SUFFICES ASSUME NEW i \in 1..(Len(q) + 1) PROVE RecordsOf(p)[i] = Append(f, n)[i]
      OBVIOUS
    <3>1. CASE i = Len(q) + 1
      BY <1>1, <2>1, <2>2, <3>1 DEF n
    <3>2. CASE i \in 1..Len(q)
      BY <1>1, <1>6, <2>1, <2>2, <3>2
    <3>3. i = Len(q) + 1 \/ i \in 1..Len(q)
      BY <1>1
    <3> QED  BY <3>1, <3>2, <3>3
  <2> QED  BY <2>1, <2>2, <2>3, SeqEqual
<1>8. Marks(Append(f, n)) = Append(Marks(f), k)
  <2> HIDE DEF f, n, p, k
  <2>1. /\ Append(f, n) \in Seq(0..Capacity) /\ Len(Append(f, n)) = Len(f) + 1
        /\ Append(f, n)[Len(f) + 1] = n /\ \A i \in 1..Len(f) : Append(f, n)[i] = f[i]
        /\ Len(f) \in Nat
    BY <1>3, <1>4, AppendProperties, LenProperties
  <2>2. k \in 0..1
    BY DEF k
  <2>3. Len(Marks(f)) = Len(f) /\ \A i \in 1..Len(f) : Marks(f)[i] = IF f[i] = 0 THEN 0 ELSE 1
    BY <2>1 DEF Marks
  <2>4. /\ Append(Marks(f), k) \in Seq(0..1) /\ Len(Append(Marks(f), k)) = Len(f) + 1
        /\ Append(Marks(f), k)[Len(f) + 1] = k
        /\ \A i \in 1..Len(f) : Append(Marks(f), k)[i] = Marks(f)[i]
    BY <1>4, <2>2, <2>3, AppendProperties
  <2>5. /\ Marks(Append(f, n)) \in Seq(0..1) /\ Len(Marks(Append(f, n))) = Len(f) + 1
        /\ \A i \in 1..(Len(f) + 1) :
              Marks(Append(f, n))[i] = IF Append(f, n)[i] = 0 THEN 0 ELSE 1
    BY <2>1, CellsBound, CapacityAssumption DEF Marks
  <2>6. \A i \in 1..(Len(f) + 1) : Marks(Append(f, n))[i] = Append(Marks(f), k)[i]
    <3> SUFFICES ASSUME NEW i \in 1..(Len(f) + 1)
                 PROVE  Marks(Append(f, n))[i] = Append(Marks(f), k)[i]
      OBVIOUS
    <3>1. CASE i = Len(f) + 1
      BY <2>1, <2>4, <2>5, <3>1 DEF k
    <3>2. CASE i \in 1..Len(f)
      BY <2>1, <2>3, <2>4, <2>5, <3>2
    <3>3. i = Len(f) + 1 \/ i \in 1..Len(f)
      BY <2>1
    <3> QED  BY <3>1, <3>2, <3>3
  <2> QED  BY <2>4, <2>5, <2>6, SeqEqual
<1>9. Cardinality(Cells(Append(f, n))) = Cardinality(Cells(f)) + n
  BY <1>3, <1>4, CapacityAssumption, CellsAppend
<1>10. Cardinality(Cells(Append(Marks(f), k))) = Cardinality(Cells(Marks(f))) + k
  BY <1>4, CellsAppend
<1> HIDE DEF f, p
<1> QED  BY <1>2, <1>3, <1>4, <1>5, <1>7, <1>8, <1>9, <1>10 DEF Loaded, f, p

LEMMA Unqueued ==
    ASSUME NEW q \in Seq(Messages), Fits(q), q # <<>>
    PROVE  /\ Fits(Tail(q)) /\ Len(Head(q).recs) <= Capacity
           /\ InMessages(q) = Len(Head(q).recs) + InMessages(Tail(q))
           /\ Loaded(q) = (IF Head(q).recs = <<>> THEN 0 ELSE 1) + Loaded(Tail(q))
<1> DEFINE f == RecordsOf(q)
           p == Tail(q)
           n == Len(Head(q).recs)
<1>1. /\ p \in Seq(Messages) /\ Len(p) = Len(q) - 1 /\ \A i \in 1..Len(p) : p[i] = q[i + 1]
      /\ Len(q) \in Nat /\ Len(q) # 0 /\ Len(p) \in Nat /\ Head(q) = q[1] /\ Head(q) \in Messages
  BY HeadTailProperties, LenProperties, EmptySeq
<1>2. 1 \in 1..Len(q) /\ \A i \in 1..Len(p) : i + 1 \in 1..Len(q)
  BY <1>1
<1>3. Fits(p) /\ n <= Capacity
  BY <1>1, <1>2 DEF Fits
<1>4. Head(q).recs \in Seq(Nat) /\ n \in Nat /\ (n = 0 <=> Head(q).recs = <<>>)
  <2>1. Head(q).recs \in Seq(Nat)
    BY <1>1 DEF Messages
  <2> QED  BY <2>1, LenProperties, EmptySeq
<1>5. f \in Seq(0..Capacity) /\ Marks(f) \in Seq(0..1) /\ InMessages(q) = Cardinality(Cells(f))
  BY QueueTable
<1>6. /\ RecordsOf(p) \in Seq(0..Capacity) /\ Marks(RecordsOf(p)) \in Seq(0..1)
      /\ InMessages(p) = Cardinality(Cells(RecordsOf(p)))
  BY <1>1, <1>3, QueueTable
<1>7. Len(f) = Len(q) /\ \A i \in 1..Len(q) : f[i] = Len(q[i].recs)
  BY <1>1 DEF RecordsOf
<1>8. Len(RecordsOf(p)) = Len(p) /\ \A i \in 1..Len(p) : RecordsOf(p)[i] = Len(p[i].recs)
  BY <1>1 DEF RecordsOf
<1>9. f # <<>> /\ f[1] = n
  BY <1>1, <1>2, <1>7, EmptySeq
<1> HIDE DEF f, p, n
<1>10. Tail(f) \in Seq(0..Capacity) /\ Len(Tail(f)) = Len(p)
       /\ \A i \in 1..Len(p) : Tail(f)[i] = f[i + 1]
  BY <1>1, <1>5, <1>7, <1>9, HeadTailProperties
<1>11. Tail(f) = RecordsOf(p)
  <2>1. \A i \in 1..Len(p) : Tail(f)[i] = RecordsOf(p)[i]
    BY <1>1, <1>2, <1>7, <1>8, <1>10
  <2> QED  BY <1>6, <1>8, <1>10, <2>1, SeqEqual
<1>12. Len(Marks(f)) = Len(f) /\ \A i \in 1..Len(f) : Marks(f)[i] = IF f[i] = 0 THEN 0 ELSE 1
  BY <1>1, <1>7 DEF Marks
<1>13. Marks(f) # <<>> /\ Marks(f)[1] = IF n = 0 THEN 0 ELSE 1
  BY <1>1, <1>2, <1>7, <1>9, <1>12, EmptySeq
<1>14. Tail(Marks(f)) \in Seq(0..1) /\ Len(Tail(Marks(f))) = Len(p)
       /\ \A i \in 1..Len(p) : Tail(Marks(f))[i] = Marks(f)[i + 1]
  BY <1>1, <1>5, <1>7, <1>12, <1>13, HeadTailProperties
<1>15. Len(Marks(RecordsOf(p))) = Len(p)
       /\ \A i \in 1..Len(p) :
             Marks(RecordsOf(p))[i] = IF RecordsOf(p)[i] = 0 THEN 0 ELSE 1
  BY <1>1, <1>8 DEF Marks
<1>16. Tail(Marks(f)) = Marks(RecordsOf(p))
  <2>1. ASSUME NEW i \in 1..Len(p)
        PROVE  Tail(Marks(f))[i] = Marks(RecordsOf(p))[i]
    <3>1. i + 1 \in 1..Len(q) /\ f[i + 1] = RecordsOf(p)[i]
      BY <1>1, <1>2, <1>7, <1>8
    <3>2. Tail(Marks(f))[i] = IF f[i + 1] = 0 THEN 0 ELSE 1
      BY <1>7, <1>12, <1>14, <3>1
    <3> QED  BY <1>15, <3>1, <3>2
  <2> QED  BY <1>6, <1>14, <1>15, <2>1, SeqEqual
<1>17. Cardinality(Cells(f)) = f[1] + Cardinality(Cells(Tail(f)))
  BY <1>5, <1>9, CapacityAssumption, CellsTail
<1>18. Cardinality(Cells(Marks(f))) = Marks(f)[1] + Cardinality(Cells(Tail(Marks(f))))
  BY <1>5, <1>13, CellsTail
<1> QED  BY <1>3, <1>4, <1>5, <1>6, <1>9, <1>11, <1>13, <1>16, <1>17, <1>18 DEF f, p, n, Loaded

(* The same for the batches handed back.                                   *)
LEMMA ReturnTable ==
    ASSUME NEW b \in Seq(Seq(Nat)), Returnable(b)
    PROVE  /\ Lengths(b) \in Seq(0..Capacity)
           /\ InBatches(b) = Cardinality(Cells(Lengths(b)))
           /\ InBatches(b) \in Nat /\ Len(b) \in Nat
           /\ InBatches(b) <= Len(b) * Capacity
<1> DEFINE f == Lengths(b)
<1>1. Len(b) \in Nat /\ \A i \in 1..Len(b) : b[i] \in Seq(Nat)
  BY ElementOfSeq, LenProperties
<1>2. \A i \in 1..Len(b) : Len(b[i]) \in 0..Capacity
  <2> SUFFICES ASSUME NEW i \in 1..Len(b) PROVE Len(b[i]) \in 0..Capacity
    OBVIOUS
  <2>1. Len(b[i]) \in Nat /\ Len(b[i]) <= Capacity
    BY <1>1, LenProperties DEF Returnable
  <2> QED  BY <2>1, CapacityAssumption
<1>3. f \in Seq(0..Capacity) /\ Len(f) = Len(b) /\ \A i \in 1..Len(b) : f[i] = Len(b[i])
  BY <1>1, <1>2 DEF Lengths
<1>4. InBatches(b) = Cardinality(Cells(f))
  <2> DEFINE A == UNION { {<<i, j>> : j \in 1..Len(b[i])} : i \in 1..Len(b) }
  <2>1. ASSUME NEW x
        PROVE  x \in A <=> \E i \in 1..Len(b) : \E j \in 1..Len(b[i]) : x = <<i, j>>
    <3> DEFINE Row(i) == {<<i, j>> : j \in 1..Len(b[i])}
    <3>1. x \in A <=> \E i \in 1..Len(b) : x \in Row(i)
      OBVIOUS
    <3>2. \A i : x \in Row(i) <=> \E j \in 1..Len(b[i]) : x = <<i, j>>
      OBVIOUS
    <3> QED  BY <3>1, <3>2
  <2>2. \A x : x \in Cells(f) <=> \E i \in 1..Len(f) : \E j \in 1..f[i] : x = <<i, j>>
    BY DEF Cells
  <2>3. InBatches(b) = Cardinality(A)
    BY DEF InBatches
  <2> HIDE DEF A, f
  <2>4. A = Cells(f)
    BY <1>3, <2>1, <2>2
  <2> QED  BY <2>3, <2>4
<1> HIDE DEF f
<1>5. Cardinality(Cells(f)) \in Nat /\ Cardinality(Cells(f)) <= Len(f) * Capacity
  BY <1>3, CapacityAssumption, CellsFinite
<1> QED  BY <1>1, <1>3, <1>4, <1>5 DEF f

LEMMA HandedBack ==
    ASSUME NEW b \in Seq(Seq(Nat)), Returnable(b), NEW s \in Seq(Nat), Len(s) <= Capacity
    PROVE  /\ Returnable(Append(b, s))
           /\ InBatches(Append(b, s)) = InBatches(b) + Len(s)
<1> DEFINE f == Lengths(b)
           p == Append(b, s)
           n == Len(s)
<1>1. /\ p \in Seq(Seq(Nat)) /\ Len(p) = Len(b) + 1 /\ p[Len(b) + 1] = s
      /\ \A i \in 1..Len(b) : p[i] = b[i]
      /\ Len(b) \in Nat /\ n \in Nat
  BY AppendProperties, LenProperties
<1>2. Returnable(p)
  BY <1>1 DEF Returnable
<1>3. /\ f \in Seq(0..Capacity) /\ InBatches(b) = Cardinality(Cells(f))
      /\ Lengths(p) \in Seq(0..Capacity) /\ InBatches(p) = Cardinality(Cells(Lengths(p)))
  BY <1>1, <1>2, ReturnTable
<1>4. /\ Len(f) = Len(b) /\ \A i \in 1..Len(b) : f[i] = Len(b[i])
      /\ Len(Lengths(p)) = Len(b) + 1
      /\ \A i \in 1..(Len(b) + 1) : Lengths(p)[i] = Len(p[i])
  BY <1>1 DEF Lengths
<1>5. n \in 0..Capacity
  BY <1>1, CapacityAssumption
<1>6. Lengths(p) = Append(f, n)
  <2> HIDE DEF f, n, p
  <2>1. /\ Append(f, n) \in Seq(0..Capacity) /\ Len(Append(f, n)) = Len(b) + 1
        /\ Append(f, n)[Len(b) + 1] = n /\ \A i \in 1..Len(b) : Append(f, n)[i] = f[i]
    BY <1>3, <1>4, <1>5, AppendProperties
  <2>2. \A i \in 1..(Len(b) + 1) : Lengths(p)[i] = Append(f, n)[i]
    <3> SUFFICES ASSUME NEW i \in 1..(Len(b) + 1) PROVE Lengths(p)[i] = Append(f, n)[i]
      OBVIOUS
    <3>1. CASE i = Len(b) + 1
      BY <1>1, <1>4, <2>1, <3>1 DEF n
    <3>2. CASE i \in 1..Len(b)
      BY <1>1, <1>4, <2>1, <3>2
    <3>3. i = Len(b) + 1 \/ i \in 1..Len(b)
      BY <1>1
    <3> QED  BY <3>1, <3>2, <3>3
  <2> QED  BY <1>3, <1>4, <2>1, <2>2, SeqEqual
<1>7. Cardinality(Cells(Append(f, n))) = Cardinality(Cells(f)) + n
  BY <1>3, <1>5, CapacityAssumption, CellsAppend
<1> HIDE DEF f, p
<1> QED  BY <1>2, <1>3, <1>6, <1>7 DEF p

LEMMA TakenBack ==
    ASSUME NEW b \in Seq(Seq(Nat)), Returnable(b), b # <<>>
    PROVE  /\ Returnable(Tail(b))
           /\ InBatches(b) = Len(Head(b)) + InBatches(Tail(b))
           /\ Len(Head(b)) \in Nat
<1> DEFINE f == Lengths(b)
           p == Tail(b)
           n == Len(Head(b))
<1>1. /\ p \in Seq(Seq(Nat)) /\ Len(p) = Len(b) - 1 /\ \A i \in 1..Len(p) : p[i] = b[i + 1]
      /\ Len(b) \in Nat /\ Len(b) # 0 /\ Len(p) \in Nat /\ Head(b) = b[1] /\ n \in Nat
  BY HeadTailProperties, LenProperties, EmptySeq
<1>2. 1 \in 1..Len(b) /\ \A i \in 1..Len(p) : i + 1 \in 1..Len(b)
  BY <1>1
<1>3. Returnable(p)
  BY <1>1, <1>2 DEF Returnable
<1>4. /\ f \in Seq(0..Capacity) /\ InBatches(b) = Cardinality(Cells(f))
      /\ Lengths(p) \in Seq(0..Capacity) /\ InBatches(p) = Cardinality(Cells(Lengths(p)))
  BY <1>1, <1>3, ReturnTable
<1>5. /\ Len(f) = Len(b) /\ \A i \in 1..Len(b) : f[i] = Len(b[i])
      /\ Len(Lengths(p)) = Len(p) /\ \A i \in 1..Len(p) : Lengths(p)[i] = Len(p[i])
  BY <1>1 DEF Lengths
<1>6. f # <<>> /\ f[1] = n
  BY <1>1, <1>2, <1>5, EmptySeq
<1> HIDE DEF f, p, n
<1>7. Tail(f) \in Seq(0..Capacity) /\ Len(Tail(f)) = Len(p)
      /\ \A i \in 1..Len(p) : Tail(f)[i] = f[i + 1]
  BY <1>1, <1>4, <1>5, <1>6, HeadTailProperties
<1>8. Tail(f) = Lengths(p)
  <2>1. \A i \in 1..Len(p) : Tail(f)[i] = Lengths(p)[i]
    BY <1>1, <1>2, <1>5, <1>7
  <2>2. Len(Tail(f)) = Len(Lengths(p)) /\ \A i \in 1..Len(Tail(f)) : Tail(f)[i] = Lengths(p)[i]
    BY <1>5, <1>7, <2>1
  <2> QED  BY <1>4, <1>7, <2>2, SeqEqual
<1>9. Cardinality(Cells(f)) = f[1] + Cardinality(Cells(Tail(f)))
  BY <1>4, <1>6, CapacityAssumption, CellsTail
<1> QED  BY <1>1, <1>3, <1>4, <1>6, <1>8, <1>9 DEF p, n

-----------------------------------------------------------------------------
(* What a worker has, in numbers.                                          *)
Measured(w) ==
    /\ Len(batch[w]) \in Nat /\ pool[w] \in Nat /\ Len(InHand(w)) \in Nat
    /\ queue[w] \in Seq(Messages) /\ returns[w] \in Seq(Seq(Nat))
    /\ InMessages(queue[w]) \in Nat /\ InBatches(returns[w]) \in Nat
    /\ Loaded(queue[w]) \in Nat /\ Len(returns[w]) \in Nat /\ Loads(w) \in Nat
    /\ Loaded(queue[w]) <= QueueDepth
    /\ InMessages(queue[w]) <= Loaded(queue[w]) * Capacity
    /\ InBatches(returns[w]) <= Len(returns[w]) * Capacity
    /\ (InHand(w) = <<>> <=> Len(InHand(w)) = 0)
    /\ InHand(w) \in Seq(Nat)
    /\ Buffers(w) = pool[w] + Len(batch[w]) + InMessages(queue[w])
                      + InBatches(returns[w]) + Len(InHand(w))

LEMMA BufferTypes ==
    \A w \in Workers : TypeOK /\ Fits(queue[w]) /\ Returnable(returns[w]) => Measured(w)
<1> SUFFICES ASSUME NEW w \in Workers, TypeOK, Fits(queue[w]), Returnable(returns[w])
             PROVE  Measured(w)
  OBVIOUS
<1>1. /\ batch[w] \in Seq(Nat) /\ pool[w] \in Nat /\ held \in Seq(Nat) /\ <<>> \in Seq(Nat)
      /\ queue[w] \in Seq(Messages) /\ returns[w] \in Seq(Seq(Nat))
      /\ Len(queue[w]) <= QueueDepth /\ Len(<<>>) = 0
  BY EmptySeq DEF TypeOK
<1>2. InHand(w) \in Seq(Nat)
  BY <1>1 DEF InHand
<1>3. /\ Len(batch[w]) \in Nat /\ Len(InHand(w)) \in Nat /\ Len(queue[w]) \in Nat
      /\ (InHand(w) = <<>> <=> Len(InHand(w)) = 0)
  BY <1>1, <1>2, LenProperties, EmptySeq
<1>4. /\ InMessages(queue[w]) \in Nat /\ Loaded(queue[w]) \in Nat
      /\ InMessages(queue[w]) <= Loaded(queue[w]) * Capacity
      /\ Loaded(queue[w]) <= Len(queue[w])
  BY <1>1, QueueTable
<1>5. /\ InBatches(returns[w]) \in Nat /\ Len(returns[w]) \in Nat
      /\ InBatches(returns[w]) <= Len(returns[w]) * Capacity
  BY <1>1, ReturnTable
<1>6. Buffers(w) = pool[w] + Len(batch[w]) + InMessages(queue[w])
                     + InBatches(returns[w]) + Len(InHand(w))
  BY <1>1 DEF Buffers, InHand
<1>7. Loads(w) \in Nat
  BY <1>4, <1>5 DEF Loads
<1>8. Loaded(queue[w]) <= QueueDepth
  BY <1>1, <1>3, <1>4, QueueDepthAssumption
<1> QED  BY <1>1, <1>2, <1>3, <1>4, <1>5, <1>6, <1>7, <1>8 DEF Measured

LEMMA BufferTypesNext ==
    \A w \in Workers : TypeOK' /\ Fits(queue'[w]) /\ Returnable(returns'[w]) => Measured(w)'
<1>1. (\A w \in Workers : TypeOK /\ Fits(queue[w]) /\ Returnable(returns[w]) => Measured(w))'
  BY BufferTypes, PTL
<1> QED  BY <1>1 DEF Workers

(* The batches on their way leave room for the one being filled.           *)
LEMMA Room ==
    ASSUME TypeOK, NEW w \in Workers, Recycles(w), pc[w] # "reuse"
    PROVE  Buffers(w) <= pool[w] + Len(batch[w]) + (QueueDepth + 1) * Capacity
<1> DEFINE a == Loaded(queue[w])
           b == Len(returns[w])
           h == IF InHand(w) = <<>> THEN 0 ELSE 1
           x == InMessages(queue[w])
           y == InBatches(returns[w])
           z == Len(InHand(w))
<1>1. /\ a \in Nat /\ b \in Nat /\ x \in Nat /\ y \in Nat /\ z \in Nat /\ h \in Nat
      /\ x <= a * Capacity /\ y <= b * Capacity /\ z <= h * Capacity
  BY BufferTypes, CapacityAssumption DEF Recycles, Measured
<1>0. /\ pool[w] \in Nat /\ Len(batch[w]) \in Nat /\ x \in Nat /\ y \in Nat /\ z \in Nat
      /\ Buffers(w) = pool[w] + Len(batch[w]) + x + y + z
  BY BufferTypes DEF Recycles, Measured
<1>2. a + b + h <= QueueDepth + 1
  BY DEF Recycles, InFlight, Loads
<1>3. QueueDepth \in Nat /\ Capacity \in Nat
  BY QueueDepthAssumption, CapacityAssumption
<1> HIDE DEF a, b, h, x, y, z
<1>4. (a + b + h) * Capacity <= (QueueDepth + 1) * Capacity
  BY <1>1, <1>2, <1>3
<1>5. (a + b + h) * Capacity = a * Capacity + b * Capacity + h * Capacity
      /\ a * Capacity \in Nat /\ b * Capacity \in Nat /\ h * Capacity \in Nat
      /\ (QueueDepth + 1) * Capacity \in Nat
  BY <1>1, <1>3
<1> DEFINE p == a * Capacity
           q == b * Capacity
           r == h * Capacity
           s == (QueueDepth + 1) * Capacity
<1>6. /\ p \in Nat /\ q \in Nat /\ r \in Nat /\ s \in Nat
      /\ p + q + r <= s /\ x <= p /\ y <= q /\ z <= r
  BY <1>1, <1>4, <1>5
<1> DEFINE m == pool[w] + Len(batch[w])
<1>7. m \in Nat /\ x \in Nat /\ y \in Nat /\ z \in Nat /\ Buffers(w) = m + x + y + z
  BY <1>0
<1> HIDE DEF p, q, r, s, m
<1>8. m + x + y + z <= m + s
  BY <1>6, <1>7
<1> QED  BY <1>7, <1>8 DEF s, m

(* Nothing of this worker's changes.                                       *)
LEMMA RecyclesElsewhere ==
    ASSUME NEW w, Recycles(w), InHand(w)' = InHand(w),
           UNCHANGED <<pc[w], batch[w], pool[w], queue[w], returns[w]>>
    PROVE  Recycles(w)'
<1>1. /\ pc'[w] = pc[w] /\ batch'[w] = batch[w] /\ pool'[w] = pool[w]
      /\ queue'[w] = queue[w] /\ returns'[w] = returns[w] /\ InHand(w)' = InHand(w)
  OBVIOUS
<1>2. Filling(w)' /\ Fits(queue[w])' /\ Returnable(returns[w])' /\ Len(InHand(w))' <= Capacity
  BY <1>1 DEF Recycles, Filling, Fits, Returnable
<1>3. InFlight(w)'
  BY <1>1 DEF Recycles, InFlight, Loads
<1>4. /\ Buffers(w) = pool[w] + Len(batch[w]) + InMessages(queue[w]) + InBatches(returns[w])
                        + IF at \in Chunks(doc) /\ w = Owner(at) THEN Len(held) ELSE 0
      /\ (IF at \in Chunks(doc) /\ w = Owner(at) THEN Len(held) ELSE 0) = Len(InHand(w))
  BY EmptySeq DEF Buffers, InHand
<1>5. /\ Buffers(w)' = pool'[w] + Len(batch'[w]) + InMessages(queue'[w]) + InBatches(returns'[w])
                        + (IF at \in Chunks(doc) /\ w = Owner(at) THEN Len(held) ELSE 0)'
      /\ (IF at \in Chunks(doc) /\ w = Owner(at) THEN Len(held) ELSE 0)' = Len(InHand(w)')
  BY EmptySeq DEF Buffers, InHand
<1>6. Buffers(w)' = Buffers(w)
  BY <1>1, <1>4, <1>5
<1> QED  BY <1>2, <1>3, <1>6 DEF Recycles

(* A worker's step moves buffers from one place to another: it gains one   *)
(* only when it reads a record with an empty pool, and then there is room. *)
LEMMA WorkRecycles ==
    ASSUME IInv, Recycling, NEW w \in Spawned, Work(w)
    PROVE  Recycling'
<1>1. /\ TypeOK /\ TypeOK' /\ w \in Workers /\ Recycles(w) /\ Workers' = Workers
      /\ UNCHANGED <<doc, consumer, returned>>
  BY WorkType, WorkAlone, Dealt DEF IInv, TypeOK, Recycling, Workers
<1>2. \A v \in Workers : InHand(v)' = InHand(v)
  BY <1>1 DEF InHand, consumer, Owner, Active
<1>3. ASSUME NEW v \in Workers, v # w
      PROVE  Recycles(v)'
  <2>1. UNCHANGED <<pc[v], batch[v], queue[v]>>
    BY <1>1, <1>3, WorkAlone DEF Own
  <2>2. UNCHANGED <<pool[v], returns[v]>>
    BY ZenonT(60), <1>1, <1>3 DEF TypeOK, Work, Build, ReadRecord, ReadFailure, ReadNothing, SendBatch, Reuse,
                      SendDone, SendFailed
  <2> QED  BY <1>2, <2>1, <2>2, RecyclesElsewhere DEF Recycling
<1> SUFFICES Recycles(w)'
  BY <1>1, <1>3 DEF Recycling
<1> DEFINE p == pool[w]  l == Len(batch[w])   x == InMessages(queue[w])   y == InBatches(returns[w])
           P == pool'[w] L == Len(batch'[w])  X == InMessages(queue'[w])  Y == InBatches(returns'[w])
           a == Loaded(queue[w])   r == Len(returns[w])
           A == Loaded(queue'[w])  R == Len(returns'[w])
           h == Len(InHand(w))     k == IF InHand(w) = <<>> THEN 0 ELSE 1
           b == Buffers(w)         B == Buffers(w)'
           room == (QueueDepth + 1) * Capacity
           room2 == (QueueDepth + 2) * Capacity
<1>4. /\ Filling(w) /\ Fits(queue[w]) /\ Returnable(returns[w]) /\ h <= Capacity
      /\ InFlight(w) /\ b <= room2
  BY <1>1 DEF Recycles
<1>5. /\ p \in Nat /\ l \in Nat /\ x \in Nat /\ y \in Nat /\ h \in Nat /\ a \in Nat /\ r \in Nat
      /\ queue[w] \in Seq(Messages) /\ returns[w] \in Seq(Seq(Nat)) /\ batch[w] \in Seq(Nat)
      /\ next[w] \in Nat /\ chunk[w] \in Nat
      /\ a <= QueueDepth /\ b = p + l + x + y + h /\ k \in {0, 1}
  BY <1>1, <1>4, BufferTypes DEF Measured, TypeOK
<1>6. /\ QueueDepth \in Nat /\ Capacity \in Nat /\ Capacity # 0 /\ Len(<<>>) = 0 /\ <<>> \in Seq(Nat)
      /\ room \in Nat /\ room2 = room + Capacity
  BY QueueDepthAssumption, CapacityAssumption, EmptySeq
<1>7. /\ a + r + k <= IF pc[w] = "reuse" THEN QueueDepth + 2 ELSE QueueDepth + 1
      /\ pc[w] # "reuse" => b <= p + l + room
  BY <1>1, <1>4, Room DEF InFlight, Loads
<1>8. ASSUME Fits(queue'[w]), Returnable(returns'[w]), Filling(w)',
             A + R + k <= IF pc'[w] = "reuse" THEN QueueDepth + 2 ELSE QueueDepth + 1,
             P + L + X + Y <= p + l + x + y
             \/ (pc[w] # "reuse" /\ X = x /\ Y = y /\ P + L <= Capacity)
      PROVE  Recycles(w)'
  <2>1. Measured(w)'
    BY <1>1, <1>8, BufferTypesNext
  <2>2. Len(InHand(w))' = h /\ (IF InHand(w) = <<>> THEN 0 ELSE 1)' = k
    BY <1>1, <1>2
  <2>3. P \in Nat /\ L \in Nat /\ X \in Nat /\ Y \in Nat /\ B = P + L + X + Y + h
    BY <2>1, <2>2 DEF Measured
  <2>4. Len(InHand(w))' <= Capacity /\ Fits(queue[w])' /\ Returnable(returns[w])'
    BY <1>4, <1>8, <2>2
  <2>5. Loads(w)' = A + R + k
    BY <2>2 DEF Loads
  <2>6. InFlight(w)'
    BY <1>8, <2>5 DEF InFlight
  <2> HIDE DEF p, l, x, y, P, L, X, Y, a, r, A, R, h, k, b, B, room, room2
  <2>7. B <= room2
    BY <1>4, <1>5, <1>6, <1>7, <1>8, <2>3
  <2> QED  BY <1>8, <2>4, <2>6, <2>7 DEF Recycles, B, room2
<1> HIDE DEF x, y, X, Y, a, A, h, k, b, B, room, room2
<1>9. CASE Build(w)
  <2>1. /\ UNCHANGED <<queue[w], returns[w], pool[w], batch[w]>> /\ pc'[w] \in {"read", "fail"}
        /\ pc[w] = "build"
    BY <1>1, <1>9 DEF Build, TypeOK
  <2>2. Filling(w)'
    BY <1>4, <1>6, <2>1 DEF Filling
  <2>3. X = x /\ Y = y /\ A = a
    BY <2>1 DEF x, y, X, Y, a, A
  <2> QED  BY <1>4, <1>5, <1>7, <1>8, <2>1, <2>2, <2>3
<1>10. CASE ReadRecord(w)
  <2>1. /\ UNCHANGED <<queue[w], returns[w]>> /\ pc[w] = "read" /\ pc'[w] \in {"read", "send"}
        /\ pc'[w] = "read" => ~(L >= Capacity)
        /\ batch'[w] = Append(batch[w], next[w]) /\ P = Popped(p)
    BY <1>1, <1>10 DEF ReadRecord, TypeOK
  <2>2. L = l + 1 /\ l < Capacity
    BY <1>4, <1>5, <2>1, AppendProperties DEF Filling
  <2>3. Filling(w)'
    <3> HIDE DEF l, L
    <3>1. L \in Nat /\ L <= Capacity
      BY <1>5, <1>6, <2>2
    <3>2. pc'[w] = "read" => L < Capacity
      BY <1>6, <2>1, <3>1
    <3> QED  BY <2>1, <3>1, <3>2 DEF Filling, L
  <2>4. X = x /\ Y = y /\ A = a
    BY <2>1 DEF x, y, X, Y, a, A
  <2> HIDE DEF p, l, P, L, r, R
  <2>5. P + L <= p + l \/ P + L <= Capacity
    BY <1>5, <1>6, <2>1, <2>2 DEF Popped
  <2>6. P + L + X + Y <= p + l + x + y \/ P + L <= Capacity
    <3>1. P \in Nat
      BY <1>5, <2>1 DEF Popped
    <3> QED  BY <1>5, <2>2, <2>4, <2>5, <3>1
  <2>7. R = r
    BY <2>1 DEF R, r
  <2> QED  BY <1>4, <1>7, <1>8, <2>1, <2>3, <2>4, <2>6, <2>7
<1>11. CASE ReadFailure(w) \/ ReadNothing(w)
  <2>1. /\ UNCHANGED <<queue[w], returns[w], batch[w]>> /\ pc[w] = "read"
        /\ P \in {p, Popped(p)} /\ pc'[w] \in {"fail", "send", "done"}
        /\ pc'[w] = "done" => batch[w] = <<>>
    BY <1>1, <1>11 DEF ReadFailure, ReadNothing, TypeOK
  <2>2. Filling(w)'
    BY <1>4, <2>1 DEF Filling
  <2>3. X = x /\ Y = y /\ A = a /\ L = l /\ R = r
    BY <2>1 DEF x, y, X, Y, a, A
  <2>4. P + L + X + Y <= p + l + x + y
    <3> HIDE DEF p, l, P, L, r, R
    <3>1. P \in Nat /\ P <= p
      BY <1>5, <2>1 DEF Popped
    <3> QED  BY <1>5, <2>3, <3>1
  <2> QED  BY <1>4, <1>7, <1>8, <2>1, <2>2, <2>3, <2>4
<1>12. CASE SendBatch(w)
  <2>1. /\ UNCHANGED <<returns[w], pool[w]>> /\ batch'[w] = <<>> /\ pc[w] = "send"
    BY <1>1, <1>12 DEF SendBatch, TypeOK
  <2>2. Returnable(returns'[w]) /\ Filling(w)' /\ L = 0 /\ P = p /\ R = r
    BY <1>4, <1>6, <2>1 DEF Filling
  <2>3. Y = y
    BY <2>1 DEF y, Y
  <2>4. CASE Open
    <3> DEFINE m == Batch(chunk[w], batch[w])
    <3>1. queue'[w] = Append(queue[w], m) /\ pc'[w] = "reuse"
      BY <1>1, <1>12, <2>4 DEF SendBatch, TypeOK
    <3>2. m \in Messages /\ m.recs = batch[w] /\ Len(m.recs) <= Capacity
      BY <1>4, <1>5, MessageTypes DEF Batch, Filling
    <3> HIDE DEF m
    <3>3. /\ Fits(queue'[w]) /\ X = x + l
          /\ A = a + IF m.recs = <<>> THEN 0 ELSE 1
      BY <1>4, <1>5, <3>1, <3>2, Queued DEF x, X, a, A
    <3> HIDE DEF p, l, P, L, r, R
    <3>4. A + R + k <= QueueDepth + 2 /\ P + L + X + Y <= p + l + x + y
      BY <1>5, <1>6, <1>7, <2>1, <2>2, <2>3, <3>3
    <3> QED  BY <1>8, <2>2, <3>1, <3>3, <3>4
  <2>5. CASE ~Open
    <3>1. queue'[w] = queue[w] /\ pc'[w] = "done"
      BY <1>1, <1>12, <2>5 DEF SendBatch, TypeOK
    <3>2. Fits(queue'[w]) /\ X = x /\ A = a
      BY <1>4, <3>1 DEF x, X, a, A
    <3> HIDE DEF p, l, P, L, r, R
    <3>3. A + R + k <= QueueDepth + 1 /\ P + L + X + Y <= p + l + x + y
      BY <1>5, <1>6, <1>7, <2>1, <2>2, <2>3, <3>2
    <3> QED  BY <1>8, <2>2, <3>1, <3>2, <3>3
  <2> QED  BY <2>4, <2>5
<1>13. CASE Reuse(w)
  <2>1. /\ UNCHANGED queue[w] /\ batch'[w] = <<>> /\ pc[w] = "reuse" /\ batch[w] = <<>>
        /\ pc'[w] \in {"read", "done", "fail"}
    BY <1>1, <1>4, <1>13 DEF Reuse, TypeOK, Filling
  <2>2. Fits(queue'[w]) /\ Filling(w)' /\ L = l
    BY <1>4, <1>6, <2>1 DEF Filling
  <2>3. X = x /\ A = a
    BY <2>1 DEF x, X, a, A
  <2>4. CASE returns[w] = <<>>
    <3>1. returns'[w] = <<>> /\ P = p /\ R = 0
      BY <1>1, <1>6, <1>13, <2>4 DEF Reuse, TypeOK
    <3>2. Returnable(returns'[w]) /\ Y = y
      BY <1>4, <2>4, <3>1 DEF y, Y
    <3> HIDE DEF p, l, P, L, r, R
    <3>3. A + R + k <= QueueDepth + 1 /\ P + L + X + Y <= p + l + x + y
      BY <1>5, <1>6, <2>2, <2>3, <3>1, <3>2
    <3> QED  BY <1>8, <2>1, <2>2, <3>2, <3>3
  <2>5. CASE returns[w] # <<>>
    <3> DEFINE n == Len(Head(returns[w]))
    <3>1. returns'[w] = Tail(returns[w]) /\ P \in {p, p + n}
      BY SMTT(30), <1>1, <1>13, <2>5 DEF Reuse, TypeOK
    <3>2. Returnable(returns'[w]) /\ n \in Nat /\ y = n + Y /\ Y \in Nat /\ R = r - 1
      <4>1. /\ Returnable(Tail(returns[w])) /\ n \in Nat
            /\ InBatches(returns[w]) = n + InBatches(Tail(returns[w]))
        BY <1>4, <1>5, <2>5, TakenBack
      <4>2. /\ Len(Tail(returns[w])) = Len(returns[w]) - 1
            /\ Tail(returns[w]) \in Seq(Seq(Nat))
        BY <1>5, <2>5, HeadTailProperties
      <4>3. InBatches(Tail(returns[w])) \in Nat
        BY <4>1, <4>2, ReturnTable
      <4> HIDE DEF n
      <4> QED  BY <3>1, <4>1, <4>2, <4>3 DEF y, Y
    <3> HIDE DEF p, l, P, L, r, R, n
    <3>3. A + R + k <= QueueDepth + 1 /\ P + L + X + Y <= p + l + x + y
      BY <1>5, <1>6, <1>7, <2>1, <2>2, <2>3, <3>1, <3>2
    <3> QED  BY <1>8, <2>1, <2>2, <3>2, <3>3
  <2> QED  BY <2>4, <2>5
<1>14. CASE SendDone(w) \/ SendFailed(w)
  <2>1. /\ UNCHANGED <<returns[w], pool[w], batch[w]>> /\ pc[w] \in {"done", "fail"}
        /\ pc'[w] \in {"read", "exit"} /\ (pc'[w] = "read" => pc[w] = "done")
        /\ \/ queue'[w] = queue[w]
           \/ queue'[w] = Append(queue[w], ChunkDone(chunk[w]))
           \/ queue'[w] = Append(queue[w], Failed(chunk[w], next[w]))
    <3>1. CASE SendDone(w)
      BY <1>1, <3>1 DEF SendDone, TypeOK
    <3>2. CASE SendFailed(w)
      BY <1>1, <3>2 DEF SendFailed, TypeOK
    <3> QED  BY <1>14, <3>1, <3>2
  <2>2. Returnable(returns'[w]) /\ P = p /\ L = l /\ R = r
    BY <1>4, <2>1
  <2>3. Filling(w)'
    BY <1>4, <1>6, <2>1 DEF Filling
  <2>4. Fits(queue'[w]) /\ X = x /\ A = a
    <3>1. ASSUME NEW m \in Messages, m.recs = <<>>, queue'[w] = Append(queue[w], m)
          PROVE  Fits(queue'[w]) /\ X = x /\ A = a
      <4>1. /\ Fits(queue'[w]) /\ X = x + Len(m.recs)
            /\ A = a + IF m.recs = <<>> THEN 0 ELSE 1
        BY SMTT(30), <1>4, <1>5, <1>6, <3>1, Queued DEF x, X, a, A
      <4> QED  BY <1>5, <1>6, <3>1, <4>1
    <3>2. /\ ChunkDone(chunk[w]) \in Messages /\ ChunkDone(chunk[w]).recs = <<>>
          /\ Failed(chunk[w], next[w]) \in Messages /\ Failed(chunk[w], next[w]).recs = <<>>
      BY <1>5, MessageTypes DEF ChunkDone, Failed
    <3>3. queue'[w] = queue[w] => Fits(queue'[w]) /\ X = x /\ A = a
      BY <1>4 DEF x, X, a, A
    <3> QED  BY <2>1, <3>1, <3>2, <3>3
  <2>5. Y = y
    BY <2>1 DEF y, Y
  <2> HIDE DEF p, l, P, L, r, R
  <2>6. A + R + k <= QueueDepth + 1 /\ P + L + X + Y <= p + l + x + y
    BY <1>5, <1>6, <1>7, <2>1, <2>2, <2>4, <2>5
  <2> QED  BY <1>8, <2>1, <2>2, <2>3, <2>4, <2>6
<1> QED  BY <1>9, <1>10, <1>11, <1>12, <1>13, <1>14 DEF Work

(* The empty queue of a consumer that has gone.                            *)
LEMMA NothingQueued ==
    /\ Fits(<<>>) /\ InMessages(<<>>) = 0 /\ Loaded(<<>>) = 0
<1>1. Len(<<>>) = 0 /\ <<>> \in Seq(Messages)
  BY EmptySeq
<1>2. Fits(<<>>)
  BY <1>1 DEF Fits
<1>3. /\ InMessages(<<>>) \in Nat /\ Loaded(<<>>) \in Nat
      /\ InMessages(<<>>) <= Loaded(<<>>) * Capacity /\ Loaded(<<>>) <= 0
  BY <1>1, <1>2, QueueTable
<1>4. Loaded(<<>>) = 0
  BY <1>3
<1>5. 0 * Capacity = 0
  BY CapacityAssumption
<1> QED  BY <1>2, <1>3, <1>4, <1>5

(* The consumer only moves buffers it has, or lets go of them.             *)
LEMMA DrainMoves ==
    ASSUME TypeOK, TypeOK', NEW w \in Workers, Recycles(w), UNCHANGED worker,
           Fits(queue'[w]), Returnable(returns'[w]), Len(InHand(w))' <= Capacity,
           InMessages(queue'[w]) + InBatches(returns'[w]) + Len(InHand(w))'
             <= InMessages(queue[w]) + InBatches(returns[w]) + Len(InHand(w)),
           Loads(w)' <= Loads(w)
    PROVE  Recycles(w)'
<1> DEFINE p == pool[w]  l == Len(batch[w])   x == InMessages(queue[w])   y == InBatches(returns[w])
           X == InMessages(queue'[w])  Y == InBatches(returns'[w])
           h == Len(InHand(w))  H == Len(InHand(w))'
           b == Buffers(w)      B == Buffers(w)'
           room2 == (QueueDepth + 2) * Capacity
<1>1. Measured(w)
  BY BufferTypes DEF Recycles
<1>2. Measured(w)'
  BY BufferTypesNext
<1>3. pc'[w] = pc[w] /\ batch'[w] = batch[w] /\ pool'[w] = pool[w]
  BY DEF worker
<1>4. /\ p \in Nat /\ l \in Nat /\ x \in Nat /\ y \in Nat /\ h \in Nat
      /\ b = p + l + x + y + h /\ b <= room2
  BY <1>1 DEF Measured, Recycles
<1>5. X \in Nat /\ Y \in Nat /\ H \in Nat /\ B = p + l + X + Y + H
  BY <1>2, <1>3 DEF Measured
<1>6. X + Y + H <= x + y + h
  OBVIOUS
<1>7. room2 \in Nat
  BY QueueDepthAssumption, CapacityAssumption
<1>8. Filling(w)' /\ Fits(queue[w])' /\ Returnable(returns[w])'
  BY <1>3 DEF Recycles, Filling
<1>9. InFlight(w)'
  <2>1. Loads(w) \in Nat /\ Loads(w)' \in Nat
    BY <1>1, <1>2 DEF Measured
  <2>2. Loads(w) <= IF pc[w] = "reuse" THEN QueueDepth + 2 ELSE QueueDepth + 1
    BY DEF Recycles, InFlight
  <2>3. Loads(w)' <= IF pc'[w] = "reuse" THEN QueueDepth + 2 ELSE QueueDepth + 1
    BY <1>3, <2>1, <2>2, QueueDepthAssumption
  <2> QED  BY <2>3 DEF InFlight
<1> HIDE DEF p, l, x, y, X, Y, h, H, b, B, room2
<1>10. B <= room2
  BY <1>4, <1>5, <1>6, <1>7
<1> QED  BY <1>8, <1>9, <1>10 DEF Recycles, B, room2

LEMMA DrainRecycles ==
    ASSUME IInv, Recycling, Drain
    PROVE  Recycling'
<1> SUFFICES ASSUME NEW w \in Workers PROVE Recycles(w)'
  BY DEF Recycling, Workers
<1>1. /\ TypeOK /\ TypeOK' /\ Recycles(w) /\ Measured(w)
      /\ Fits(queue[w]) /\ Returnable(returns[w]) /\ Len(InHand(w)) <= Capacity
  BY DrainType, BufferTypes DEF IInv, Recycling, Recycles
<1> DEFINE x == InMessages(queue[w])   y == InBatches(returns[w])
           X == InMessages(queue'[w])  Y == InBatches(returns'[w])
           a == Loaded(queue[w])       r == Len(returns[w])
           A == Loaded(queue'[w])      R == Len(returns'[w])
           h == Len(InHand(w))         H == Len(InHand(w)')
           k == IF InHand(w) = <<>> THEN 0 ELSE 1
           K == IF InHand(w)' = <<>> THEN 0 ELSE 1
<1>2. /\ x \in Nat /\ y \in Nat /\ h \in Nat /\ a \in Nat /\ r \in Nat
      /\ k \in {0, 1} /\ (InHand(w) = <<>> <=> h = 0)
      /\ queue[w] \in Seq(Messages) /\ returns[w] \in Seq(Seq(Nat)) /\ held \in Seq(Nat)
      /\ Loads(w) = a + r + k /\ Loads(w)' = A + R + K
  BY <1>1 DEF Measured, Loads, TypeOK
<1>3. Capacity \in Nat /\ Len(<<>>) = 0 /\ <<>> \in Seq(Nat)
  BY CapacityAssumption, EmptySeq
<1>4. ASSUME UNCHANGED worker, Fits(queue'[w]), Returnable(returns'[w]), H <= Capacity,
             X + Y + H <= x + y + h, A + R + K <= a + r + k
      PROVE  Recycles(w)'
  <2>1. Len(InHand(w))' = Len(InHand(w)')
    OBVIOUS
  <2> QED  BY <1>1, <1>2, <1>4, <2>1, DrainMoves
<1>5. ASSUME UNCHANGED <<worker, returns>>, queue'[w] = <<>>, H <= h, K <= k
      PROVE  Recycles(w)'
  <2>1. Fits(queue'[w]) /\ X = 0 /\ A = 0
    BY <1>5, NothingQueued
  <2>2. Returnable(returns'[w]) /\ Y = y /\ R = r /\ InHand(w)' \in Seq(Nat) /\ H \in Nat
    <3>1. held' \in Seq(Nat)
      BY <1>1 DEF TypeOK
    <3>2. InHand(w)' \in Seq(Nat)
      BY <1>3, <3>1 DEF InHand
    <3> QED  BY <1>1, <1>5, <3>2, LenProperties
  <2>3. K \in {0, 1} /\ h <= Capacity
    BY <1>1
  <2> HIDE DEF x, y, X, Y, a, r, A, R, h, H, k, K
  <2>4. H <= Capacity /\ X + Y + H <= x + y + h /\ A + R + K <= a + r + k
    BY <1>2, <1>3, <1>5, <2>1, <2>2, <2>3
  <2> QED  BY <1>4, <1>5, <2>1, <2>2, <2>4
<1> HIDE DEF x, y, X, Y, a, r, A, R, h, H, k, K
<1>6. CASE Receive
  <2> DEFINE o == Owner(at)
             m == Head(queue[o])
  <2>1. /\ Open /\ at \in Chunks(doc) /\ held = <<>> /\ queue[o] # <<>> /\ m \in Messages
        /\ UNCHANGED <<doc, worker, returns, delivered, returned>>
    BY <1>6, ReceiveKeeps, NextMessage DEF Receive
  <2>2. InHand(w) = <<>> /\ h = 0 /\ k = 0
    BY <1>3, <2>1 DEF InHand, h, k
  <2>3. Returnable(returns'[w]) /\ Y = y /\ R = r
    BY <1>1, <2>1 DEF y, Y, r, R
  <2>4. /\ m.recs \in Seq(Nat) /\ Len(m.recs) \in Nat /\ m.kind \in {"batch", "done", "failed"}
    BY <2>1, LenProperties DEF Messages
  <2>5. ASSUME w = o, queue'[w] = Tail(queue[w])
        PROVE  /\ Fits(queue'[w]) /\ Len(m.recs) <= Capacity /\ x = Len(m.recs) + X /\ X \in Nat
               /\ a = (IF m.recs = <<>> THEN 0 ELSE 1) + A /\ A \in Nat
    <3>1. /\ Fits(Tail(queue[w])) /\ Len(m.recs) <= Capacity
          /\ InMessages(queue[w]) = Len(m.recs) + InMessages(Tail(queue[w]))
          /\ Loaded(queue[w]) = (IF m.recs = <<>> THEN 0 ELSE 1) + Loaded(Tail(queue[w]))
      BY <1>1, <1>2, <2>1, <2>5, Unqueued
    <3>2. Tail(queue[w]) \in Seq(Messages)
      BY <1>2, <2>1, <2>5, HeadTailProperties
    <3>3. InMessages(Tail(queue[w])) \in Nat /\ Loaded(Tail(queue[w])) \in Nat
      BY <3>1, <3>2, QueueTable
    <3> QED  BY <2>5, <3>1, <3>3 DEF x, X, a, A
  <2>6. ASSUME w # o, queue'[w] = queue[w]
        PROVE  Fits(queue'[w]) /\ x = X /\ a = A
    BY <1>1, <2>6 DEF x, X, a, A
  <2>7. CASE m.kind = "batch"
    <3>1. held' = m.recs /\ queue' = [queue EXCEPT ![o] = Tail(@)] /\ UNCHANGED <<at, result, error>>
      BY <1>6, <2>1, <2>7 DEF Receive
    <3>2. InHand(w)' = IF w = o THEN m.recs ELSE <<>>
      BY <2>1, <3>1 DEF InHand, Owner, Active
    <3>3. CASE w = o
      <4>1. queue'[w] = Tail(queue[w])
        BY <1>1, <3>1, <3>3 DEF TypeOK
      <4>2. H = Len(m.recs) /\ K = IF m.recs = <<>> THEN 0 ELSE 1
        BY <3>2, <3>3 DEF H, K
      <4>3. /\ Fits(queue'[w]) /\ H <= Capacity /\ x = H + X /\ X \in Nat
            /\ a = K + A /\ A \in Nat /\ H \in Nat /\ K \in {0, 1}
        BY <2>4, <2>5, <3>3, <4>1, <4>2
      <4>4. X + Y + H <= x + y + h /\ A + R + K <= a + r + k
        BY <1>2, <2>2, <2>3, <4>3
      <4> QED  BY <1>4, <2>1, <2>3, <4>3, <4>4
    <3>4. CASE w # o
      <4>1. queue'[w] = queue[w]
        BY <1>1, <3>1, <3>4 DEF TypeOK
      <4>2. H = 0 /\ K = 0
        BY <1>3, <3>2, <3>4 DEF H, K
      <4>3. H <= Capacity /\ X + Y + H <= x + y + h /\ A + R + K <= a + r + k
        BY <1>2, <1>3, <2>2, <2>3, <2>6, <3>4, <4>1, <4>2
      <4> QED  BY <1>4, <2>1, <2>3, <2>6, <3>4, <4>1, <4>3
    <3> QED  BY <3>3, <3>4
  <2>8. CASE m.kind = "done"
    <3>1. held' = <<>> /\ queue' = [queue EXCEPT ![o] = Tail(@)]
      BY <1>6, <2>1, <2>8 DEF Receive
    <3>2. H = 0 /\ K = 0
      BY <1>3, <3>1 DEF InHand, H, K
    <3>3. CASE w = o
      <4>1. queue'[w] = Tail(queue[w])
        BY <1>1, <3>1, <3>3 DEF TypeOK
      <4>0. /\ Fits(queue'[w]) /\ x = Len(m.recs) + X /\ X \in Nat
            /\ a = (IF m.recs = <<>> THEN 0 ELSE 1) + A /\ A \in Nat
        BY <2>5, <3>3, <4>1
      <4>2. /\ Fits(queue'[w]) /\ X <= x /\ X \in Nat /\ A <= a /\ A \in Nat
        <5> HIDE DEF m
        <5> QED  BY <1>2, <2>4, <4>0
      <4>3. H <= Capacity /\ X + Y + H <= x + y + h /\ A + R + K <= a + r + k
        BY <1>2, <1>3, <2>2, <2>3, <3>2, <4>2
      <4> QED  BY <1>4, <2>1, <2>3, <4>2, <4>3
    <3>4. CASE w # o
      <4>1. queue'[w] = queue[w]
        BY <1>1, <3>1, <3>4 DEF TypeOK
      <4>2. H <= Capacity /\ X + Y + H <= x + y + h /\ A + R + K <= a + r + k
        BY <1>2, <1>3, <2>2, <2>3, <2>6, <3>2, <3>4, <4>1
      <4> QED  BY <1>4, <2>1, <2>3, <2>6, <3>4, <4>1, <4>2
    <3> QED  BY <3>3, <3>4
  <2>9. CASE m.kind = "failed"
    <3>1. Close("parse_error") /\ UNCHANGED <<at, held>>
      BY <1>6, <2>1, <2>9 DEF Receive
    <3>2. InHand(w)' = <<>> /\ queue'[w] = <<>>
      BY <2>1, <3>1 DEF InHand, Close
    <3>3. H <= h /\ K <= k
      BY <1>3, <2>2, <3>2 DEF H, K
    <3> QED  BY <1>5, <2>1, <3>2, <3>3
  <2> QED  BY <2>4, <2>7, <2>8, <2>9
<1>7. CASE Accept
  <2> DEFINE o == Owner(at)
  <2>1. /\ Open /\ held # <<>> /\ held' = <<>> /\ UNCHANGED <<doc, worker, queue, at>>
        /\ at \in Chunks(doc)
    BY <1>7 DEF Accept, IInv, Draining, Consuming
  <2>2. InHand(w)' = <<>> /\ H = 0 /\ K = 0
    BY <1>3, <2>1 DEF InHand, H, K
  <2>3. Fits(queue'[w]) /\ X = x /\ A = a
    BY <1>1, <2>1 DEF x, X, a, A
  <2>4. PICK left \in {<<>>, held} :
           returns' = [returns EXCEPT ![o] =
                          IF pc[o] # "exit" /\ Len(@) < QueueDepth + 1
                            THEN Append(@, left) ELSE @]
    BY <1>7 DEF Accept
  <2>5. CASE returns'[w] = returns[w]
    <3>1. Returnable(returns'[w]) /\ Y = y /\ R = r
      BY <1>1, <2>5 DEF y, Y, r, R
    <3>2. H <= Capacity /\ X + Y + H <= x + y + h /\ A + R + K <= a + r + k
      BY <1>2, <1>3, <2>2, <2>3, <3>1
    <3> QED  BY <1>4, <2>1, <2>3, <3>1, <3>2
  <2>6. CASE w = o /\ returns'[w] = Append(returns[w], left)
    <3>1. InHand(w) = held /\ k = 1 /\ h = Len(held)
      BY <2>1, <2>6 DEF InHand, k, h
    <3>2. left \in Seq(Nat) /\ Len(left) \in Nat /\ Len(left) <= h /\ h <= Capacity
      <4>1. left \in Seq(Nat)
        BY <1>2, <1>3
      <4>2. Len(left) \in Nat /\ Len(left) <= h
        BY <1>2, <1>3, <3>1, <4>1, LenProperties
      <4> QED  BY <1>1, <4>1, <4>2 DEF h
    <3>3. Returnable(returns'[w]) /\ Y = y + Len(left) /\ R = r + 1
      <4>1. Len(left) <= Capacity
        BY <1>2, <1>3, <3>2
      <4>2. /\ Returnable(Append(returns[w], left))
            /\ InBatches(Append(returns[w], left)) = InBatches(returns[w]) + Len(left)
        BY <1>1, <1>2, <3>2, <4>1, HandedBack
      <4>3. Len(Append(returns[w], left)) = Len(returns[w]) + 1
        BY <1>2, <3>2, AppendProperties
      <4> QED  BY <2>6, <4>2, <4>3 DEF y, Y, r, R
    <3>4. H <= Capacity /\ X + Y + H <= x + y + h /\ A + R + K <= a + r + k
      BY <1>2, <1>3, <2>2, <2>3, <3>1, <3>2, <3>3
    <3> QED  BY <1>4, <2>1, <2>3, <3>3, <3>4
  <2>7. returns'[w] = returns[w] \/ (w = o /\ returns'[w] = Append(returns[w], left))
    BY <1>1, <2>4 DEF TypeOK
  <2> QED  BY <2>5, <2>6, <2>7
<1>8. CASE Refuse
  <2>1. held' = <<>> /\ queue'[w] = <<>> /\ UNCHANGED <<worker, returns>>
    BY <1>8 DEF Refuse, Close
  <2>2. H = 0 /\ K = 0
    BY <1>3, <2>1 DEF InHand, H, K
  <2>3. H <= h /\ K <= k
    BY <1>2, <2>2
  <2> QED  BY <1>5, <2>1, <2>3
<1>9. CASE Drained
  <2>1. UNCHANGED <<doc, at, held, worker, returns>> /\ queue'[w] = <<>> /\ at \notin Chunks(doc)
    BY <1>9 DEF Drained, Close
  <2>2. H = 0 /\ K = 0
    BY <1>3, <2>1 DEF InHand, H, K
  <2>3. H <= h /\ K <= k
    BY <1>2, <2>2
  <2> QED  BY <1>5, <2>1, <2>3
<1> QED  BY <1>6, <1>7, <1>8, <1>9 DEF Drain

LEMMA InitRecycles == Init => Recycling
<1> SUFFICES ASSUME Init, NEW w \in Workers PROVE Recycles(w)
  BY DEF Recycling
<1>1. /\ TypeOK /\ pc[w] = "build" /\ batch[w] = <<>> /\ pool[w] = 0
      /\ queue[w] = <<>> /\ returns[w] = <<>> /\ held = <<>> /\ Len(<<>>) = 0
  BY TypeInit, EmptySeq DEF Init
<1>2. InHand(w) = <<>>
  BY <1>1 DEF InHand
<1>3. /\ Fits(queue[w]) /\ Returnable(returns[w]) /\ Loaded(queue[w]) = 0
      /\ InMessages(queue[w]) = 0
  BY <1>1, NothingQueued DEF Returnable
<1>4. QueueDepth \in Nat /\ Capacity \in Nat \ {0} /\ (QueueDepth + 2) * Capacity \in Nat
  BY QueueDepthAssumption, CapacityAssumption
<1>5. Filling(w) /\ Len(InHand(w)) <= Capacity
  BY <1>1, <1>2, <1>4 DEF Filling
<1>6. InFlight(w)
  <2>1. Loads(w) = 0
    BY <1>1, <1>2, <1>3 DEF Loads
  <2> QED  BY <1>1, <1>4, <2>1 DEF InFlight
<1>7. Buffers(w) = 0
  <2>1. Measured(w)
    BY <1>1, <1>3, BufferTypes
  <2>2. InBatches(returns[w]) \in Nat /\ InBatches(returns[w]) <= 0 * Capacity
    BY <1>1, <2>1 DEF Measured
  <2>3. InBatches(returns[w]) = 0
    BY <1>4, <2>2
  <2> QED  BY <1>1, <1>2, <1>3, <2>1, <2>3 DEF Measured
<1> QED  BY <1>3, <1>4, <1>5, <1>6, <1>7 DEF Recycles

LEMMA NextRecycles == IInv /\ Recycling /\ [Next]_vars => Recycling'
<1> SUFFICES ASSUME IInv, Recycling, [Next]_vars PROVE Recycling'
  OBVIOUS
<1>1. CASE \E w \in Spawned : Work(w)
  BY <1>1, WorkRecycles
<1>2. CASE Drain
  BY <1>2, DrainRecycles
<1>3. CASE Return \/ UNCHANGED vars
  <2>1. UNCHANGED <<doc, pc, batch, pool, queue, returns, at, held>>
    BY <1>3 DEF Return, vars, worker, consumer
  <2>2. ASSUME NEW w \in Workers
        PROVE  Recycles(w)'
    <3>1. InHand(w)' = InHand(w)
      BY <2>1 DEF InHand, Owner, Active
    <3>2. UNCHANGED <<pc[w], batch[w], pool[w], queue[w], returns[w]>>
      BY <2>1
    <3> QED  BY <3>1, <3>2, RecyclesElsewhere DEF Recycling
  <2> QED  BY <2>2 DEF Recycling, Workers
<1> QED  BY <1>1, <1>2, <1>3 DEF Next, Terminated

(* "peak memory is bounded by threads times this times a small queue       *)
(* depth" (parallel.rs:398): recycling never lets a worker own more record *)
(* buffers than the queue's depth of batches, the one consumed and the one *)
(* filled, however the workers and the consumer take turns.                *)
THEOREM BoundsBuffers == Spec => []BufferBound
<1>1. Recycling => BufferBound
  BY DEF Recycling, Recycles, BufferBound
<1> QED  BY <1>1, InitRecycles, NextRecycles, AlwaysIInv, PTL DEF Spec

(* A worker whose consumer has gone enters no further chunk: the only step *)
(* that takes it to one is the send that finds the consumer there.         *)
THEOREM CancelledWorkersGiveUp == Spec => CancelledWorkersStop
<1>1. [Next]_vars => (~Open => chunk' = chunk)
  <2> SUFFICES ASSUME [Next]_vars, ~Open PROVE chunk' = chunk
    OBVIOUS
  <2>1. CASE \E w \in Spawned : Work(w)
    <3>1. PICK w \in Spawned : Work(w)
      BY <2>1
    <3>2. CASE SendDone(w)
      BY <3>2 DEF SendDone
    <3>3. CASE ~SendDone(w)
      BY <3>1, <3>3 DEF Work, Build, ReadRecord, ReadFailure, ReadNothing, SendBatch, Reuse,
                        SendFailed
    <3> QED  BY <3>2, <3>3
  <2>2. CASE Drain
    BY <2>2 DEF Drain, Receive, Accept, Refuse, Drained, worker
  <2>3. CASE Return \/ UNCHANGED vars
    BY <2>3 DEF Return, vars, worker
  <2> QED  BY <2>1, <2>2, <2>3 DEF Next, Terminated
<1> QED  BY <1>1, PTL DEF Spec, CancelledWorkersStop
=============================================================================
