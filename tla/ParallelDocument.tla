-------------------------- MODULE ParallelDocument --------------------------
(***************************************************************************)
(* What both parallel drivers are handed: a document cut into chunks at    *)
(* record boundaries (the Vec<Boundary> of parallel/split.rs), and what    *)
(* each of its records turns out to be when a worker reaches it.           *)
(*                                                                         *)
(* Bytes are abstracted to records.  Record r occupies the offsets from r  *)
(* up to r + 1, so `byte_range().start` of record r is r, its end is r + 1 *)
(* and the end of one record is the start of the next, as in the parser.   *)
(***************************************************************************)
EXTENDS Naturals, Sequences

CONSTANT Documents    \* the documents a parse may be given

(* How a record fares.  "malformed": the kernel refuses it at an offset    *)
(* inside it.  "mismatch": it has the wrong number of fields, which is     *)
(* found once it has been scanned to its end.  "refused": it parses, and   *)
(* the caller's closure returns an error for it.                           *)
ParseFailures == {"malformed", "mismatch"}
Fates == {"ok", "refused"} \cup ParseFailures

(* A document has `size` records; first[c] is the record chunk c starts    *)
(* with.  The splitter always returns the start of the document as its     *)
(* first boundary, then strictly later ones, each below the end of input.  *)
WellFormed(d) ==
    /\ d.size \in Nat
    /\ d.fate \in [1..d.size -> Fates]
    /\ d.first \in Seq(Nat)
    /\ Len(d.first) >= 1
    /\ d.first[1] = 1
    /\ \A c \in 2..Len(d.first) : d.first[c] \in 2..d.size
    /\ \A b, c \in 1..Len(d.first) : b < c => d.first[b] < d.first[c]

ASSUME DocumentsAssumption == \A d \in Documents : WellFormed(d)

-----------------------------------------------------------------------------
Records(d) == 1..d.size
Chunks(d)  == 1..Len(d.first)

(* ChunkEnd: the next boundary, or the end of the document for the last.   *)
ChunkEnd(d, c) == IF c < Len(d.first) THEN d.first[c + 1] ELSE d.size + 1

(* Mutation of Reached: a record ending at the boundary is taken for one   *)
(* that still has a successor in the chunk.                                *)
ReachedTooLate(d, c, r) == r >= ChunkEnd(d, c)

(* ChunkEnd::reached, for the record r just read: its end, r + 1, is at or *)
(* past the end of the chunk.                                              *)
Reached(d, c, r) == r + 1 >= ChunkEnd(d, c)

(* active_workers: no more workers than there are chunks.                  *)
ActiveWorkers(d, threads) == IF threads < Len(d.first) THEN threads ELSE Len(d.first)

(* Where the error of failing record r says it happened.  A wrong field    *)
(* count is located at the parser's position, which by then is the end of  *)
(* the record; a malformed record inside it; a refusal at its start.       *)
FailureOffset(d, r) == IF d.fate[r] = "mismatch" THEN r + 1 ELSE r

(* The records a serial parse of the document stops at, and the first one, *)
(* which is the failure it reports; size + 1 when there is none.           *)
Failing(d) == {r \in Records(d) : d.fate[r] # "ok"}
SerialFailure(d) ==
    IF Failing(d) = {} THEN d.size + 1
    ELSE CHOOSE r \in Failing(d) : \A s \in Failing(d) : r <= s
=============================================================================
