---------------------------- MODULE SerialParse ----------------------------
(***************************************************************************)
(* What ParallelParser::for_each_batch promises whatever the number of     *)
(* threads, which is what its serial fallback does: one parser reads the   *)
(* document from its start, hands the records over in order in batches of  *)
(* at most Capacity, and stops at the first record that fails to parse or  *)
(* at the first batch the consumer refuses.  Where the batches are cut is  *)
(* left open; the records and the outcome are not.                         *)
(***************************************************************************)
EXTENDS ParallelDocument

CONSTANTS
    Capacity,       \* batch_records
    BuildMayFail    \* whether SliceParser::build may fail

VARIABLES
    doc,            \* the document
    delivered,      \* the records the consumer has been handed, in order
    result,         \* "draining", or how the parse ended
    error           \* the record a parse failure is reported for

vars == <<doc, delivered, result, error>>

Results == {"draining", "ok", "parse_error", "refused"}

(* A parser that could not be built is reported against no record at all.  *)
BuildError == 0

Init ==
    /\ doc \in Documents
    /\ delivered = <<>>
    /\ result = "draining"
    /\ error = BuildError

(* The next k records, none of which may be past the first failure.        *)
NextRecords(k) == [i \in 1..k |-> Len(delivered) + i]

Deliver(k) ==
    /\ result = "draining"
    /\ Len(delivered) + k < SerialFailure(doc)
    /\ delivered' = delivered \o NextRecords(k)
    /\ result' \in {"draining", "refused"}
    /\ UNCHANGED <<doc, error>>

Fail ==
    /\ result = "draining"
    /\ Len(delivered) + 1 \in Failing(doc)
    /\ result' = "parse_error"
    /\ error' = Len(delivered) + 1
    /\ UNCHANGED <<doc, delivered>>

FailToBuild ==
    /\ BuildMayFail
    /\ result = "draining"
    /\ result' = "parse_error"
    /\ UNCHANGED <<doc, delivered, error>>

Finish ==
    /\ result = "draining"
    /\ Len(delivered) = doc.size
    /\ result' = "ok"
    /\ UNCHANGED <<doc, delivered, error>>

Next ==
    \/ \E k \in 1..Capacity : Deliver(k)
    \/ Fail
    \/ FailToBuild
    \/ Finish

Spec == Init /\ [][Next]_vars
=============================================================================
