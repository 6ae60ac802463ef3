------------------------------- MODULE Split -------------------------------
(***************************************************************************)
(* The boundary pass of the parallel parser (parallel/split.rs) beside the *)
(* parser whose record starts it claims to find.  The pass counts quotes;  *)
(* the parser (engine/borrowed_parser.rs) knows fields.  Both are driven   *)
(* over the same bytes, one byte per step, which is sound because neither  *)
(* looks at what the other does; a document is chosen as it is read.       *)
(*                                                                         *)
(* Offsets are relative to the `start` the pass is given, which is where   *)
(* the first record begins, so it is [byte |-> 0, line |-> 1, record |-> 0]*)
(***************************************************************************)
EXTENDS Naturals, Sequences, Grammar

CONSTANTS
    Formats,        \* the formats check_splittable lets through
    Lengths,        \* how many bytes there may be from start to the end
    Wanted          \* how many chunks may be asked for

(* Bytes a format may give a meaning to, and one that means nothing.       *)
Bytes == {"quote", "delim", "lf", "cr", "space", "other"}

(* The formats check_splittable is about, as Grammar describes them.       *)
FormatOK(f) ==
    /\ f.ending \in Bytes \ {"quote", "delim"}
    /\ f.kind \in {"newline", "crlf", "byte"}
    /\ f.kind # "byte" => f.ending = "lf"
    /\ f.padding \subseteq {"space", "delim"}
    /\ f.skips \subseteq {"space", "delim"}

(* Formats whose record ending is never also skipped as padding.           *)
UnpaddedEndings == \A f \in Formats : f.ending \notin f.padding \cup f.skips

ASSUME FormatsAssumption == \A f \in Formats : FormatOK(f)
ASSUME LengthsAssumption == Lengths \subseteq Nat
ASSUME WantedAssumption == Wanted \subseteq Nat \ {0}

VARIABLES
    format, length, wanted,     \* the arguments
    at,             \* how many bytes have been read
    in_quotes,      \* the boundary pass: an odd number of quotes so far
    line,           \* its physical line
    record,         \* its record index
    target,         \* where the next boundary may be at the earliest
    splits,         \* the boundaries it has found
    mode,           \* the parser: what it is in the middle of
    feeds,          \* how many line feeds it has passed
    parsed,         \* how many records it has parsed
    starts,         \* every record start it has reached
    failedAt        \* the offset of the error that stopped it

arguments == <<format, length, wanted>>
scanner == <<in_quotes, line, record, target, splits>>
parser == <<mode, feeds, parsed, starts, failedAt>>
vars == <<arguments, at, scanner, parser>>

Position(b, l, r) == [byte |-> b, line |-> l, record |-> r]
Start == Position(0, 1, 0)

(* span.div_ceil(wanted), in bytes.                                        *)
Stride == (length + wanted - 1) \div wanted

Init ==
    /\ format \in Formats
    /\ length \in Lengths
    /\ wanted \in Wanted
    /\ at = 0
    /\ in_quotes = FALSE
    /\ line = Start.line
    /\ record = Start.record
    /\ target = Stride
    /\ splits = <<Start>>
    /\ mode = "start"
    /\ feeds = 0
    /\ parsed = 0
    /\ starts = {Start}
    /\ failedAt = 0

-----------------------------------------------------------------------------
(* Mutation of Boundary: a boundary at the very end of the document.       *)
BoundaryAtEnd(next) ==
    IF next >= target
      THEN /\ splits' = Append(splits, Position(next, line', record'))
           /\ target' = next + Stride
      ELSE UNCHANGED <<splits, target>>

(* A record ends before `next`: a boundary, if it is far enough from the   *)
(* last one and there is something after it.                               *)
Boundary(next) ==
    IF next >= target /\ next < length
      THEN /\ splits' = Append(splits, Position(next, line', record'))
           /\ target' = next + Stride
      ELSE UNCHANGED <<splits, target>>

(* Mutation of Scan: line feeds inside quotes are not counted.             *)
ScanSkipsQuotedLines(b) ==
    /\ in_quotes' = IF b = "quote" THEN ~in_quotes ELSE in_quotes
    /\ line' = IF b = "lf" /\ ~in_quotes THEN line + 1 ELSE line
    /\ IF b = format.ending /\ ~in_quotes'
         THEN record' = record + 1 /\ Boundary(at + 1)
         ELSE UNCHANGED <<record, target, splits>>

(* boundaries: what the scan does with one byte.  It skips the bytes that  *)
(* none of these three conditions is about.                                *)
Scan(b) ==
    /\ in_quotes' = IF b = "quote" THEN ~in_quotes ELSE in_quotes
    /\ line' = IF b = "lf" THEN line + 1 ELSE line
    /\ IF b = format.ending /\ ~in_quotes'
         THEN record' = record + 1 /\ Boundary(at + 1)
         ELSE UNCHANGED <<record, target, splits>>

-----------------------------------------------------------------------------
(* What the parser makes of the next byte.  It looks one byte ahead of a   *)
(* carriage return and reports the carriage return, one byte before the    *)
(* offset recorded here, so failedAt errs on the strict side.              *)
NextMode(b) == ModeAfter(format, mode, b)

Failed == mode = "malformed"

(* The parser reads one byte.  It may also refuse the record, for a limit  *)
(* it has outgrown or, once the record has ended, for its size or its      *)
(* number of fields; those errors are located at the end of the record.    *)
Parse(b) ==
    /\ feeds' = IF b = "lf" THEN feeds + 1 ELSE feeds
    /\ \/ /\ ~Failed
          /\ mode' = NextMode(b)
          /\ IF mode' = "start"
               THEN /\ parsed' = parsed + 1
                    /\ starts' = starts \cup {Position(at + 1, 1 + feeds', parsed')}
               ELSE UNCHANGED <<parsed, starts>>
          /\ failedAt' = IF mode' = "malformed" THEN at ELSE failedAt
       \/ /\ ~Failed
          /\ mode' = "malformed"
          /\ failedAt' = IF NextMode(b) = "start" THEN at + 1 ELSE at
          /\ UNCHANGED <<parsed, starts>>
       \/ /\ Failed
          /\ UNCHANGED <<mode, parsed, starts, failedAt>>

Read ==
    /\ at < length
    /\ at' = at + 1
    /\ \E b \in Bytes : Scan(b) /\ Parse(b)
    /\ UNCHANGED arguments

(* The document ends inside a quoted field, or between the two bytes of a  *)
(* record ending: an error located at the end.                             *)
EndOfDocument ==
    /\ at = length
    /\ mode \in {"quoted", "cr"}
    /\ mode' = "malformed"
    /\ failedAt' = at
    /\ UNCHANGED <<arguments, at, scanner, feeds, parsed, starts>>

Next == Read \/ EndOfDocument

Spec == Init /\ [][Next]_vars

-----------------------------------------------------------------------------
Modes == {"start", "field", "unquoted", "quoted", "closed", "padding", "cr", "malformed"}
Positions == [byte : Nat, line : Nat, record : Nat]

TypeOK ==
    /\ format \in Formats
    /\ length \in Lengths
    /\ wanted \in Wanted
    /\ at \in 0..length
    /\ in_quotes \in BOOLEAN
    /\ line \in Nat
    /\ record \in Nat
    /\ target \in Nat
    /\ splits \in Seq(Positions)
    /\ mode \in Modes
    /\ feeds \in Nat
    /\ parsed \in Nat
    /\ starts \subseteq Positions
    /\ failedAt \in 0..length

(* "Boundaries land only at true record starts" (split.rs:40), with the    *)
(* line and the record index the parser has there.  Once the parser has    *)
(* failed there are no record starts to compare with, but no boundary may  *)
(* lie between the record that failed and the place its error is reported  *)
(* at, or a worker would stop in front of the error.                       *)
BoundariesAreRecordStarts ==
    \A i \in 1..Len(splits) :
        splits[i] \in starts \/ (Failed /\ splits[i].byte >= failedAt)

(* The chunks the boundaries delimit are never empty: each begins past the *)
(* last and before the end of the document.                                *)
ChunksAreNotEmpty ==
    /\ \A i, j \in 1..Len(splits) : i < j => splits[i].byte < splits[j].byte
    /\ \A i \in 2..Len(splits) : splits[i].byte < length

(* "Locate up to `wanted` record boundaries" (split.rs:36).                *)
AtMostWanted == Len(splits) <= wanted
=============================================================================
