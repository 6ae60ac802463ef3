----------------------------- MODULE Streaming ------------------------------
(***************************************************************************)
(* What the two parsers of a stream have in common                         *)
(* (src/crates/coseva/src/io_parser.rs and push.rs): a window of the       *)
(* stream, the engine that looks at it, and a call that is answered with   *)
(* offsets of the stream.                                                  *)
(***************************************************************************)
EXTENDS SliceParser

CONSTANTS
    Formats,        \* formats
    Streams         \* the documents of each format

ASSUME StreamsAssumption == \A f \in Formats : \A s \in Streams[f] : s \in Seq(STRING)
(* What may be skipped after a delimiter is a space, a tab or a delimiter. *)
ASSUME SkipsAssumption == \A f \in Formats : "lf" \notin f.skips
ASSUME LimitsAssumption == \A f \in Formats : f.limit \in Nat

VARIABLES
    format, stream, \* the arguments
    window,         \* the bytes the parser keeps
    consumed,       \* how many bytes of the stream come before them
    failed,         \* an error has been reported
    headers_resolved,
    engine,         \* the Engine's state
    call,           \* the call in progress, or "none"
    answer,         \* what the last call returned
    next            \* the outcome of the whole stream that comes next

NoAnswer == [tag |-> "none"]

(* What the engine says of the window, said of the stream.                 *)
Rebased(error) == [error EXCEPT !.byte = @ + consumed]
RebasedRecord(r) == [r EXCEPT !.start = @ + consumed, !.end = @ + consumed]

-----------------------------------------------------------------------------
(* What the whole stream comes to when it is parsed at once.               *)
Slices == [f \in Formats |-> [s \in Streams[f] |-> SliceParse(f, s)]]
Outcomes == Slices[format][stream]
Min2(a, b) == IF a < b THEN a ELSE b
Expected ==
    LET Of(outcomes) == outcomes[Min2(next, Len(outcomes))]
    IN  Of(Outcomes)
=============================================================================
