------------------------------ MODULE IoParser ------------------------------
(***************************************************************************)
(* The pull parser over a reader (src/crates/coseva/src/io_parser.rs): one *)
(* thread that widens a window of the stream, a read at a time, until the  *)
(* engine finds the next record in it.  How many bytes a read returns is   *)
(* the reader's choice, and what the caller does between two reads its own.*)
(*                                                                         *)
(* A call is several steps, so that what the engine holds between two of   *)
(* them can be looked at.                                                  *)
(***************************************************************************)
EXTENDS Streaming

CONSTANTS
    Calls,          \* what is called for each format: "line", "owned", "match"
    Reads,          \* how many bytes a read may return before the last
    ReadErrors,     \* whether a read may fail
    MaxMoves,       \* bound: how often the caller seeks or rewinds
    Literal,        \* what "match" looks for in the first field
    FilterBackoff   \* FILTER_BACKOFF

(* Where a record is escaped, what a field holds is not what its bytes are.*)
ASSUME CallsAssumption ==
    /\ Calls \in [Formats -> SUBSET {"line", "owned", "match"}]
    /\ \A f \in Formats : "match" \in Calls[f] => ~f.escapes
ASSUME ReadsAssumption == Reads # {} /\ Reads \subseteq Nat \ {0}
ASSUME MovesAssumption == ReadErrors \in BOOLEAN /\ MaxMoves \in Nat
(* is_skippable; a literal that is not is looked for record by record.     *)
ASSUME FilterAssumption ==
    /\ Literal \in Seq(STRING) \ {<<>>}
    /\ \A i \in 1..Len(Literal) : Literal[i] \notin {"delim", "quote", "cr", "lf"}
    /\ FilterBackoff \in Nat

VARIABLES
    pos,            \* the reader: how far it has come
    eof,            \* a read returned no bytes
    bom,            \* bom_resolved, bom_rejected: "pending", "resolved", "rejected"
    scanned_to,     \* filter_scanned_to: how far the stream has been searched
    backoff,        \* filter_backoff: records to walk before it is again
    hungry,         \* the call waits for more of the stream
    target,         \* where the last seek goes: to which outcome, or the start
    moves           \* how often the caller has moved

reader == <<pos, eof>>
filter == <<scanned_to, backoff>>
parser == <<window, consumed, failed, bom, headers_resolved, engine, filter>>
caller == <<answer, next, target, moves>>
vars == <<format, stream, reader, parser, call, hungry, caller>>

(* The next outcome that matches or is no record.                          *)
Sought(o) ==
    o.tag = "record" =>
        Contains(FirstField(format, stream, o.record.start, o.record.end), Literal)
NextSought ==
    LET Among(outcomes) ==
            Min({ i \in Min2(next, Len(outcomes))..Len(outcomes) : Sought(outcomes[i]) })
    IN  Among(Outcomes)

-----------------------------------------------------------------------------
(* location().                                                             *)
Location ==
    [byte |-> consumed + engine.location,
     line |-> engine.line_base + Feeds(window, 0, engine.location),
     record |-> engine.record_index]

Init ==
    /\ format \in Formats
    /\ stream \in Streams[format]
    /\ pos = 0
    /\ window = <<>>
    /\ consumed = 0
    /\ eof = FALSE
    /\ failed = FALSE
    /\ bom = IF format.bom = "preserve" THEN "resolved" ELSE "pending"
    /\ headers_resolved = FALSE
    /\ engine = NewEngine
    /\ scanned_to = 0
    /\ backoff = 0
    /\ call = "none"
    /\ hungry = FALSE
    /\ answer = NoAnswer
    /\ next = 1
    /\ target = 0
    /\ moves = 0

(* next_line, read_byte_record_into, or advance_with_filter, which comes   *)
(* back here for every record that does not match: "match", "candidate"    *)
(* when it has skipped what cannot, "field" when it has advanced.          *)
Call(reads) ==
    /\ call = "none"
    /\ call' = reads
    /\ answer' = NoAnswer
    /\ next' = IF reads = "match" THEN NextSought ELSE next
    /\ UNCHANGED <<format, stream, reader, parser, hungry, target, moves>>

(* The call returns.                                                       *)
Return(with) == call' = "none" /\ answer' = with /\ UNCHANGED <<hungry, target, moves>>

Fail(error) == failed' = TRUE /\ Return([tag |-> "error", error |-> Rebased(error)])

(* needs_first_record_width.                                               *)
NeedsFirstRecordWidth == format.match_first /\ engine.expected = 0

(* What a seek has to carry across is known: it may follow a failure.      *)
Settled == headers_resolved /\ ~NeedsFirstRecordWidth

(* check_failed.                                                           *)
Refuse ==
    /\ call # "none"
    /\ failed
    /\ call = "seek" => ~Settled
    /\ Return([tag |-> "error", error |-> ErrorAt(window, engine, "failed", 0)])
    /\ UNCHANGED <<format, stream, reader, parser, next>>

(* resolve_bom: a mark is looked for in the first three bytes, and if it is *)
(* not to be there, that is left for others to report.                     *)
ResolveBom ==
    /\ call # "none" /\ ~failed /\ ~hungry
    /\ bom = "pending"
    /\ \/ /\ Len(window) < 3 /\ ~eof
          /\ hungry' = TRUE
          /\ UNCHANGED <<bom, engine>>
       \/ /\ Len(window) >= 3 \/ eof
          /\ bom' = IF StartsWithBom(window) /\ format.bom = "reject" THEN "rejected" ELSE "resolved"
          /\ engine' = IF format.bom = "detect" THEN SkipDetectedBom(window, engine) ELSE engine
          /\ UNCHANGED hungry
    /\ UNCHANGED <<format, stream, reader, window, consumed, failed, headers_resolved, filter,
                   call, caller>>

(* A rejected mark, reported where headers are looked for and where records *)
(* are read into the caller's storage.                                     *)
RejectBom ==
    /\ call # "none" /\ ~failed
    /\ bom = "rejected"
    /\ IF headers_resolved THEN call = "owned" ELSE format.headers
    /\ failed' = TRUE
    /\ Return([tag |-> "error", error |-> RejectedBom])
    /\ UNCHANGED <<format, stream, reader, window, consumed, bom, headers_resolved, engine, filter,
                   next>>

(* One turn of a loop: what the engine makes of the window.                *)
Turn(o) ==
    /\ call # "none" /\ ~failed /\ ~hungry
    /\ bom # "pending"
    /\ engine' = o.engine
    /\ UNCHANGED <<format, stream, reader, window, consumed, bom, filter>>

AsksForMore(o) ==
    /\ o.tag = "more"
    /\ hungry' = TRUE
    /\ UNCHANGED <<failed, headers_resolved, call, caller>>

Errors(o) ==
    /\ o.tag = "error"
    /\ Fail(o.error)
    /\ UNCHANGED <<headers_resolved, next>>

(* ensure_headers.                                                         *)
EnsureHeaders ==
    LET Told(o) ==
            /\ Turn(o)
            /\ \/ AsksForMore(o)
               \/ Errors(o)
               \/ /\ o.tag = "record"
                  /\ headers_resolved' = TRUE
                  /\ UNCHANGED <<failed, call, hungry, caller>>
    IN  /\ ~headers_resolved
        /\ bom = "rejected" => ~format.headers
        /\ Told(HeadersWindow(format, window, engine, eof))

(* skip_to_candidate: the records before the literal's next place, when no *)
(* quote among them hides where they end; nothing, for some records, after *)
(* a search that came to nothing.                                          *)
SkipToCandidate ==
    LET absolute == consumed + engine.location
        searched == BeforeLiteral(window, engine.location, Literal)
        ends == { i \in 1..Len(searched) : searched[i] = format.ending }
        worthwhile ==
            SkipLiteral(format) /\ absolute >= scanned_to /\ engine.location < Len(window)
        Search ==
            /\ scanned_to' = absolute + Len(searched)
            /\ IF ends = {} \/ Contains(searched, <<"quote">>)
                 THEN backoff' = FilterBackoff /\ UNCHANGED engine
                 ELSE engine' = SkipRecords(engine, Max(ends), Cardinality(ends)) /\ UNCHANGED backoff
    IN  /\ call = "match" /\ ~failed /\ headers_resolved
        /\ \/ ~worthwhile /\ UNCHANGED <<engine, filter>>
           \/ worthwhile /\ backoff > 0 /\ backoff' = backoff - 1 /\ UNCHANGED <<engine, scanned_to>>
           \/ worthwhile /\ backoff = 0 /\ Search
        /\ call' = "candidate"
        /\ UNCHANGED <<format, stream, reader, window, consumed, failed, bom, headers_resolved,
                       hungry, caller>>

(* advance and read_byte_record_into, past the headers.                    *)
Scan ==
    LET Told(o) ==
            /\ Turn(o)
            /\ \/ AsksForMore(o)
               \/ Errors(o)
               \/ /\ o.tag = "done" /\ call # "seek"
                  /\ Return([tag |-> "done"])
                  /\ UNCHANGED <<failed, headers_resolved, next>>
               \/ /\ o.tag \in {"done", "record"} /\ call = "seek"
                  /\ call' = IF o.tag = "done" THEN "move" ELSE "first"
                  /\ UNCHANGED <<failed, headers_resolved, hungry, caller>>
               \/ /\ o.tag = "record" /\ call \in {"line", "owned"}
                  /\ Return(IF call = "owned"
                              THEN [tag |-> "record", record |-> RebasedRecord(o.record)]
                              ELSE [tag |-> "line"])
                  /\ next' = next + 1
                  /\ UNCHANGED <<failed, headers_resolved>>
               \/ /\ o.tag = "record" /\ call = "candidate"
                  /\ call' = "field"
                  /\ UNCHANGED <<failed, headers_resolved, hungry, caller>>
    IN  /\ headers_resolved /\ call \in {"line", "owned", "candidate", "seek"}
        /\ call = "owned" => bom # "rejected"
        /\ call = "seek" => NeedsFirstRecordWidth
        /\ Told(IF call = "owned" THEN ReadWindowOwned(format, window, engine, eof)
                ELSE IF SkipsRecords(format) /\ bom # "rejected" THEN AdvanceWindowEagerly(format, window, engine, eof)
                ELSE AdvanceWindowLazily(format, window, engine, eof))

(* The rest of a turn of advance_with_filter: the field is looked at, which *)
(* parses the record.                                                      *)
Look ==
    LET Matches(e) == Contains(FirstField(format, window, e.cursor_start, e.cursor_end), Literal)
        Viewed(o) ==
            /\ engine' = o.engine
            /\ \/ /\ o.tag = "error"
                  /\ Fail(o.error)
                  /\ UNCHANGED next
               \/ /\ o.tag = "record" /\ Matches(o.engine)
                  /\ Return([tag |-> "line"])
                  /\ next' = next + 1
                  /\ UNCHANGED failed
               \/ /\ o.tag = "record" /\ ~Matches(o.engine)
                  /\ call' = "match"
                  /\ UNCHANGED <<failed, hungry, caller>>
    IN  /\ call = "field"
        /\ Viewed(Materialize(format, window, engine))
        /\ UNCHANGED <<format, stream, reader, window, consumed, bom, headers_resolved, filter>>

-----------------------------------------------------------------------------
(* compact: drop the window's prefix that the engine no longer needs.      *)
Compact(read) ==
    LET anchor == Anchor(engine)
    IN  /\ engine' = ShiftWindow(window, engine, anchor)
        /\ window' = SubSeq(window, anchor + 1, Len(window)) \o read
        /\ consumed' = consumed + anchor

(* Mutant: a read of no bytes is not taken for the end.                    *)
RefillNeverEnds ==
    LET left == Len(stream) - pos
    IN  /\ hungry /\ ~eof
        /\ \E n \in IF left = 0 THEN {0} ELSE { Min({r, left}) : r \in Reads } :
               /\ Compact(SubSeq(stream, pos + 1, pos + n))
               /\ pos' = pos + n
        /\ hungry' = FALSE
        /\ UNCHANGED <<format, stream, eof, failed, bom, headers_resolved, filter, call, caller>>

(* refill: no bytes when the stream has ended.                             *)
Refill ==
    LET left == Len(stream) - pos
    IN  /\ hungry /\ ~eof
        /\ \E n \in IF left = 0 THEN {0} ELSE { Min({r, left}) : r \in Reads } :
               /\ Compact(SubSeq(stream, pos + 1, pos + n))
               /\ pos' = pos + n
               /\ eof' = (n = 0)
        /\ hungry' = FALSE
        /\ UNCHANGED <<format, stream, failed, bom, headers_resolved, filter, call, caller>>

(* refill, when the read fails.                                            *)
ReadFails ==
    /\ ReadErrors
    /\ hungry /\ ~eof
    /\ Compact(<<>>)
    /\ failed' = TRUE
    /\ hungry' = FALSE
    /\ call' = "none"
    /\ answer' = [tag |-> "error",
                  error |-> [ErrorAt(window', engine', "io", engine'.location)
                               EXCEPT !.byte = @ + consumed']]
    /\ UNCHANGED <<format, stream, reader, bom, headers_resolved, filter, next, target, moves>>

-----------------------------------------------------------------------------
(* A view of the line next_line returned: it is parsed now, unless it was, *)
(* and is not when a mark was to be rejected, whichever line it is.        *)
View ==
    LET Viewed(o) ==
            /\ engine' = o.engine
            /\ \/ /\ o.tag = "error"
                  /\ Fail(o.error)
               \/ /\ o.tag = "record"
                  /\ Return([tag |-> "record",
                             record |-> RebasedRecord([start |-> o.engine.cursor_start,
                                                       end   |-> o.engine.cursor_end,
                                                       index |-> o.engine.cursor_index])])
                  /\ UNCHANGED failed
    IN  /\ call = "none" /\ answer.tag = "line"
        /\ Viewed(IF bom = "rejected" THEN Failure(engine, RejectedBom)
                  ELSE Materialize(format, window, engine))
        /\ UNCHANGED <<format, stream, reader, window, consumed, bom, headers_resolved, filter, next>>

(* Mutant: the window keeps what was read before.                          *)
ResetButNotTheWindow(location) ==
    /\ answer' = NoAnswer
    /\ pos' = location.byte
    /\ consumed' = location.byte
    /\ eof' = FALSE
    /\ failed' = FALSE
    /\ bom' = IF location.byte # 0 \/ format.bom = "preserve" THEN "resolved" ELSE "pending"
    /\ headers_resolved' = FALSE
    /\ scanned_to' = 0
    /\ backoff' = 0
    /\ UNCHANGED <<format, stream, window, hungry, target>>

(* reset_stream_position.                                                  *)
ResetStreamPosition(location) ==
    /\ answer' = NoAnswer
    /\ pos' = location.byte
    /\ window' = <<>>
    /\ consumed' = location.byte
    /\ eof' = FALSE
    /\ failed' = FALSE
    /\ bom' = IF location.byte # 0 \/ format.bom = "preserve" THEN "resolved" ELSE "pending"
    /\ headers_resolved' = FALSE
    /\ scanned_to' = 0
    /\ backoff' = 0
    /\ UNCHANGED <<format, stream, hungry, target>>

(* Where a record is: as location() has it "immediately before reading",   *)
(* or an index of the stream.                                              *)
Place(byte, record) ==
    [byte |-> byte, line |-> 1 + Feeds(stream, 0, byte), record |-> record]

(* What a caller seeks: the start, if no header is there, and any record.  *)
Places == (IF format.headers THEN {} ELSE {0})
          \cup { i \in DOMAIN Outcomes : Outcomes[i].tag = "record" }
PlaceOf(i) ==
    LET Start(r) == Place(r.start, r.index)
    IN  IF i = 0 THEN Place(0, 0) ELSE Start(Outcomes[i].record)

(* seek begins: prepare_seek_state has the headers and the width to find   *)
(* out first, and may have to read a record for them.                      *)
Seek(i) ==
    /\ call = "none" /\ moves < MaxMoves
    /\ call' = "seek"
    /\ target' = i
    /\ moves' = moves + 1
    /\ answer' = NoAnswer
    /\ UNCHANGED <<format, stream, reader, parser, hungry, next>>

(* The record advanced to is read for its width, in the engine only: an    *)
(* error is not rebased, and the parser does not count as failed.          *)
ReadFirst ==
    LET Told(o) ==
            /\ engine' = o.engine
            /\ \/ /\ o.tag = "error"
                  /\ Return([tag |-> "unrebased", error |-> o.error])
                  /\ UNCHANGED next
               \/ /\ o.tag = "record"
                  /\ call' = "move"
                  /\ next' = next + 1
                  /\ UNCHANGED <<hungry, answer, target, moves>>
    IN  /\ call = "first"
        /\ Told(RecordInto(format, window, engine))
        /\ UNCHANGED <<format, stream, reader, window, consumed, failed, bom, headers_resolved, filter>>

Moving == call = "move" \/ (call = "seek" /\ Settled)

(* The rest of seek.                                                       *)
Move ==
    LET To(place) ==
            /\ ResetStreamPosition(place)
            /\ engine' = ResetPosition(engine, place.line, place.record)
    IN  /\ Moving
        /\ To(PlaceOf(target))
        /\ call' = "none"
        /\ next' = Max({target, 1})
        /\ UNCHANGED moves

(* The reader cannot seek: nothing has moved, but for a record read ahead. *)
MoveFails ==
    /\ ReadErrors /\ Moving
    /\ Return([tag |-> "error", error |-> [ErrorAt(window, engine, "io", engine.location)
                                             EXCEPT !.byte = @ + consumed]])
    /\ UNCHANGED <<format, stream, reader, parser, next>>

(* rewind.                                                                 *)
Rewind ==
    /\ call = "none" /\ moves < MaxMoves
    /\ ResetStreamPosition([byte |-> 0])
    /\ engine' = ResetHeaders(format, ResetPosition(engine, 1, 0))
    /\ next' = 1
    /\ moves' = moves + 1
    /\ UNCHANGED call

-----------------------------------------------------------------------------
Step ==
    \/ Refuse \/ ResolveBom \/ RejectBom \/ EnsureHeaders \/ SkipToCandidate \/ Scan \/ Look \/ Refill \/ ReadFails
    \/ ReadFirst \/ Move \/ MoveFails

Next ==
    \/ \E reads \in Calls[format] : Call(reads)
    \/ Step
    \/ View
    \/ \E i \in Places : Seek(i)
    \/ Rewind

(* The thread that called runs, and its reads return: WF_vars(Step), with  *)
(* `call # "none"` for ENABLED Step.  The two agree, for a call that could *)
(* not go on would be a deadlock.                                          *)
Fairness == []<>(call = "none") \/ []<><<Step>>_vars

Spec == Init /\ [][Next]_vars /\ Fairness

-----------------------------------------------------------------------------
(* The window is the stream from `consumed` on as far as the reader has    *)
(* come: nothing is skipped or kept twice by compaction, refills and seeks.*)
WindowIsStream ==
    /\ consumed + Len(window) = pos
    /\ window = SubSeq(stream, consumed + 1, pos)

(* However the stream is cut into reads, the records are those of the      *)
(* whole stream parsed at once, with their offsets and numbers, and        *)
(* location() is where the last one ends; an error comes where it does     *)
(* there and says the same of its byte, line and record; and only the end  *)
(* of the stream ends it.  But an error that a seek meets has its byte in  *)
(* the window; and where a mark is to be rejected no record is ever seen,  *)
(* but a caller who views no line may come to a later error, or the end.   *)
SameAsWhole ==
    LET Answered(o) ==
            /\ answer.tag = "record" =>
                  /\ o.tag = "record" /\ answer.record = o.record
                  /\ Location = Place(answer.record.end, answer.record.index + 1)
            /\ answer.tag = "line" /\ bom # "rejected" => o.tag # "done"
        Awaited(o) ==
            /\ answer.tag = "done" => o.tag = "done"
            /\ (answer.tag = "error" /\ answer.error.kind \notin {"io", "failed"}) =>
                  o.tag = "error" /\ answer.error = o.error
            /\ answer.tag = "unrebased" =>
                  o.tag = "error" /\ [answer.error EXCEPT !.byte = o.error.byte] = o.error
    IN  /\ answer.tag \in {"record", "line"} => next > 1 /\ Answered(Outcomes[next - 1])
        /\ bom # "rejected" => Awaited(Expected)

(* window_settled: "whether a record ending at `end` is whole however the   *)
(* stream continues".  A record is only reported when it is.               *)
ReportedAreWhole ==
    answer.tag = "record" =>
        \E i \in 1..Len(Outcomes) :
            Outcomes[i].tag = "record" /\ Outcomes[i].record = answer.record

(* Lines are counted once and only once as their bytes are dropped, and    *)
(* the tally the records keep is of the bytes it claims to cover.          *)
LinesTallied ==
    /\ engine.line_base = 1 + Feeds(stream, 0, consumed)
    /\ engine.folded_lines = Feeds(window, 0, engine.folded_upto)

(* A record that is whole in the window is reported before more of the     *)
(* stream is asked for, and so is an error more of it could not change.    *)
Prompt ==
    LET Beyond(o) ==
            CASE o.tag = "record" ->
                   o.record.end > pos \/ (o.record.end = pos /\ ~o.terminated)
              [] o.tag = "error" ->
                   o.error.kind \in {"unterminated", "rejected bom"} \/ o.error.byte + 1 >= pos
              [] OTHER -> TRUE
    IN  hungry /\ headers_resolved => Beyond(Expected)

(* "The window holds at most that record plus the one being assembled":    *)
(* a refill drops what comes before the record reported last, and the      *)
(* record too when it was read into the caller's storage.                  *)
WindowHoldsTwo ==
    [][Refill /\ headers_resolved /\ call \in {"line", "owned"} /\ next > 1 /\ bom # "rejected" =>
          LET Dropped(last) == consumed' >= IF call = "owned" THEN last.end ELSE last.start
          IN  Dropped(Outcomes[next - 1].record)]_vars

(* Every call returns.                                                     *)
CallsReturn == (call # "none") ~> (call = "none")
=============================================================================
