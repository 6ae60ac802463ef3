------------------------------- MODULE Engine -------------------------------
(***************************************************************************)
(* The window-scanning engine (src/crates/coseva/src/engine.rs and         *)
(* engine/) as the streaming front ends drive it: the engine is a record e *)
(* and each of its operations a function of the format f, the window w and *)
(* e.  Offsets are into the window, which holds the stream from some byte  *)
(* on and may end anywhere.                                                *)
(*                                                                         *)
(* Left out: the limits of a field and of the number of fields, recovery,  *)
(* multi-byte separators, encodings, what the fields contain, and the      *)
(* staging and fast kernels, which only choose how the same record is      *)
(* parsed.                                                                 *)
(***************************************************************************)
EXTENDS Integers, Sequences, FiniteSets, FiniteSetsExt, Grammar

(* A format has, beyond the fields Grammar names, comments, skip_blank,    *)
(* escapes (Escape::Mysql or ::Unquoted), headers (Headers::FirstRecord)   *)
(* and match_first (FieldCount::MatchFirst), all BOOLEAN, limit            *)
(* (max_record_bytes) and bom (ReadBom).                                   *)
SkipsRecords(f) == f.comments \/ f.skip_blank

(* usize::MAX, at the width TLC counts in: no window is that long.         *)
NO_OFFSET == 2147483647

(* ResumeState: fresh, new and ignored.                                    *)
Fresh(start) ==
    [record_start |-> start, scanned_to |-> start, field_start |-> start,
     in_quotes |-> FALSE, ignored |-> FALSE]
Unset == Fresh(NO_OFFSET)
Ignored(start, to) == [Fresh(start) EXCEPT !.scanned_to = to, !.ignored = TRUE]

(* expected is 0 while the width of the records is not known.              *)
NewEngine ==
    [location |-> 0, line_base |-> 1, folded_upto |-> 0, folded_lines |-> 0,
     record_index |-> 0, expected |-> 0, headers |-> FALSE,
     cursor_start |-> NO_OFFSET, cursor_end |-> NO_OFFSET, cursor_index |-> 0,
     resume |-> Unset, failed |-> FALSE]

(* How many line feeds there are from byte a to byte b of w.               *)
Feeds(w, a, b) == Cardinality({ i \in a+1..b : w[i] = "lf" })

HasByte(w, at, b) == at < Len(w) /\ w[at + 1] = b

-----------------------------------------------------------------------------
(* Escapes outside the grammar Split shares: any byte may be escaped, in a *)
(* quoted field and out of it, and a quote is not doubled.                 *)
NextMode(f, m, b) ==
    CASE m = "escaped" -> "unquoted"
      [] m = "quoted_escaped" -> "quoted"
      [] f.escapes /\ b = "esc" /\ m \in {"start", "field", "unquoted"} -> "escaped"
      [] f.escapes /\ b = "esc" /\ m = "quoted" -> "quoted_escaped"
      [] f.escapes /\ m = "closed" -> QuotedFieldEnds(f, b)
      [] OTHER -> ModeAfter(f, m, b)

(* One byte of a record, the i-th of the window, of which `over` come too  *)
(* late.  An error is located at the byte, or at the carriage return no    *)
(* line feed follows.  A closing quote and a delimiter after it are not    *)
(* counted when they are read.                                             *)
ReadByte(f, over, s, b, i) ==
    LET m == NextMode(f, s.mode, b)
        mode == CASE m = "malformed" -> m
                  [] m # "malformed" /\ i > over
                       /\ m # "closed" /\ ~(s.mode = "closed" /\ m = "field") -> "too large"
                  [] OTHER -> IF m = "start" THEN "ended" ELSE m
    IN  IF s.mode \in {"ended", "malformed", "too large"}
          THEN s
          ELSE [mode   |-> mode,
                at     |-> IF m # "malformed" THEN i ELSE IF s.mode = "cr" THEN i - 2 ELSE i - 1,
                fields |-> IF m = "field" THEN s.fields + 1 ELSE s.fields,
                plain  |-> s.plain /\ b # "quote" /\ ~(f.escapes /\ b = "esc")]

(* The record at offset p of w, read to its end or to the window's.  Where *)
(* it is cut short inside quotes it is an error that says so, and between  *)
(* the two bytes of a record ending one that blames the first of them.     *)
PhysicalRecord(f, w, p) ==
    LET run[i \in p..Len(w)] ==
            IF i = p THEN [mode |-> "start", at |-> p, fields |-> 1, plain |-> TRUE]
                     ELSE ReadByte(f, p + f.limit, run[i - 1], w[i], i)
        Judged(s) ==
            LET Verdict(v, at) ==
                    [verdict |-> v, at |-> at, terminated |-> s.mode = "ended",
                     fields |-> s.fields, plain |-> s.plain]
            IN  CASE s.mode = "malformed" -> Verdict("syntax", s.at)
                  [] s.mode = "too large" \/ (s.mode = "closed" /\ s.at > p + f.limit) ->
                       Verdict("too large", s.at)
                  [] s.mode \in {"quoted", "quoted_escaped"} -> Verdict("unterminated", Len(w))
                  [] s.mode = "cr" -> Verdict("syntax", Len(w) - 1)
                  [] OTHER -> Verdict("ok", s.at)
    IN  Judged(run[Len(w)])

-----------------------------------------------------------------------------
(* Comments and blank lines.  A record ending inside a comment needs no    *)
(* quotes to be closed.                                                    *)
EndingsFrom(f, w, start) ==
    { at \in start+1..Len(w) :
        /\ w[at] = f.ending
        /\ f.kind = "crlf" => at - 1 > start /\ w[at - 1] = "cr" }

(* record_ending_width_at.                                                 *)
EndingWidth(f, w, at) ==
    CASE f.kind # "crlf" /\ HasByte(w, at, f.ending) -> 1
      [] f.kind # "byte" /\ HasByte(w, at, "cr") /\ HasByte(w, at + 1, "lf") -> 2
      [] OTHER -> 0

Resuming(w, e) ==
    e.resume.ignored /\ e.resume.record_start = e.location /\ e.resume.scanned_to <= Len(w)

(* skip_comments: one comment.  What is left of an unfinished one is taken *)
(* up two bytes before the window's end, where a record ending may be cut. *)
SkipComment(f, w, e) ==
    LET ends == EndingsFrom(f, w, IF Resuming(w, e) THEN e.resume.scanned_to ELSE e.location)
    IN  IF ends # {}
          THEN [e EXCEPT !.location = Min(ends), !.resume = Unset]
          ELSE [e EXCEPT !.location = Len(w),
                         !.resume = Ignored(e.location, Max({e.location, Len(w) - 2}))]

(* skip_comments and skip_blank_lines in turn, until neither moves on.     *)
SkipIgnored(f, w, e) ==
    LET SkipOne(c) ==
            IF f.comments /\ (Resuming(w, c) \/ HasByte(w, c.location, "hash"))
              THEN SkipComment(f, w, c)
              ELSE IF f.skip_blank
                THEN [c EXCEPT !.location = @ + EndingWidth(f, w, @)]
                ELSE c
        skip[n \in 0..Len(w)] == IF n = 0 THEN e ELSE SkipOne(skip[n - 1])
        Skipped(c) ==
            IF (e.resume.ignored \/ c.location # e.location) /\ ~c.resume.ignored
              THEN [c EXCEPT !.resume = Fresh(c.location)]
              ELSE c
    IN  Skipped(skip[Len(w)])

-----------------------------------------------------------------------------
NoError == [kind |-> "none", byte |-> 0, line |-> 0, record |-> 0]

(* error: `line_base` is the line of the window's first byte.              *)
ErrorAt(w, e, kind, at) ==
    [kind |-> kind, byte |-> at, line |-> e.line_base + Feeds(w, 0, at),
     record |-> e.record_index]

(* What an operation leaves behind: the engine, and a record that ends at  *)
(* its location, nothing, or an error.                                     *)
Record(e, terminated) ==
    [engine |-> e, tag |-> "record", terminated |-> terminated, error |-> NoError]
Nothing(e) == [engine |-> e, tag |-> "none", terminated |-> FALSE, error |-> NoError]
Failure(e, error) == [engine |-> e, tag |-> "error", terminated |-> FALSE, error |-> error]

ParserFailed(w, e) == Failure(e, ErrorAt(w, e, "failed", e.location))

(* fold_plain_record: a record without quotes or escapes has at most the   *)
(* one line feed it ends with, and is counted without being searched, if   *)
(* the count had come as far as its start.  Called where a record is       *)
(* parsed into spans: the owned parser counts nothing, except for the      *)
(* formats that have no owned parser.                                      *)
Fold(f, e, record, owned) ==
    IF /\ record.plain
       /\ owned => f.escapes \/ f.kind = "crlf"
       /\ e.folded_upto = e.location
       /\ f.ending = "lf"
      THEN [e EXCEPT !.folded_upto = record.at,
                     !.folded_lines = @ + (IF record.terminated THEN 1 ELSE 0)]
      ELSE e

(* parse_positioned_record and validate_field_count.                       *)
ParseRecord(f, w, e, owned) ==
    LET Fails(c, kind, at) == Failure([c EXCEPT !.failed = TRUE], ErrorAt(w, c, kind, at))
        Validated(record) ==
            LET parsed == [Fold(f, e, record, owned) EXCEPT !.location = record.at]
            IN  CASE record.verdict # "ok" -> Fails(e, record.verdict, record.at)
                  [] /\ record.verdict = "ok"
                     /\ f.match_first /\ e.expected \notin {0, record.fields} ->
                       Fails(parsed, "width", record.at)
                  [] OTHER ->
                       Record([parsed EXCEPT
                                 !.record_index = @ + 1,
                                 !.expected = IF f.match_first THEN record.fields ELSE @],
                              record.terminated)
    IN  Validated(PhysicalRecord(f, w, e.location))

(* Mutant: a record the window ends with always waits for more.            *)
SettledBeforeTheEdge(w, o) == o.engine.location < Len(w)

(* window_settled: the record is whole however the stream continues.       *)
WindowSettled(w, o) == o.engine.location < Len(w) \/ o.terminated

(* Mutant: the byte before the window's last may be in doubt, not the last.*)
TruncatedAtTheEdge(w, error) == error.kind = "unterminated" \/ error.byte >= Len(w)

(* truncated_by_window, for separators of one byte.                        *)
Truncated(w, error) == error.kind = "unterminated" \/ error.byte + 1 >= Len(w)

Undecided(w, o) ==
    \/ o.tag = "record" /\ ~WindowSettled(w, o)
    \/ o.tag = "error" /\ Truncated(w, o.error)

-----------------------------------------------------------------------------
(* fill_record_spans: the next record, if there is one.                    *)
NextRecord(f, w, e) ==
    LET First(c) == IF c.location = Len(w) THEN Nothing(c) ELSE ParseRecord(f, w, c, FALSE)
    IN  First(IF SkipsRecords(f) THEN SkipIgnored(f, w, e) ELSE e)

KnowHeaders(e) == [e EXCEPT !.headers = TRUE]

(* ensure_headers: the header is parsed once, whatever comes of it.        *)
HeadersOfInput(f, w, e) ==
    IF e.headers \/ ~f.headers THEN Nothing(KnowHeaders(e)) ELSE NextRecord(f, w, KnowHeaders(e))

(* ensure_headers_window: a header has to end before the window does.      *)
HeadersOfWindow(f, w, e) ==
    LET Ensured(o) == IF o.tag = "record" /\ o.engine.location < Len(w)
                        THEN Nothing(KnowHeaders(o.engine))
                        ELSE IF o.tag = "error" THEN o ELSE Nothing(o.engine)
    IN  IF e.headers \/ ~f.headers THEN Nothing(KnowHeaders(e)) ELSE Ensured(NextRecord(f, w, e))

(* settle: a record advanced to and never viewed is parsed and passed.     *)
Settle(f, w, e) ==
    IF e.location = e.cursor_start
      THEN ParseRecord(f, w, [e EXCEPT !.record_index = e.cursor_index], FALSE)
      ELSE Nothing(e)

(* position: a checkpoint says where the record after the comments starts. *)
Position(f, w, e) ==
    LET restored ==
            IF ~e.resume.ignored /\ e.resume.record_start <= Len(w)
              THEN [e EXCEPT !.location = Max({@, e.resume.record_start})] ELSE e
        Set(c) ==
            IF c.location = Len(w)
              THEN [c EXCEPT !.cursor_start = NO_OFFSET]
              ELSE [c EXCEPT !.cursor_start = c.location, !.cursor_index = c.record_index,
                             !.cursor_end = NO_OFFSET]
    IN  Set(IF SkipsRecords(f) THEN SkipIgnored(f, w, restored) ELSE e)

Positioned(e) == e.cursor_start # NO_OFFSET

(* window_lacks_record_runtime: one byte, or two where the second decides, *)
(* of the `len` that the record's limit leaves in reach.  When it leaves   *)
(* less than the window, not finding the end there proves nothing.         *)
LacksStep(f, w, len, s) ==
    LET b == w[s.scanned_to + 1]
        last == s.scanned_to + 1 = len
        lacks == IF len < Len(w) THEN "unproven" ELSE "lacks"
        next == w[s.scanned_to + 2]
        To(n) == [s EXCEPT !.scanned_to = @ + n]
        Field(n) == [To(n) EXCEPT !.field_start = s.scanned_to + n, !.in_quotes = FALSE]
        Stop(v) == [s EXCEPT !.verdict = v]
        Quote ==
            IF s.in_quotes
              THEN IF last THEN Stop(lacks)
                   ELSE IF next = "quote" /\ ~f.escapes THEN To(2)
                   ELSE IF next = "delim" THEN Field(2)
                   ELSE Stop("unproven")
              ELSE IF s.scanned_to = s.field_start THEN [To(1) EXCEPT !.in_quotes = TRUE]
                   ELSE Stop("unproven")
        Ending == b = f.ending \/ (f.kind = "crlf" /\ b = "cr")
    IN  IF s.verdict # "scanning" THEN s
        ELSE IF s.scanned_to = len THEN Stop(lacks)
        ELSE CASE b = "quote" -> Quote
               [] b = "esc" /\ f.escapes -> IF last THEN Stop(lacks) ELSE To(2)
               [] b = "delim" /\ ~s.in_quotes -> Field(1)
               [] Ending /\ ~s.in_quotes -> Stop("unproven")
               [] OTHER -> To(1)

(* What the scan of the checkpointed record comes to, taken up where it    *)
(* was left: "lacks" when the window certainly holds no whole record.      *)
LacksScan(f, w, e) ==
    LET begun == [scanned_to |-> e.resume.scanned_to, field_start |-> e.resume.field_start,
                  in_quotes |-> e.resume.in_quotes, verdict |-> "scanning"]
        len == Min({Len(w), e.resume.record_start + f.limit + 1})
        scan[n \in 0..Len(w) + 1] == IF n = 0 THEN begun ELSE LacksStep(f, w, len, scan[n - 1])
    IN  scan[Len(w) + 1]

(* pause_scan.                                                             *)
Paused(e, s) ==
    [e EXCEPT !.resume = [record_start |-> e.resume.record_start, scanned_to |-> s.scanned_to,
                          field_start |-> s.field_start, in_quotes |-> s.in_quotes,
                          ignored |-> FALSE]]

(* checkpoint_after_parse and seed_resume.                                 *)
Checkpoint(w, start, o) ==
    IF Undecided(w, o) /\ o.engine.resume.record_start # start
      THEN [o EXCEPT !.engine.resume = Fresh(start)]
      ELSE o

(* ended_on_terminator: the last byte of the window is a record ending's.  *)
EndedOnTerminator(f, w, e) == e.location = Len(w) /\ w[Len(w)] = f.ending

(* try_advance_window and try_read_window_owned.  The owned reader takes a *)
(* record the window ends with for whole when its last byte is a record    *)
(* ending's, and is only called when the headers are known.                *)
TryWindow(f, w, e, owned) ==
    LET Ended(o) ==
            IF owned /\ o.tag = "record"
              THEN [o EXCEPT !.terminated = @ \/ EndedOnTerminator(f, w, o.engine)]
              ELSE [o EXCEPT !.engine.cursor_end =
                                IF o.tag = "record" THEN o.engine.location ELSE @]
        Parsed(c, scan) ==
            IF c.resume.record_start = c.location /\ scan.verdict = "lacks"
              THEN Nothing(Paused(c, scan))
              ELSE Checkpoint(w, c.location, Ended(ParseRecord(f, w, c, owned)))
        PositionedAt(c) == IF Positioned(c) THEN Parsed(c, LacksScan(f, w, c)) ELSE Nothing(c)
        Settled(o) ==
            IF o.tag = "error" THEN o ELSE PositionedAt(Position(f, w, o.engine))
        Headed(o) == IF o.tag # "error" /\ (owned \/ o.engine.headers)
                       THEN Settled(Settle(f, w, o.engine)) ELSE o
    IN  CASE e.failed -> ParserFailed(w, e)
          [] ~e.failed /\ owned -> Headed(Nothing(e))
          [] OTHER -> Headed(HeadersOfWindow(f, w, e))

-----------------------------------------------------------------------------
(* skip_literal: a byte of the stream that ends a record is known for one. *)
SkipLiteral(f) == ~SkipsRecords(f) /\ ~f.escapes /\ f.kind # "crlf"

(* find_literal: the text before its first place from `from` on, or all.   *)
BeforeLiteral(w, from, literal) ==
    LET hits == { i \in from..Len(w)-Len(literal) : SubSeq(w, i + 1, i + Len(literal)) = literal }
    IN  SubSeq(w, from + 1, Min({Len(w)} \cup hits))

Contains(text, literal) == BeforeLiteral(text, 0, literal) # text

(* skip_records.                                                           *)
SkipRecords(e, bytes, records) ==
    [e EXCEPT !.location = @ + bytes, !.record_index = @ + records,
              !.cursor_start = NO_OFFSET, !.cursor_end = NO_OFFSET, !.resume = Unset]

(* field, of the first column: the bytes it is decoded from.               *)
FirstField(f, w, from, to) ==
    LET mode[i \in from..to] == IF i = from THEN "start" ELSE NextMode(f, mode[i - 1], w[i])
    IN  SubSeq(w, from + 1, Min({to} \cup { i \in from+1..to : mode[i] \in {"field", "start"} }))

-----------------------------------------------------------------------------
(* restore_cursor: everything but the checkpoint.                          *)
RestoreCursor(saved, e) == [saved EXCEPT !.resume = e.resume]

(* Mutant: the tally keeps what was counted of the record given up.        *)
RestoreButNotTheTally(saved, e) ==
    [e EXCEPT !.location = saved.location, !.record_index = saved.record_index,
              !.folded_lines = saved.folded_lines,
              !.expected = saved.expected, !.headers = saved.headers,
              !.cursor_start = NO_OFFSET, !.cursor_end = NO_OFFSET, !.failed = FALSE]

(* restore_chunk_cursor, which also gives up the positioned record.        *)
RestoreChunkCursor(saved, e) ==
    [e EXCEPT !.location = saved.location, !.record_index = saved.record_index,
              !.folded_upto = Min({@, saved.location}), !.folded_lines = saved.folded_lines,
              !.expected = saved.expected, !.headers = saved.headers,
              !.cursor_start = NO_OFFSET, !.cursor_end = NO_OFFSET, !.failed = FALSE]

(* What a front end is told: "record", "done", "more" or "error", and the  *)
(* record it is told of.                                                   *)
Answers(e, tag) ==
    [engine |-> e, tag |-> tag, error |-> NoError,
     record |-> [start |-> e.cursor_start, end |-> e.location, index |-> e.cursor_index]]
Errs(o) == [Answers(o.engine, "error") EXCEPT !.error = o.error]

(* advance: move to the next record of a window that ends the stream, or   *)
(* one in which the error the record carries is settled.                   *)
Advance(f, w, e) ==
    LET At(c) == Answers(c, IF Positioned(c) THEN "record" ELSE "done")
        Settled(o) == IF o.tag = "error" THEN Errs(o) ELSE At(Position(f, w, o.engine))
        Headed(o) == IF o.tag = "error" THEN Errs(o) ELSE Settled(Settle(f, w, o.engine))
    IN  IF e.failed THEN Errs(ParserFailed(w, e)) ELSE Headed(HeadersOfInput(f, w, e))

(* rewind_to_current.                                                      *)
RewindToCurrent(e) ==
    [e EXCEPT !.location = e.cursor_start,
              !.record_index = IF e.location # e.cursor_start THEN e.cursor_index ELSE @]

(* materialize_full: parse the positioned record for a view.               *)
Materialize(f, w, e) ==
    LET Ended(o) == IF o.tag = "error" THEN o
                    ELSE [o EXCEPT !.engine.cursor_end = o.engine.location]
    IN  IF e.cursor_end # NO_OFFSET THEN Record(e, FALSE)
        ELSE Ended(ParseRecord(f, w, RewindToCurrent(e), FALSE))

(* read_byte_record_into: parse it again, into the caller's storage.       *)
RecordInto(f, w, e) == ParseRecord(f, w, RewindToCurrent(e), TRUE)

(* What a try that did not reach the stream's end amounts to: a record that*)
(* is whole, an error the window settles, or neither yet.                  *)
Whole(w, o) == o.tag = "record" /\ WindowSettled(w, o)
Certain(w, o) == o.tag = "error" /\ ~Truncated(w, o.error)

(* advance_window.                                                         *)
AdvanceWindow(f, w, e, eof) ==
    LET Tried(o) ==
            CASE Whole(w, o) -> Answers(o.engine, "record")
              [] Certain(w, o) -> Errs(o)
              [] OTHER -> Answers(RestoreChunkCursor(e, o.engine), "more")
    IN  IF eof THEN Advance(f, w, e) ELSE Tried(TryWindow(f, w, e, FALSE))

AdvanceWindowLazily(f, w, e, eof) ==
    LET Tried(o) ==
            CASE Whole(w, o) -> Answers(o.engine, "record")
              [] Certain(w, o) -> Advance(f, w, RestoreCursor(e, o.engine))
              [] OTHER -> Answers(RestoreCursor(e, o.engine), "more")
    IN  IF eof THEN Advance(f, w, e) ELSE Tried(TryWindow(f, w, e, FALSE))

AdvanceWindowEagerly(f, w, e, eof) ==
    LET Tried(o) ==
            CASE Whole(w, o) -> Answers(o.engine, "record")
              [] Certain(w, o) -> Errs(o)
              [] OTHER -> Answers(RestoreCursor(e, o.engine), "more")
        Parsed(o) == IF o.tag = "error" THEN Errs(o) ELSE Answers(o.engine, "record")
        Last(o) == IF o.tag = "record" THEN Parsed(Materialize(f, w, o.engine)) ELSE o
    IN  IF eof THEN Last(Advance(f, w, e)) ELSE Tried(TryWindow(f, w, e, FALSE))

(* release_positioned_record: the caller has the record, nothing borrows it*)
(* from the window.                                                        *)
Release(e) == [e EXCEPT !.cursor_start = NO_OFFSET, !.cursor_end = NO_OFFSET]
Owned(e) == [Answers(e, "record") EXCEPT !.engine = Release(@)]

(* read_window_owned.                                                      *)
ReadWindowOwned(f, w, e, eof) ==
    LET Tried(o) ==
            CASE Whole(w, o) -> Owned(o.engine)
              [] Certain(w, o) -> Errs(o)
              [] OTHER -> Answers(RestoreChunkCursor(e, o.engine), "more")
        Parsed(o) == IF o.tag = "error" THEN Errs(o) ELSE Owned(o.engine)
        Last(o) == IF o.tag = "record" THEN Parsed(ParseRecord(f, w, o.engine, TRUE)) ELSE o
    IN  IF eof THEN Last(Advance(f, w, e)) ELSE Tried(TryWindow(f, w, e, TRUE))

(* headers_window.                                                         *)
HeadersWindow(f, w, e, eof) ==
    LET Tried(o) ==
            CASE o.tag = "error" /\ (eof \/ Certain(w, o)) ->
                   Errs([o EXCEPT !.engine = KnowHeaders(@)])
              [] o.tag # "error" /\ (eof \/ o.engine.headers) -> Answers(KnowHeaders(o.engine), "record")
              [] OTHER -> Answers(RestoreCursor(e, o.engine), "more")
    IN  Tried(IF eof THEN HeadersOfInput(f, w, e) ELSE HeadersOfWindow(f, w, e))

-----------------------------------------------------------------------------
(* Mutant: a checkpoint keeps its bytes although the scan is past them.    *)
AnchorAtCheckpoint(e) == Min({e.cursor_start, e.location, e.resume.record_start})

(* window_anchor: the earliest byte still needed.                          *)
WindowAnchor(e) ==
    LET cursor == Min({e.cursor_start, e.location})
    IN  IF e.resume.ignored THEN Min({cursor, e.resume.scanned_to}) ELSE cursor

(* io_window_anchor.                                                       *)
Anchor(e) ==
    IF ~Positioned(e) /\ ~e.resume.ignored /\ e.resume.record_start # NO_OFFSET
      THEN Max({WindowAnchor(e), e.resume.record_start})
      ELSE WindowAnchor(e)

(* shift_resume.                                                           *)
ShiftResume(r, by) ==
    CASE r.record_start = NO_OFFSET -> r
      [] r.record_start # NO_OFFSET /\ r.ignored /\ r.record_start < by ->
           Ignored(0, Max({0, r.scanned_to - by}))
      [] r.record_start # NO_OFFSET /\ ~(r.ignored /\ r.record_start < by) ->
           IF Min({r.record_start, r.scanned_to, r.field_start}) >= by
             THEN [r EXCEPT !.record_start = @ - by, !.scanned_to = @ - by, !.field_start = @ - by]
             ELSE Unset

(* shift_window: `by` bytes leave the window, and the lines among them are *)
(* counted, by what the records folded when that reaches so far.           *)
ShiftWindow(w, e, by) ==
    LET tallied == e.folded_upto >= by /\ e.folded_upto <= Len(w)
        overshot == Feeds(w, by, e.folded_upto)
        Shifted(at) == IF at = NO_OFFSET THEN at ELSE at - by
    IN  IF by = 0 THEN e
        ELSE [e EXCEPT
                !.line_base = @ + (IF tallied THEN Max({0, e.folded_lines - overshot})
                                              ELSE Feeds(w, 0, by)),
                !.folded_upto = IF tallied THEN @ - by ELSE 0,
                !.folded_lines = IF tallied THEN overshot ELSE 0,
                !.location = Max({0, @ - by}),
                !.cursor_start = Shifted(@),
                !.cursor_end = Shifted(@),
                !.resume = ShiftResume(@, by)]

(* reset_position: restart over an empty window; headers and width stay.   *)
ResetPosition(e, line, record) ==
    [NewEngine EXCEPT !.line_base = line, !.record_index = record,
                      !.expected = e.expected, !.headers = e.headers]

(* reset_headers.                                                          *)
ResetHeaders(f, e) ==
    [e EXCEPT !.headers = IF f.headers THEN FALSE ELSE @,
              !.expected = IF f.match_first THEN 0 ELSE @]
=============================================================================
