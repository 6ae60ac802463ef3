---------------------------- MODULE FieldParsing ----------------------------
(***************************************************************************)
(* How one record is parsed in general: parse_record_fields of             *)
(* src/crates/coseva/src/engine/borrowed_parser.rs.  A parse is a function *)
(* of the configuration c, the input w and the offset p the record starts  *)
(* at.  It knows nothing of the kernels that are tried before it (Kernels). *)
(*                                                                         *)
(* Left out: separators of more than one byte, trimming, headers, which    *)
(* are never NULL, and the tally of lines.                                 *)
(***************************************************************************)
EXTENDS Integers, Sequences, FiniteSets, FiniteSetsExt

(* A configuration has: delim and ending, bytes; kind ("newline", "crlf"   *)
(* or "byte"); escape ("double", "backslash" or "unquoted"); quoting,      *)
(* bare_quotes, trailing_space, any_escape and skip_space, BOOLEAN; nulls  *)
(* ("none", "postgres" or "mysql"); limits; count, the fields every record *)
(* has to have, AnyCount, or FirstCount for as many as the first one has.  *)
AnyCount == -1
FirstCount == -2

-----------------------------------------------------------------------------
(* A parse in progress: how far it has come, the fields so far, and        *)
(* whether it is open, done, failed or, for a kernel, declined.            *)
NoError == [kind |-> "none", at |-> 0, field |-> 0]
Begin(p) == [at |-> p, fields |-> <<>>, status |-> "open", error |-> NoError]

(* error and error_for: the field is the one being scanned.                *)
Fail(r, kind, at) ==
    [r EXCEPT !.status = "failed",
              !.error = [kind |-> kind, at |-> at, field |-> Len(r.fields)]]
Declined(r) == [r EXCEPT !.status = "declined"]

HasByte(w, at, b) == at < Len(w) /\ w[at + 1] = b

(* The first of these bytes in w[from..to], or `to`.                       *)
Find(w, from, to, bytes) == Min({to} \cup { i \in from..to-1 : w[i + 1] \in bytes })

Text(w, from, to) == SubSeq(w, from + 1, to)
Field(text) == [text |-> text, null |-> FALSE]
NullField == [text |-> <<>>, null |-> TRUE]

(* Mutant: the scan does not see the byte that shows a field too long.     *)
ScanEndAtLimit(c, w, p, start) == Min({Len(w), p + c.limits.record, start + c.limits.field})

(* scan_end.                                                               *)
ScanEnd(c, w, p, start) == Min({Len(w), p + c.limits.record + 1, start + c.limits.field + 1})

(* check_record_limit and check_scan_end, before what follows.             *)
WithinRecord(c, p, r, at, then) ==
    IF at - p > c.limits.record THEN Fail(r, "record too large", at) ELSE then
WithinScan(c, p, start, r, at, then) ==
    IF at - start > c.limits.field THEN Fail(r, "field too large", at)
                                   ELSE WithinRecord(c, p, r, at, then)

(* push_span and push_owned_field.                                         *)
Push(c, r, field, at) ==
    CASE r.status # "open" -> r
      [] r.status = "open" /\ Len(r.fields) = c.limits.fields -> Fail(r, "too many fields", at)
      [] r.status = "open" /\ Len(r.fields) # c.limits.fields /\ Len(field.text) > c.limits.field ->
            Fail(r, "field too large", at)
      [] OTHER -> [r EXCEPT !.fields = Append(@, field)]

(* The field ends before `at`, and the record with it or not.              *)
MoveTo(c, p, r, at, ends) ==
    LET Moved(m) == WithinRecord(c, p, m, at, m)
    IN  IF r.status # "open" THEN r
        ELSE Moved([r EXCEPT !.at = at, !.status = IF ends THEN "done" ELSE "open"])

(* raw_field_is_null.                                                      *)
IsNull(c, raw) ==
    \/ c.nulls = "postgres" /\ raw = <<>>
    \/ c.nulls = "mysql" /\ raw = <<"esc", "N">>

(* A carriage return before the line feed is stripped.                     *)
FieldEnd(c, w, start, at) ==
    IF c.kind # "byte" /\ HasByte(w, at, "lf") /\ at > start /\ HasByte(w, at - 1, "cr")
      THEN at - 1 ELSE at

-----------------------------------------------------------------------------
(* The general parser into spans.                                          *)

(* resume_after_unquoted_escape, until what is found is no escape.         *)
UnquotedStop(c, w, from, to, stops) ==
    LET stop[n \in 0..Len(w)] ==
            LET After(at) == IF at < to /\ w[at + 1] = "esc" /\ c.escape = "unquoted"
                               THEN at + (IF at + 1 < Len(w) THEN 2 ELSE 1) ELSE at
                Next(at) == Find(w, at, to, stops)
            IN  IF n = 0 THEN Next(from) ELSE Next(After(stop[n - 1]))
    IN  stop[to - from]

(* push_unescaped_span: an escape with nothing after it stands for itself. *)
Unescaped(raw) ==
    LET Read(s, n) ==
            IF raw[n] = "esc" /\ ~s.escaped /\ n < Len(raw)
              THEN [s EXCEPT !.escaped = TRUE]
              ELSE [text |-> Append(s.text, raw[n]), escaped |-> FALSE]
        read[n \in 0..Len(raw)] ==
            IF n = 0 THEN [text |-> <<>>, escaped |-> FALSE] ELSE Read(read[n - 1], n)
    IN  read[Len(raw)].text

(* push_general_unquoted_span, and mark_null_spans, which agrees with it.  *)
PushUnquoted(c, r, raw, at) ==
    Push(c, r, IF IsNull(c, raw) THEN NullField
               ELSE Field(IF c.escape = "unquoted" THEN Unescaped(raw) ELSE raw), at)

(* parse_unquoted_field_runtime and general_unquoted_field.                *)
UnquotedField(c, w, p, r) ==
    LET start == r.at
        end == ScanEnd(c, w, p, start)
        stops == {c.delim, c.ending}
                   \cup (IF c.quoting /\ ~c.bare_quotes THEN {"quote"} ELSE {})
                   \cup (IF c.kind = "crlf" THEN {"cr"} ELSE {})
                   \cup (IF c.escape = "unquoted" THEN {"esc"} ELSE {})
        To(at, to, ends) == MoveTo(c, p, PushUnquoted(c, r, Text(w, start, to), at), at + 1, ends)
        Runs == MoveTo(c, p, PushUnquoted(c, r, Text(w, start, end), end), end, TRUE)
        Stopped(at) ==
            CASE at >= end -> WithinScan(c, p, start, r, end, Runs)
              [] at < end /\ w[at + 1] = "quote" -> Fail(r, "unexpected quote", at)
              [] at < end /\ w[at + 1] = c.delim -> To(at, at, FALSE)
              [] at < end /\ w[at + 1] = "cr" /\ HasByte(w, at + 1, "lf") ->
                    MoveTo(c, p, PushUnquoted(c, r, Text(w, start, at), at), at + 2, TRUE)
              [] at < end /\ c.kind = "crlf" /\ w[at + 1] \in {"cr", "lf"} ->
                    Fail(r, "invalid record ending", at)
              [] OTHER -> To(at, FieldEnd(c, w, start, at), TRUE)
    IN  Stopped(UnquotedStop(c, w, start, end, stops))

(* finish_quoted_field_runtime, after skip_post_quote_whitespace_runtime.  *)
FinishQuoted(c, w, p, r, after) ==
    LET at == IF c.trailing_space
                THEN Min({Len(w)} \cup { i \in after..Len(w)-1 : w[i + 1] # "space" })
                ELSE after
    IN  CASE r.status # "open" -> r
          [] r.status = "open" /\ at = Len(w) -> MoveTo(c, p, r, at, TRUE)
          [] r.status = "open" /\ HasByte(w, at, c.delim) -> [r EXCEPT !.at = at + 1]
          [] r.status = "open" /\ c.kind # "crlf" /\ HasByte(w, at, c.ending) ->
                MoveTo(c, p, r, at + 1, TRUE)
          [] r.status = "open" /\ c.kind # "byte" /\ HasByte(w, at, "cr")
                               /\ HasByte(w, at + 1, "lf") ->
                MoveTo(c, p, r, at + 2, TRUE)
          [] OTHER -> Fail(r, "byte after quote", at)

(* A quoted field is read from one quote or escape to the next.            *)
Escapes(c) == IF c.escape = "double" THEN {"quote"} ELSE {"quote", "esc"}

(* Whether the byte at `at` escapes the next one.                          *)
EscapesNext(c, w, at) ==
    IF c.escape = "double" THEN HasByte(w, at + 1, "quote") ELSE HasByte(w, at, "esc")

(* Why an escape cannot be taken for one, or "none".                       *)
EscapeError(c, w, at) ==
    CASE at + 1 = Len(w) -> IF c.escape = "backslash" THEN "invalid escape" ELSE "unterminated"
      [] at + 1 < Len(w) /\ c.escape = "backslash" /\ ~c.any_escape
                         /\ w[at + 2] \notin {"quote", "esc"} -> "invalid escape"
      [] OTHER -> "none"

(* One turn of parse_quoted_field_runtime, or of parse_owned_quoted_field,  *)
(* which has no limit of its own on what it unescapes.  s is the parse, how *)
(* far the field has been read, its text, and whether that is all of it.    *)
QuotedTurn(c, w, p, start, owned, s) ==
    LET end == ScanEnd(c, w, p, start)
        Stop(r) == [s EXCEPT !.r = r, !.closed = TRUE]
        Unterminated == Fail(s.r, "unterminated", end)
        Escaped(at, text) ==
            IF ~owned /\ Len(text) > c.limits.field
              THEN Stop(Fail(s.r, "field too large", at))
              ELSE [s EXCEPT !.cursor = at + 2, !.text = text]
        Invalid(at, kind) ==
            Stop(CASE kind = "unterminated" -> Unterminated
                   [] kind = "invalid escape" /\ at + 1 = Len(w) -> Fail(s.r, kind, at)
                   [] OTHER -> Fail(s.r, kind, at + 1))
        Found(at) ==
            CASE at = end -> Stop(WithinScan(c, p, start, s.r, end, Unterminated))
              [] at < end /\ ~EscapesNext(c, w, at) ->
                    Stop(FinishQuoted(c, w, p, Push(c, s.r, Field(s.text \o Text(w, s.cursor, at)), at),
                                      at + 1))
              [] at < end /\ EscapesNext(c, w, at) /\ EscapeError(c, w, at) # "none" ->
                    Invalid(at, EscapeError(c, w, at))
              [] OTHER -> Escaped(at, s.text \o Text(w, s.cursor, at) \o <<w[at + 2]>>)
    IN  CASE s.closed -> s
          [] ~s.closed /\ s.cursor > end ->
                Stop(IF owned THEN WithinScan(c, p, start, s.r, end, Unterminated)
                     ELSE WithinRecord(c, p, s.r, end, Fail(s.r, "overrun", end)))
          [] OTHER -> Found(Find(w, s.cursor, end, Escapes(c)))

Quoted(w, r, Turn(_)) ==
    LET turn[n \in 0..Len(w)] ==
            IF n = 0 THEN [r |-> r, cursor |-> r.at + 1, text |-> <<>>, closed |-> FALSE]
                     ELSE Turn(turn[n - 1])
    IN  turn[Len(w)].r

QuotedField(c, w, p, r) ==
    LET Turn(s) == QuotedTurn(c, w, p, r.at + 1, FALSE, s) IN Quoted(w, r, Turn)

(* skip_delimiter_spaces.                                                  *)
SkipSpaces(c, w, p, r) ==
    LET to == Min({Len(w)} \cup { i \in r.at..Len(w)-1 : w[i + 1] # "space" })
        over == Max({p + c.limits.record, r.at}) + 1
    IN  CASE ~c.skip_space \/ r.at = p -> r
          [] c.skip_space /\ r.at # p /\ over <= to ->
                Fail([r EXCEPT !.at = over], "record too large", over)
          [] OTHER -> [r EXCEPT !.at = to]

(* Field after field while the parse is open.                              *)
Fields(w, r, Field1(_)) ==
    LET Next(s) == IF s.status = "open" THEN Field1(s) ELSE s
        after[n \in 0..Len(w) + 1] == IF n = 0 THEN r ELSE Next(after[n - 1])
    IN  after[Len(w) + 1]

(* parse_record_fields.                                                    *)
GeneralFields(c, w, p, r) ==
    LET At(s) == CASE s.status # "open" -> s
                   [] s.status = "open" /\ c.quoting /\ HasByte(w, s.at, "quote") ->
                         QuotedField(c, w, p, s)
                   [] OTHER -> UnquotedField(c, w, p, s)
        Field1(s) == At(SkipSpaces(c, w, p, s))
    IN  Fields(w, r, Field1)

(* validate_field_count.  `width` is expected_fields, 0 before it is known. *)
(* The field that an error of the count names is left out.                 *)
Expected(c, width) == IF c.count = FirstCount THEN width ELSE c.count
Counted(c, width, r) ==
    IF r.status = "done" /\ Expected(c, width) \notin {AnyCount, 0, Len(r.fields)}
    THEN [r EXCEPT !.status = "failed", !.error = [kind |-> "field count", at |-> r.at, field |-> 0]]
    ELSE r
=============================================================================
