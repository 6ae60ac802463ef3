------------------------------ MODULE Kernels ------------------------------
(***************************************************************************)
(* How one record is read (src/crates/coseva/src/engine/): the kernels that *)
(* are tried before the general parser of FieldParsing, and are "only ever *)
(* an optimization" of it, for the borrowed reader (borrowed_parser.rs) and *)
(* for the owned ones (owned_parser.rs).  The owned readers learn from one *)
(* record which parser to try on the next, so what they do depends on all  *)
(* the records before.                                                     *)
(*                                                                         *)
(* The vector instructions are modelled by the record they find.           *)
(***************************************************************************)
EXTENDS FieldParsing

LOCAL INSTANCE SequencesExt
LOCAL INSTANCE TLC

CONSTANTS
    Inputs,             \* configurations, see below, each with a document
    PlainBlock,         \* the bytes the packed plain kernel takes at a time: 32
    StructuralBytes,    \* the bytes the structural parser looks at: 64
    Default,            \* Limits::DEFAULT
    QuoteRun            \* INTERIOR_QUOTE_RUN: how long a prediction lasts

ASSUME KernelsAssumption ==
    /\ {PlainBlock, StructuralBytes, QuoteRun} \subseteq Nat \ {0}
    /\ Default \in [record : Nat, field : Nat, fields : Nat]
    /\ StructuralBytes <= Default.field /\ Default.field <= Default.record

(* Beyond what FieldParsing says of it, a configuration has: named, whether *)
(* the dialect is one of the named ones; engine, whether it was built over *)
(* the whole input ("slice"), over a window ("windowed"), or is one reset  *)
(* for another stream ("reset"); roomy, whether the spans have the capacity *)
(* (DEFAULT_BORROWED_FIELDS) the packed kernel asks for; and readers, which *)
(* of the readers are used: "record", "bytes" and "text".                  *)
IsCsv(c) == c.named /\ c.delim = "comma" /\ c.escape = "double"

(* owned_parser_for: who gets the specialised owned parsers.               *)
Eligible(c) ==
    /\ c.named /\ c.limits = Default /\ c.count = AnyCount
    /\ c.nulls = "none" /\ c.quoting
    /\ ~c.bare_quotes /\ ~c.trailing_space /\ ~c.any_escape /\ ~c.skip_space

PlainKernel(c) == ~c.skip_space

(* needs_general_parsing: the owned readers go through spans.              *)
GeneralParsing(c) == c.kind = "crlf" \/ c.escape = "unquoted"

-----------------------------------------------------------------------------
(* The plain kernel, which splits a record at its delimiters (Split) until  *)
(* the record's end or a quote (PlainStop).                                *)
PlainEnd(c, w, p) == Min({Len(w), p + c.limits.record + 1})

PlainStop(c, w, from, end) ==
    Min({end} \cup
        { i \in from..end-1 :
            \/ w[i + 1] = c.ending
            \/ /\ c.quoting /\ w[i + 1] = "quote"
               /\ ~c.bare_quotes \/ i = from \/ w[i] = c.delim })

(* The parse r after the fields that end before `to`: "split" unless one    *)
(* of them failed.  Push1(s, at) adds the field that ends at `at`.         *)
Split(w, r, to, delim, Push1(_, _)) ==
    LET Past(s, at) == IF s.status = "open" /\ s.at <= at THEN [s EXCEPT !.at = at + 1] ELSE s
        Next(s, at) == IF at >= to THEN [s EXCEPT !.status = "split"] ELSE Past(Push1(s, at), at)
        Field1(s) == Next(s, Find(w, s.at, to, {delim}))
    IN  Fields(w, r, Field1)

(* What the record is once it has been split up to `stop`, short of a quote *)
(* there.                                                                  *)
PlainRecord(c, w, p, s, stop, end) ==
    LET r == [s EXCEPT !.status = "open"]
        To(to, at) == MoveTo(c, p, Push(c, r, Field(Text(w, r.at, to)), stop), at, TRUE)
    IN  CASE stop < end -> To(FieldEnd(c, w, r.at, stop), stop + 1)
          [] stop = end /\ end < Len(w) -> Fail(r, "record too large", end)
          [] OTHER -> To(end, end)

(* mark_null_spans and mark_owned_nulls over unquoted fields.              *)
Mark(c, r) ==
    [r EXCEPT !.fields = [ i \in DOMAIN @ |-> IF IsNull(c, @[i].text) THEN NullField ELSE @[i] ]]

(* try_parse_borrowed_plain, from where the default dialect's kernels have *)
(* been tried.                                                             *)
BorrowedPlain(c, w, p) ==
    LET end == PlainEnd(c, w, p)
        stop == PlainStop(c, w, p, end)
        Push1(s, at) == Push(c, s, Field(Text(w, s.at, at)), at)
        Escaped == c.escape = "unquoted" /\ Find(w, p, stop, {"esc"}) < stop
        Ended(s) ==
            CASE s.status # "split" -> s
              [] s.status = "split" /\ stop < end /\ HasByte(w, stop, "quote") ->
                    Declined(s)
              [] s.status = "split" /\ stop = end /\ end < Len(w) ->
                    PlainRecord(c, w, p, s, stop, end)
              [] s.status = "split" /\ Escaped -> Declined(s)
              [] OTHER -> PlainRecord(c, w, p, s, stop, end)
    IN  Ended(Split(w, Begin(p), stop, c.delim, Push1))

(* validate_crlf: no carriage return but before the record's line feed,    *)
(* and that one.                                                           *)
ValidateCrLf(c, w, p, r) ==
    LET lf == r.at - 1
        terminated == r.at > p /\ HasByte(w, lf, "lf")
        carriage == terminated /\ lf > p /\ HasByte(w, lf - 1, "cr")
        to == CASE carriage -> lf - 1 [] terminated /\ ~carriage -> lf [] OTHER -> r.at
        stray == Find(w, p, to, {"cr"})
        Invalid(at) ==
            [r EXCEPT !.status = "failed",
                      !.error = [kind |-> "invalid record ending", at |-> at,
                                 field |-> Cardinality({ i \in p..at-1 : w[i + 1] = c.delim })]]
    IN  CASE r.status # "done" \/ c.kind # "crlf" -> r
          [] r.status = "done" /\ c.kind = "crlf" /\ stray < to -> Invalid(stray)
          [] r.status = "done" /\ c.kind = "crlf" /\ stray = to /\ terminated /\ ~carriage ->
                Invalid(lf)
          [] OTHER -> r
-----------------------------------------------------------------------------
(* The scalar parsers of coseva_unsafe/src/record.rs and record_parser.rs:  *)
(* default_quoted_prefix, default_interior_prefix, default_record,         *)
(* default_borrowed_record and named_dialect_record.  k has where the      *)
(* slice ends; the limit on a field's bytes, which for a quoted field      *)
(* counts k.quotes of its quotes as well; the limit on the fields; whether *)
(* the slice's end may end the record; and where to hand back: before an   *)
(* unquoted field ("head"), after a quoted one ("one"), or never.          *)
ScalarTurn(c, w, k, start, s) ==
    LET Stop(r) == [s EXCEPT !.r = r, !.closed = TRUE]
        To(r, at, status) == [r EXCEPT !.at = at, !.status = status]
        After(r, at) ==
            CASE at = k.end /\ k.eof -> To(r, at, "done")
              [] at < k.end /\ w[at + 1] = c.delim ->
                    To(r, at + 1, IF k.stop = "one" THEN "handed" ELSE "open")
              [] at < k.end /\ w[at + 1] = "lf" -> To(r, at + 1, "done")
              [] at + 1 < k.end /\ w[at + 1] = "cr" /\ w[at + 2] = "lf" -> To(r, at + 2, "done")
              [] OTHER -> Declined(r)
        Close(at) ==
            IF \/ at - start + k.quotes > k.field
               \/ Len(s.r.fields) >= k.fields
            THEN Declined(s.r)
            ELSE After([s.r EXCEPT !.fields = Append(@, Field(s.text \o Text(w, s.cursor, at)))],
                       at + 1)
        Found(at) ==
            CASE at >= k.end -> Stop(Declined(s.r))
              [] at < k.end /\ ~(EscapesNext(c, w, at) /\ (at + 1 < k.end \/ c.escape = "backslash")) ->
                    Stop(Close(at))
              [] at + 1 < k.end /\ EscapesNext(c, w, at) /\ w[at + 2] \in Escapes(c) ->
                    [s EXCEPT !.cursor = at + 2,
                              !.text = s.text \o Text(w, s.cursor, at) \o <<w[at + 2]>>]
              [] OTHER -> Stop(Declined(s.r))
    IN  IF s.closed THEN s ELSE Found(Find(w, s.cursor, k.end, Escapes(c)))

ScalarUnquoted(c, w, k, r) ==
    LET Ends(at) == at < k.end /\ w[at + 1] = "lf"
        To(at) == Text(w, r.at, IF Ends(at) THEN FieldEnd(c, w, r.at, at) ELSE at)
        Add(text, at) ==
            IF Len(text) > k.field \/ Len(r.fields) >= k.fields THEN Declined(r)
            ELSE [r EXCEPT !.fields = Append(@, Field(text)),
                           !.at = IF at = k.end THEN at ELSE at + 1,
                           !.status = IF at = k.end \/ Ends(at) THEN "done" ELSE "open"]
        Found(at) ==
            IF (at = k.end /\ ~k.eof) \/ (at < k.end /\ w[at + 1] = "quote")
            THEN Declined(r) ELSE Add(To(at), at)
    IN  Found(Find(w, r.at, k.end, {c.delim, "quote", "lf"}))

Scalar(c, w, k, r) ==
    LET Turn(start, s) == ScalarTurn(c, w, k, start, s)
        QuotedAt(s) == LET T(t) == Turn(s.at + 1, t) IN Quoted(w, s, T)
        Field1(s) ==
            CASE s.at >= k.end /\ ~k.eof -> Declined(s)
              [] s.at < k.end /\ w[s.at + 1] = "quote" -> QuotedAt(s)
              [] s.at < k.end /\ w[s.at + 1] # "quote" /\ k.stop = "head" ->
                    [s EXCEPT !.status = "handed"]
              [] OTHER -> ScalarUnquoted(c, w, k, s)
    IN  Fields(w, r, Field1)

(* default_quoted_record_structural: one look at StructuralBytes bytes     *)
(* finds where a record of the default dialect ends and splits it, as long *)
(* as its quotes are those around a field and doubled ones within.         *)
Structural(w, end, r) ==
    LET bytes == r.at..Min({end, r.at + StructuralBytes}) - 1
        quotes == { i \in bytes : w[i + 1] = "quote" }
        Outside(i) == Cardinality({ q \in quotes : q < i }) % 2 = 0
        lf == Min({end} \cup { i \in bytes : w[i + 1] = "lf" /\ Outside(i) })
        separators == { i \in bytes : i < lf /\ w[i + 1] = "comma" /\ Outside(i) }
        Odd(inner) == { q \in inner : Cardinality({ x \in inner : x <= q }) % 2 = 1 }
        Kept(from, to, odd) ==
            [ i \in 1..to - from - Cardinality(odd) |->
                w[SetToSortSeq((from..to-1) \ odd, <)[i] + 1] ]
        Decoded(from, to, inner) ==
            IF \A q \in Odd(inner) : q + 1 \in inner
            THEN <<Field(Kept(from + 1, to - 1, Odd(inner)))>> ELSE <<>>
        FieldOf(from, to, within) ==
            CASE within = {} -> <<Field(Text(w, from, to))>>
              [] within # {} /\ {from, to - 1} \subseteq within ->
                    Decoded(from, to, within \ {from, to - 1})
              [] OTHER -> <<>>
        Add(s, at, field) ==
            IF field = <<>> THEN Declined(s)
            ELSE [s EXCEPT !.fields = @ \o field, !.at = at + 1,
                           !.status = IF at = lf THEN "done" ELSE "open"]
        To(s, at, to) == Add(s, at, FieldOf(s.at, to, { q \in quotes : s.at <= q /\ q < to }))
        Stripped(s, at) ==
            IF at = lf /\ lf > s.at /\ HasByte(w, lf - 1, "cr") THEN lf - 1 ELSE at
        Next(s, at) == To(s, at, Stripped(s, at))
        Field1(s) == Next(s, Min({lf} \cup { i \in separators : i >= s.at }))
    IN  IF r.at + StructuralBytes > end \/ lf = end THEN Declined(r) ELSE Fields(w, r, Field1)

(* default_plain_packed and default_borrowed_plain: whole blocks of a      *)
(* record without a quote; `cut`, its line feed is the first of its block. *)
Packed(w, r, across) ==
    LET lf == Find(w, r.at, Len(w), {"quote", "lf"})
        blocks == (lf - r.at) \div PlainBlock + 1
        cut == (lf - r.at) % PlainBlock = 0
        end == IF lf > r.at /\ HasByte(w, lf - 1, "cr") /\ (across \/ ~cut) THEN lf - 1 ELSE lf
        Add(s, from, to) == [s EXCEPT !.fields = Append(@, Field(Text(w, from, to)))]
        Push1(s, at) == Add(s, s.at, at)
        Ended(s) == [Add(s, s.at, end) EXCEPT !.at = lf + 1, !.status = "done"]
    IN  IF ~HasByte(w, lf, "lf") \/ r.at + blocks * PlainBlock > Len(w) THEN Declined(r)
        ELSE Ended(Split(w, r, lf, "comma", Push1))

(* The borrowed kernel strips the carriage return before the line feed; the *)
(* owned one does not look for it across the two blocks of a cut ending.   *)
PackedBorrowed(w, r) == Packed(w, r, TRUE)
PackedOwned(w, r) == Packed(w, r, FALSE)

-----------------------------------------------------------------------------
(* The borrowed reader: parse_record, up to its check of the field count.  *)

(* try_parse_default_csv_borrowed.                                         *)
BorrowedDefault(c, w, p) ==
    LET probe == p + StructuralBytes <= Len(w)
        quoted == probe /\ Find(w, p, p + StructuralBytes, {"quote"}) < p + StructuralBytes
        end == Min({Len(w), p + c.limits.record})
        k == [end |-> end, field |-> c.limits.field, quotes |-> 2, fields |-> c.limits.fields,
              eof |-> end = Len(w), stop |-> "never"]
        Else(r) == CASE r.status = "done" -> r
                     [] r.status # "done" /\ quoted -> Scalar(c, w, k, Begin(p))
                     [] OTHER -> Declined(r)
    IN  IF ~Eligible(c) \/ ~IsCsv(c) THEN Declined(Begin(p))
        ELSE Else(IF probe /\ c.roomy THEN PackedBorrowed(w, Begin(p)) ELSE Declined(Begin(p)))

BorrowedRecord(c, w, p) ==
    LET Else(r) == IF r.status = "done" THEN r ELSE BorrowedPlain(c, w, p)
        Finished(r) == IF r.status = "declined" THEN r ELSE Mark(c, ValidateCrLf(c, w, p, r))
        Kernel == IF PlainKernel(c) /\ ~(c.quoting /\ HasByte(w, p, "quote"))
                  THEN Finished(Else(BorrowedDefault(c, w, p))) ELSE Declined(Begin(p))
        General(r) == IF r.status = "declined" THEN GeneralFields(c, w, p, Begin(p)) ELSE r
    IN  General(Kernel)

-----------------------------------------------------------------------------
(* The owned reader.  Its parse carries what the engine has learned about  *)
(* the records' quotes: for how many records it expects one, which parser  *)
(* then reads them, and how the ASCII attempt has fared.                   *)
NoPrediction == [quotes |-> 0, active |-> "one", backoff |-> 0, succeeded |-> FALSE]
OwnedBegin(p, prediction) ==
    [at |-> p, fields |-> <<>>, status |-> "open", error |-> NoError, prediction |-> prediction]

(* One record of a prediction's run.                                       *)
Spent(quotes) == Max({quotes - 1, 0})

(* parse_owned_quoted_field.                                               *)
OwnedQuoted(c, w, p, r) ==
    LET Turn(s) == QuotedTurn(c, w, p, r.at + 1, TRUE, s)
    IN  IF Len(r.fields) = c.limits.fields THEN Fail(r, "too many fields", r.at)
        ELSE Quoted(w, r, Turn)

(* The general loop of parse_owned_record_mode.  parse_owned_unquoted_field *)
(* is the runtime scan of the borrowed parser.                             *)
OwnedFields(c, w, p, r) ==
    LET At(s) == CASE s.status # "open" -> s
                   [] s.status = "open" /\ c.quoting /\ HasByte(w, s.at, "quote") ->
                         OwnedQuoted(c, w, p, s)
                   [] OTHER -> UnquotedField(c, w, p, s)
        Field1(s) == At(SkipSpaces(c, w, p, s))
    IN  Fields(w, r, Field1)

(* try_parse_owned_plain_from_mode, from r.at.  A run of empty fields is    *)
(* added at once.  "bailed" leaves the fields before the quote.            *)
OwnedPlain(c, w, p, r) ==
    LET end == PlainEnd(c, w, p)
        stop == PlainStop(c, w, r.at, end)
        AfterRun(at) == Min({Len(w)} \cup { i \in at..Len(w)-1 : w[i + 1] # c.delim })
        Run(s, at, count) ==
            IF count > c.limits.fields - Len(s.fields)
            THEN [s EXCEPT !.status = "failed",
                           !.error = [kind |-> "too many fields", field |-> c.limits.fields,
                                      at |-> at + c.limits.fields - Len(s.fields)]]
            ELSE [s EXCEPT !.fields = @ \o [ i \in 1..count |-> Field(<<>>) ], !.at = at + count]
        Push1(s, at) == IF at = s.at THEN Run(s, at, AfterRun(at) - at)
                        ELSE Push(c, s, Field(Text(w, s.at, at)), at)
        Ended(s) ==
            CASE s.status # "split" -> s
              [] s.status = "split" /\ stop < end /\ HasByte(w, stop, "quote") /\ stop # s.at ->
                    Fail(s, "unexpected quote", stop)
              [] s.status = "split" /\ stop < end /\ HasByte(w, stop, "quote") /\ stop = s.at ->
                    [s EXCEPT !.status = "bailed"]
              [] OTHER -> PlainRecord(c, w, p, s, stop, end)
    IN  Ended(Split(w, r, stop, c.delim, Push1))

(* The engine's scalar parsers, over the input up to `end`.  They check a   *)
(* field's length if the whole input, or for a streaming reader what is    *)
(* parsed of it, could hold a longer one.                                  *)
Checked(c, w, size) ==
    CASE c.engine = "slice" -> Len(w) > Default.field
      [] c.engine = "windowed" -> size > Default.field
      [] c.engine = "reset" -> FALSE
ScalarOwned(c, w, r, end, stop) ==
    Scalar(c, w, [end |-> Min({end, r.at + Default.record}), quotes |-> 0,
                  field |-> IF Checked(c, w, end - r.at) THEN Default.field ELSE Len(w),
                  fields |-> Default.fields, eof |-> FALSE, stop |-> stop], r)

(* quoted_record_structural_appending, then default_record.                *)
StructuralOrScalar(c, w, r, end) ==
    LET Else(s) == IF s.status = "done" THEN s ELSE ScalarOwned(c, w, r, end, "never")
    IN  Else(Structural(w, end, r))

(* quoted_prefix_parser.                                                   *)
QuotedPrefix(c, w, r, end) ==
    IF c.engine = "windowed" THEN StructuralOrScalar(c, w, r, end)
    ELSE ScalarOwned(c, w, r, end, "head")

(* interior_prefix_parser, which is interior_handoff_parser after a record  *)
(* that bailed and multi_quote_parser after a predicted one that did.      *)
InteriorPrefix(c, w, r) ==
    IF r.prediction.active = "one" THEN ScalarOwned(c, w, r, Len(w), "one")
    ELSE StructuralOrScalar(c, w, r, Len(w))
Bailed(r, active) ==
    [r EXCEPT !.prediction.quotes = QuoteRun, !.prediction.active = active]
Handoff(c) == IF c.engine = "reset" THEN "one" ELSE "multi"

(* Mutant: the record's limit is measured from where the parse resumes.    *)
ResumeWindowFromHere(c, w, p, at) == Min({Len(w), at + c.limits.record})

(* owned_resume_window: how far what is resumed at `at` may be read.       *)
ResumeWindow(c, w, p, at) == Min({Len(w), p + c.limits.record})

(* resume_owned_after_interior_quote: a quoted field and what follows it,   *)
(* as long as one can be read.                                             *)
Resume(c, w, p, r) ==
    LET Again(s) == IF s.status = "bailed" THEN [s EXCEPT !.status = "open"] ELSE s
        Next(s, parsed) ==
            CASE parsed.status = "done" -> parsed
              [] parsed.status = "handed" ->
                    Again(OwnedPlain(c, w, p, [parsed EXCEPT !.status = "open"]))
              [] OTHER -> Declined(s)
        Within(s, end) == IF s.at >= end THEN Declined(s) ELSE Next(s, QuotedPrefix(c, w, s, end))
        Field1(s) == Within(s, ResumeWindow(c, w, p, s.at))
    IN  CASE r.status # "bailed" -> r
          [] r.status = "bailed" /\ Eligible(c) /\ IsCsv(c) ->
                Fields(w, [r EXCEPT !.status = "open"], Field1)
          [] OTHER -> Declined(r)

(* A record that opens with a quote, or that a quote is expected in, by the *)
(* specialised parser for it, if there is one, and the plain kernel.       *)
Predicted(c, w, p, opens, r) ==
    LET Plain(parsed) ==
            CASE parsed.status = "done" -> parsed
              [] parsed.status = "handed" ->
                    OwnedPlain(c, w, p, [parsed EXCEPT !.status = "open"])
              [] OTHER -> [r EXCEPT !.status = "declined"]
        Rearmed(s) == IF s.status = "bailed" THEN Bailed(s, "multi") ELSE s
        Parsed == CASE ~Eligible(c) -> Declined(r)
                    [] Eligible(c) /\ ~IsCsv(c) -> ScalarOwned(c, w, r, Len(w), "never")
                    [] Eligible(c) /\ IsCsv(c) /\ opens -> QuotedPrefix(c, w, r, Len(w))
                    [] OTHER -> InteriorPrefix(c, w, r)
    IN  IF r.status = "done" THEN r ELSE Rearmed(Plain(Parsed))

(* The attempt the text reader makes first at a record a quote is expected  *)
(* in; it parses the default dialect.                                      *)
AsciiAttempt(w, r) ==
    LET probe == Min({Len(w), r.at + StructuralBytes})
        Tried(s) ==
            IF s.status = "done" THEN [s EXCEPT !.prediction.succeeded = TRUE]
            ELSE [r EXCEPT !.prediction.backoff = IF r.prediction.succeeded THEN 1 ELSE 3]
    IN  IF r.prediction.backoff # 0 THEN [r EXCEPT !.prediction.backoff = @ - 1]
        ELSE Tried(IF Find(w, r.at, probe, {"quote"}) = probe THEN Declined(r)
                   ELSE Structural(w, Len(w), r))

(* A record no quote is expected in, by the packed kernel or the plain one. *)
Unpredicted(c, w, p, r) ==
    LET Else(s) == IF s.status = "done" THEN s ELSE OwnedPlain(c, w, p, r)
        Rearmed(s) == IF s.status = "bailed" THEN Bailed(s, Handoff(c)) ELSE s
    IN  Mark(c, Rearmed(Else(IF Eligible(c) /\ IsCsv(c) THEN PackedOwned(w, r) ELSE Declined(r))))

(* parse_owned_record_mode, up to its check of the field count.  Whatever  *)
(* has been declined goes on in the general loop from where it stands.     *)
OwnedRecord(c, w, p, text, prediction) ==
    LET opens == HasByte(w, p, "quote")
        begin == OwnedBegin(p, prediction)
        spent == [begin EXCEPT !.prediction.quotes = Spent(@)]
        Kernel ==
            CASE ~PlainKernel(c) -> Declined(begin)
              [] PlainKernel(c) /\ c.quoting /\ (opens \/ prediction.quotes # 0) ->
                    Predicted(c, w, p, opens,
                              IF text /\ ~opens THEN AsciiAttempt(w, spent) ELSE spent)
              [] OTHER -> Unpredicted(c, w, p, begin)
        General(r) == IF r.status = "declined"
                      THEN OwnedFields(c, w, p, [r EXCEPT !.status = "open"]) ELSE r
    IN  General(Resume(c, w, p, Kernel))

-----------------------------------------------------------------------------
VARIABLES
    config,
    document,
    position,       \* the engine's location, where the next record starts
    width,          \* expected_fields, or 0
    prediction,     \* interior_quotes, interior_prefix_parser and the ASCII attempt's backoff
    outcome         \* what the last read returned

vars == <<config, document, position, width, prediction, outcome>>

Unread == [from |-> 0, at |-> 0, status |-> "unread", fields |-> <<>>, error |-> NoError]
Outcome(r) == [from |-> position, at |-> r.at, status |-> r.status, error |-> r.error,
               fields |-> IF r.status = "done" THEN r.fields ELSE <<>>]

Init ==
    /\ \E input \in Inputs : config = input[1] /\ document = input[2]
    /\ position = 0 /\ width = 0
    /\ prediction = NoPrediction
    /\ outcome = Unread

(* The parse a reader makes of the record at `position`.  An owned reader   *)
(* whose dialect needs general parsing takes the borrowed one's.           *)
Parse(reader) ==
    IF reader = "record" \/ GeneralParsing(config)
    THEN BorrowedRecord(config, document, position) @@ [prediction |-> prediction]
    ELSE OwnedRecord(config, document, position, reader = "text", prediction)

(* parse_positioned_record, and read_physical_storage_mode into a byte or a *)
(* text record.                                                            *)
Read ==
    LET Finish(r) ==
            /\ outcome' = Outcome(r)
            /\ position' = IF r.status = "done" THEN r.at ELSE position
            /\ width' = IF r.status = "done" /\ width = 0 THEN Len(r.fields) ELSE width
            /\ prediction' = r.prediction
            /\ UNCHANGED <<config, document>>
    IN  /\ outcome.status # "failed" /\ position < Len(document)
        /\ \E reader \in config.readers : Finish(Counted(config, width, Parse(reader)))

(* seek_to the first record: what was learned of the records stays.        *)
Seek ==
    /\ position # 0 \/ outcome.status = "failed"
    /\ position' = 0 /\ outcome' = Unread
    /\ UNCHANGED <<config, document, width, prediction>>

Next == Read \/ Seek

Spec == Init /\ [][Next]_vars

=============================================================================
