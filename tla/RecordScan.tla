----------------------------- MODULE RecordScan -----------------------------
(***************************************************************************)
(* How CsvIndex::generate confirms that a record it has encoded is one the *)
(* parser will see (FastValidator and RecordValidator of index/generate.rs):*)
(* a scan of its bytes that takes the writer's promises for granted and    *)
(* stops where it cannot explain what it finds, and then a parser.         *)
(*                                                                         *)
(* Left out with FieldParsing: separators of more than one byte; and       *)
(* Quoting::Raw, with which nothing is scanned.                            *)
(***************************************************************************)
EXTENDS Encoding

(* FastValidator::for_format.                                              *)
Scannable(c) == ~c.skip_space /\ (c.escape = "unquoted" \/ c.quoting)

Feeds(text) == Cardinality({ i \in 1..Len(text) : text[i] = "lf" })

(* A scan in progress: where the next field starts, how many there have    *)
(* been, the line feeds in them, and what has become of it.                *)
Scanning(feeds) == [at |-> 0, count |-> 0, feeds |-> feeds, status |-> "open"]
Unexplained(s) == [s EXCEPT !.status = "unexplained"]
Refused(s) == [s EXCEPT !.status = "refused"]

(* A field is w[from..to], and what follows stands at `at`.                *)
Ends(c, w, s, from, to, at) ==
    LET feeds == s.feeds + Feeds(Text(w, from, to))
    IN  CASE at # Len(w) /\ ~HasByte(w, at, c.delim) -> Unexplained(s)
          [] (at = Len(w) \/ HasByte(w, at, c.delim)) /\ to - from > c.limits.field -> Refused(s)
          [] OTHER -> [at |-> at + 1, count |-> s.count + 1, feeds |-> feeds,
                       status |-> IF at = Len(w) THEN "confirmed" ELSE "open"]

(* The first of these bytes from `from` on, past whatever pairs there are; *)
(* the end if there is none, and beyond it if half a pair is left.         *)
FirstBeyondPairs(w, from, bytes, Pair(_)) ==
    LET first[at \in 0..Len(w)] ==
            CASE at = Len(w) -> at
              [] at < Len(w) /\ Pair(at) -> IF at + 1 = Len(w) THEN at + 1 ELSE first[at + 2]
              [] at < Len(w) /\ ~Pair(at) /\ w[at + 1] \in bytes -> at
              [] OTHER -> first[at + 1]
    IN  first[from]

(* scan_quoted_field.                                                      *)
ScanQuoted(c, w, s) ==
    LET Pair(at) == IF c.escape = "double"
                      THEN HasByte(w, at, "quote") /\ HasByte(w, at + 1, "quote")
                      ELSE HasByte(w, at, "esc")
        close == FirstBeyondPairs(w, s.at + 1, {"quote"}, Pair)
    IN  IF close >= Len(w) THEN Unexplained(s) ELSE Ends(c, w, s, s.at + 1, close, close + 1)

(* scan_unquoted_field.                                                    *)
ScanUnquoted(c, w, s) ==
    LET at == Find(w, s.at, Len(w),
                   {c.delim, "quote", c.ending} \cup IF c.kind = "byte" THEN {} ELSE {"cr"})
    IN  Ends(c, w, s, s.at, at, at)

(* scan_escaped_field.                                                     *)
ScanEscaped(c, w, s) ==
    LET Pair(at) == HasByte(w, at, "esc")
        at == FirstBeyondPairs(w, s.at, {c.delim, c.ending, "quote"}, Pair)
    IN  IF at > Len(w) THEN Unexplained(s) ELSE Ends(c, w, s, s.at, at, at)

(* scan_field, once the limit on the fields allows for another.            *)
ScanField(c, w, s) ==
    CASE s.count = c.limits.fields -> Refused(s)
      [] s.count # c.limits.fields /\ c.escape = "unquoted" -> ScanEscaped(c, w, s)
      [] s.count # c.limits.fields /\ c.escape # "unquoted" /\ HasByte(w, s.at, "quote") ->
            ScanQuoted(c, w, s)
      [] OTHER -> ScanUnquoted(c, w, s)

(* Mutant: what ends a record does not count against its limit.             *)
TooLongContent(c, w) == Len(w) - Len(FinishRecord(c)) > c.limits.record

(* The limit on a record's bytes counts how it ends.                       *)
TooLong(c, w) == Len(w) > c.limits.record

(* FastValidator::validate of the encoded record w; skips is whether blank *)
(* lines are skipped (BlankRecords::Skip).                                 *)
Scan(c, skips, w) ==
    LET terminator == FinishRecord(c)
        length == Len(w) - Len(terminator)
        content == SubSeq(w, 1, length)
        Field1(s) == ScanField(c, content, s)
        begin == Scanning(Feeds(terminator))
    IN  CASE ~Scannable(c) \/ length < 0 -> Unexplained(begin)
          [] Scannable(c) /\ length >= 0 /\ SubSeq(w, length + 1, Len(w)) # terminator ->
                Unexplained(begin)
          [] w = terminator /\ Scannable(c) ->
                IF skips \/ c.limits.fields = 0 THEN Refused(begin)
                ELSE [begin EXCEPT !.status = "confirmed"]
          [] TooLong(c, w) -> Refused(begin)
          [] OTHER -> Fields(content, begin, Field1)

(* RecordValidator::validate: the parser sees one record and nothing behind *)
(* it.  The parser serves every record that is not scanned, and holds each *)
(* to the width of the first (FieldCount::MatchFirst), or 0.               *)
Reparse(c, skips, width, w) ==
    LET blank == /\ skips
                 /\ \/ c.kind # "crlf" /\ w = <<c.ending>>
                    \/ c.kind # "byte" /\ w = <<"cr", "lf">>
        r == Counted([c EXCEPT !.count = FirstCount], width, GeneralFields(c, w, 0, Begin(0)))
    IN  IF ~blank /\ r.status = "done" /\ r.at = Len(w)
          THEN [status |-> "confirmed", feeds |-> Feeds(w)]
          ELSE [status |-> "refused"]
=============================================================================
