------------------------------ MODULE Grammar ------------------------------
(***************************************************************************)
(* The record grammar of the strict parser (engine/borrowed_parser.rs): a  *)
(* format, and what a parser is in the middle of after each byte.  A format*)
(* f is a record with at least these fields:                               *)
(*    ending   the byte a record ends with                                 *)
(*    kind     RecordEnding::Newline, ::CrLf or ::Byte; the first two scan *)
(*             for a line feed                                             *)
(*    padding  the bytes skipped after a closing quote, and                *)
(*    skips    those skipped after a delimiter: spaces and tabs, when the  *)
(*             format says so, and the delimiter itself when it is one.    *)
(***************************************************************************)

(* A byte where a field may end: a delimiter, a record ending, or neither. *)
(* CrLf wants both bytes and takes either alone for an error.              *)
Separated(f, b, otherwise) ==
    CASE b = "delim" -> "field"
      [] b = "cr" /\ f.kind = "crlf" -> "cr"
      [] b = "lf" /\ f.kind = "crlf" -> "malformed"
      [] b = f.ending /\ f.kind # "crlf" -> "start"
      [] OTHER -> otherwise

(* parse_record_fields at the start of a field.                            *)
FieldOpens(f, b) == IF b = "quote" THEN "quoted" ELSE Separated(f, b, "unquoted")

(* finish_quoted_field: padding first, then a separator or an error.       *)
QuotedFieldEnds(f, b) ==
    CASE b \in f.padding -> "padding"
      [] b = "cr" /\ f.kind = "newline" -> "cr"
      [] OTHER -> Separated(f, b, "malformed")

(* The parser was in the middle of m and reads b.  "closed" is a quote     *)
(* inside a quoted field, which the byte after it makes a doubled or a     *)
(* closing one; "cr" is a carriage return that a line feed has to follow.  *)
ModeAfter(f, m, b) ==
    CASE m = "start"    -> FieldOpens(f, b)
      [] m = "field"    -> IF b \in f.skips THEN "field" ELSE FieldOpens(f, b)
      [] m = "unquoted" -> IF b = "quote" THEN "malformed" ELSE Separated(f, b, "unquoted")
      [] m = "quoted"   -> IF b = "quote" THEN "closed" ELSE "quoted"
      [] m = "closed"   -> IF b = "quote" THEN "quoted" ELSE QuotedFieldEnds(f, b)
      [] m = "padding"  -> QuotedFieldEnds(f, b)
      [] m = "cr"       -> IF b = "lf" THEN "start" ELSE "malformed"
=============================================================================
