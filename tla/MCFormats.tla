----------------------------- MODULE MCFormats ------------------------------
(***************************************************************************)
(* Formats, and small documents of each, cut off anywhere.                 *)
(***************************************************************************)
EXTENDS SliceParser

(* More bytes than any document has.                                       *)
Unlimited == 1000

Lines == [ending |-> "lf", kind |-> "newline", padding |-> {}, skips |-> {},
          comments |-> FALSE, skip_blank |-> FALSE, escapes |-> FALSE,
          headers |-> FALSE, match_first |-> FALSE, limit |-> Unlimited, bom |-> "preserve"]

Csv == [Lines EXCEPT !.headers = TRUE, !.match_first = TRUE]
Headless == [Lines EXCEPT !.match_first = TRUE, !.bom = "detect"]
Commented == [Lines EXCEPT !.comments = TRUE, !.skip_blank = TRUE, !.headers = TRUE]
CrLf == [Lines EXCEPT !.kind = "crlf", !.comments = TRUE, !.match_first = TRUE]
Marked == [Commented EXCEPT !.bom = "detect"]
Unmarked == [Lines EXCEPT !.bom = "reject"]
Escaped == [Lines EXCEPT !.escapes = TRUE, !.headers = TRUE]

(* What the documents are put together from: plain, wide and quoted        *)
(* records, malformed ones, and what the format adds to them.              *)
CsvPieces ==
    { <<"other", "lf">>, <<"other", "delim", "lf">>, <<"quote", "lf", "quote", "lf">>,
      <<"quote", "quote", "quote", "delim", "quote", "quote", "lf">>, <<"other", "quote">>,
      <<"quote", "quote", "other">>, <<"quote", "quote", "cr", "lf">> }
CommentedPieces ==
    { <<"other", "lf">>, <<"quote", "lf", "quote", "lf">>, <<"hash", "quote", "lf">>, <<"lf">>,
      <<"cr", "lf">>, <<"other", "quote">> }
CrLfPieces ==
    { <<"other", "cr", "lf">>, <<"quote", "lf", "quote", "cr", "lf">>,
      <<"hash", "lf", "cr", "lf">>, <<"delim", "cr", "lf">>, <<"other", "cr", "other">> }
EscapedPieces ==
    { <<"other", "lf">>, <<"esc", "lf", "lf">>, <<"quote", "esc", "quote", "quote", "lf">>,
      <<"esc", "delim", "delim", "lf">>, <<"quote", "quote", "quote">> }

(* For a filter: the literal in the column and out of it, and quotes.      *)
LinesPieces ==
    { <<"lf", "lf", "lf">>, <<"other", "other", "lf">>, <<"quote", "lf", "quote", "lf">>,
      <<"delim", "other", "other", "lf">>, <<"other", "quote">> }

(* A byte-order mark, and a piece of one.                                  *)
MarkedPieces == { BOM, <<"bom1", "bom2">>, <<"other", "lf">>, <<"hash", "lf">>, <<"other", "quote">> }

PiecesOf(f) ==
    CASE f = Lines -> LinesPieces
      [] f.bom # "preserve" -> MarkedPieces
      [] f.escapes -> EscapedPieces
      [] f.kind = "crlf" -> CrLfPieces
      [] f.comments -> CommentedPieces
      [] OTHER -> CsvPieces

(* Up to three pieces, and what is left of them when the stream ends early.*)
Documents(pieces, max) ==
    LET joined == pieces \cup { a \o b : a \in pieces, b \in pieces }
                         \cup { a \o b \o c : a \in pieces, b \in pieces, c \in pieces }
    IN  { SubSeq(d, 1, Min({n, Len(d)})) : d \in joined, n \in 0..max }
=============================================================================
