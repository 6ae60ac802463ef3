---------------------------- MODULE MCPushParser ----------------------------
(* Small documents of each kind of format, cut off anywhere, and some that *)
(* start with a byte-order mark or a piece of one.                         *)
EXTENDS PushParser, MCFormats

CONSTANT MaxBytes

Limited == [Lines EXCEPT !.limit = 2]

(* Another one, read by a caller that stops early.                         *)
Impatient == [Lines EXCEPT !.limit = 3]

LimitedPieces == { <<"other", "lf">>, <<"other", "other">>, <<"lf">>, <<"other", "quote">> }

MCStreams ==
    [f \in Formats |->
        Documents(IF f.limit # Unlimited THEN LimitedPieces ELSE PiecesOf(f), MaxBytes)]

MCAllFormats == {Csv, Commented, CrLf, Escaped, Limited, Impatient, Marked, Unmarked}

(* Callers may stop at any record, or before the first; only those of the  *)
(* limited format read every chunk to its end.                             *)
MCAbandons == [f \in Formats |-> IF f = Limited THEN {} ELSE {"none", "record"}]

MCMethods == [f \in Formats |-> IF f.escapes THEN {"line"} ELSE {"line", "owned"}]
=============================================================================
