----------------------------- MODULE MCIoParser -----------------------------
(* Small documents of each kind of format, cut off anywhere.               *)
EXTENDS IoParser, MCFormats

CONSTANT MaxBytes

MCStreams ==
    [f \in Formats |-> Documents(PiecesOf(f), CASE f = Lines -> MaxBytes + 1
                                               [] f.bom = "reject" -> MaxBytes - 1
                                               [] OTHER -> MaxBytes)]

Uncommented == [Marked EXCEPT !.bom = "reject", !.headers = FALSE]

MCAllFormats == {Lines, Csv, Headless, Commented, CrLf, Escaped, Marked, Unmarked, Uncommented}
MCLiteral == <<"other", "other">>
MCEscaped == {Escaped}

(* Escaped formats are read line by line: see EscapedCalls.                *)
MCCalls == [f \in Formats |-> CASE f = Lines -> {"line", "match"}
                                [] f = Commented -> {"line", "owned", "match"}
                                [] f.escapes -> {"line"}
                                [] OTHER -> {"line", "owned"}]
EscapedCalls == [f \in Formats |-> {"owned"}]
=============================================================================
