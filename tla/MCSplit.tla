------------------------------ MODULE MCSplit ------------------------------
(* Documents of up to MaxLength bytes, every format that can be split.     *)
EXTENDS Split

CONSTANTS MaxLength, MaxWanted

MCLengths == 0..MaxLength
MCWanted == 1..MaxWanted

SplittableFormats ==
    { f \in [ending : Bytes \ {"quote", "delim"}, kind : {"newline", "crlf", "byte"},
             padding : SUBSET {"space", "delim"}, skips : SUBSET {"space", "delim"}] :
        FormatOK(f) }

(* Those whose record ending is not also a byte the parser skips as        *)
(* padding: a format of that kind is a space- or tab-terminated one.       *)
UnpaddedFormats == { f \in SplittableFormats : f.ending \notin f.padding \cup f.skips }
=============================================================================
