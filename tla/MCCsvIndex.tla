---------------------------- MODULE MCCsvIndex ----------------------------
(* Small documents to index: an empty one, two of the same length whose    *)
(* records start elsewhere, one of them behind a byte-order mark, and two  *)
(* with a record at every byte, one of which has two that do not parse.    *)
EXTENDS CsvIndex

Document(length, starts, failing) ==
    [length |-> length, starts |-> starts, failing |-> failing]

MCSources ==
    { Document(0, <<>>, {}), Document(3, <<0, 2>>, {}), Document(3, <<1, 2>>, {}) }
      \cup { Document(2, <<0, 1>>, {}), Document(3, <<0, 1, 2>>, {2, 3}) }
=============================================================================
