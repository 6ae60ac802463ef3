--------------------------- MODULE MCStructCache ---------------------------
(***************************************************************************)
(* Structs that differ in what they do with one column: `lax` ignores what *)
(* it does not know and `strict` refuses it, `renamed` finds its field     *)
(* under two names, `optional` fills its second field when it can.  The    *)
(* cache is wrong about the others: `blind` has a field that ignores its   *)
(* column, `twin` and `sibling` share a key.  A word holds two columns, so *)
(* that a third is learned in another.                                     *)
(***************************************************************************)
EXTENDS StructCache

MCNames == {"a", "b", "z"}
MCValues == {"1", "x"}

Reads(pairs) == [n \in MCNames |-> IF n \in DOMAIN pairs THEN pairs[n] ELSE Unread]
Into(field, kind) == [field |-> field, kind |-> kind]
Struct(key, deny, pairs) ==
    [shape |-> "struct", key |-> key, deny |-> deny, reads |-> Reads(pairs)]

lax == Struct(1, FALSE, [a |-> Into("a", "number")])
strict == Struct(2, TRUE, [a |-> Into("a", "text"), b |-> Into("b", "option")])
optional == Struct(3, FALSE, [z |-> Into("z", "number"), b |-> Into("b", "option")])
renamed == Struct(4, FALSE, [a |-> Into("a", "text"), z |-> Into("a", "text")])
blind == Struct(5, FALSE, [a |-> Into("a", "text"), z |-> Into("z", "ignored")])
twin == Struct(6, FALSE, [a |-> Into("a", "text")])
sibling == Struct(6, TRUE, [b |-> Into("b", "text")])
MCStructs == {lax, strict, optional, renamed, blind, twin, sibling}

map == [shape |-> "map", key |-> 0, deny |-> FALSE, reads |-> [n \in MCNames |-> Into(n, "text")]]
MCMaps == {map}

MCHeaders ==
    {<<"a", "b">>, <<"b", "a", "z">>, <<"z", "z", "a">>, <<"b", "z", "a", "b">>,
     <<"a", NotUtf8, "z">>, <<"b", "z">>}
MCRecords ==
    {<<"1">>, <<"x", "1">>, <<"1", "x", "1">>, <<"x", "1", "x">>, <<"1", "1", "1", "1">>}
=============================================================================
