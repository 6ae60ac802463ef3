----------------------------- MODULE StructCache -----------------------------
(***************************************************************************)
(* The cache between a parser and Serde (serde/struct_cache.rs).  It keeps *)
(* the names of the headers, validated once, and the columns that a struct *)
(* has ignored in a record, which later records of the struct skip without *)
(* asking.  Around it are the operations that change the headers while the *)
(* cache stands, and whatever a caller asks a line to be deserialized to,  *)
(* one struct, another, a map or a tuple, with success or without.         *)
(*                                                                         *)
(* Columns count from 1.  A struct is what its visitor does with a column  *)
(* of each name (serde's derive); a record is the values of its fields.    *)
(***************************************************************************)
EXTENDS Naturals, Sequences, FiniteSets

CONSTANTS
    Names,          \* header names in UTF-8
    Values, Numbers,\* fields of records, and those a number is parsed from
    Fields,         \* fields of structs
    Structs, Maps,  \* the types a line is deserialized to
    Headers,        \* header records: names, and NotUtf8
    Records,        \* records: values
    WordColumns,    \* MAX_LEARNED_COLUMNS: the columns of the first word
    NotUtf8, NoField, Nothing

VARIABLES
    header,         \* header_record, Nothing for None
    consumes,       \* consume_first_record
    initialized,    \* headers_initialized
    ready,          \* serde_ready
    cache,          \* serde_cache
    last            \* the struct or map deserialized last, and what it came to

vars == <<header, consumes, initialized, ready, cache, last>>

(* A column of some name is read into a field, `text` or `number` if it is *)
(* required and `option` if it may be absent, or it is `ignored`.          *)
Readings == [field : Fields, kind : {"text", "number", "option", "ignored"}]
Unread == [field |-> NoField, kind |-> "ignored"]
Types == [shape : {"struct"}, key : Nat \ {0}, deny : BOOLEAN, reads : [Names -> Readings \cup {Unread}]]
MapTypes == [shape : {"map"}, key : {0}, deny : {FALSE}, reads : [Names -> Readings]]

ASSUME NamesAssumption == NotUtf8 \notin Names /\ NoField \notin Fields
ASSUME WordAssumption == WordColumns \in Nat \ {0}
ASSUME DataAssumption ==
    /\ Headers \subseteq Seq(Names \cup {NotUtf8}) /\ Nothing \notin Headers
    /\ Records \subseteq Seq(Values)
    /\ Structs \subseteq Types /\ Maps \subseteq MapTypes

(* Which structs the cache can tell what to skip: those that no other has   *)
(* the key of (structs of one type name and one static list of field names  *)
(* would share what either learns), and none of whose fields is itself of a *)
(* type that ignores its column (IgnoredAny), as it would be learned to be  *)
(* skipped and be missing from the next record.  Maps learn nothing.       *)
OnItsOwn(t) == \A s \in Structs : s.key = t.key => s = t
ReadsItsFields(t) == \A n \in Names : t.reads[n].kind = "ignored" => t.reads[n] = Unread
Cacheable(t) == t.shape = "map" \/ (OnItsOwn(t) /\ ReadsItsFields(t))

-----------------------------------------------------------------------------
(* What a header record is to a deserializer: how many columns there are,  *)
(* the names up to the first that is not UTF-8, and where that is.         *)
Malformed(h) == {c \in 1..Len(h) : h[c] = NotUtf8}
FirstMalformed(h) ==
    IF Malformed(h) = {} THEN 0 ELSE CHOOSE c \in Malformed(h) : \A d \in Malformed(h) : c <= d
View(h) ==
    [columns |-> Len(h), invalid |-> FirstMalformed(h),
     names |-> IF FirstMalformed(h) = 0 THEN h ELSE SubSeq(h, 1, FirstMalformed(h) - 1)]
NoView == [columns |-> 0, invalid |-> 0, names |-> <<>>]

(* The cache's methods.  Columns past the first word are in `wide`.        *)
Reset ==
    [view |-> NoView, key |-> 0, ignored |-> {}, observing |-> {}, wide |-> FALSE,
     wide_ignored |-> {}, wide_observing |-> {}, learned |-> FALSE, active |-> FALSE]
Unchanged(c, h) == c.view.invalid = 0 /\ c.view.columns = Len(h) /\ c.view.names = h
Sync(c, h) ==
    IF h = Nothing THEN Reset
    ELSE IF Unchanged(c, h) THEN c
    ELSE [Reset EXCEPT !.view = View(h), !.wide = Len(h) > WordColumns]

(* Mutant: what one struct has learned is left to the next.                *)
RekeyedStillLearned(c, t) ==
    IF c.key = t.key THEN c ELSE [c EXCEPT !.key = t.key]

Rekeyed(c, t) ==
    IF c.key = t.key THEN c
    ELSE [c EXCEPT !.key = t.key, !.ignored = {}, !.wide_ignored = {}, !.learned = FALSE]
Skips(c, t) == t.shape = "struct" /\ Rekeyed(c, t).learned /\ c.view.invalid = 0
BeginStruct(c, t) ==
    IF t.shape = "map" THEN c
    ELSE IF Skips(c, t) THEN Rekeyed(c, t)
    ELSE [Rekeyed(c, t) EXCEPT !.observing = {}, !.wide_observing = {}, !.active = TRUE]

InWord(columns) == {c \in columns : c <= WordColumns}
NoteIgnored(c, columns) ==
    [c EXCEPT !.observing = @ \cup InWord(columns),
              !.wide_observing = IF c.wide THEN @ \cup (columns \ InWord(columns)) ELSE @]
Commit(c) ==
    IF c.active
    THEN [c EXCEPT !.active = FALSE, !.learned = TRUE,
                   !.ignored = c.observing, !.wide_ignored = c.wide_observing]
    ELSE c

Ignored(c) == InWord(c.ignored) \cup (c.wide_ignored \ InWord(c.wide_ignored))

-----------------------------------------------------------------------------
(* MapDeserializer: the columns that are not skipped are offered in turn,  *)
(* until one is refused by the deserializer or by the visitor.             *)
Reading(t, v, c) == t.reads[v.names[c]]
Offered(v, skipped) == (1..v.columns) \ skipped

Unreadable(v, c) == v.invalid # 0 /\ c >= v.invalid
Unknown(t, v, c) == Reading(t, v, c).field = NoField /\ t.deny
Duplicate(t, v, skipped, c) ==
    /\ t.shape = "struct" /\ Reading(t, v, c).field # NoField
    /\ \E d \in Offered(v, skipped) : d < c /\ Reading(t, v, d).field = Reading(t, v, c).field
Misfit(t, v, r, c) ==
    \/ Reading(t, v, c).kind \in {"text", "number"} /\ c > Len(r)
    \/ Reading(t, v, c).kind = "number" /\ r[c] \notin Numbers

Refusal(t, v, r, skipped, c) ==
    IF Unreadable(v, c) THEN "header is not UTF-8"
    ELSE IF Unknown(t, v, c) THEN "unknown field"
    ELSE IF Duplicate(t, v, skipped, c) THEN "duplicate field"
    ELSE IF Misfit(t, v, r, c) THEN "value"
    ELSE "none"
Refused(t, v, r, skipped) ==
    {c \in Offered(v, skipped) : Refusal(t, v, r, skipped, c) # "none"}
Earliest(columns) == CHOOSE c \in columns : \A d \in columns : c <= d

(* What a visitor that has seen every column has, and what it misses.      *)
Filled(t, v, skipped) == {c \in Offered(v, skipped) : Reading(t, v, c).field # NoField}
Required(t) == {t.reads[n].field : n \in {n \in Names : t.reads[n].kind # "option"}} \ {NoField}
Missing(t, v, skipped) ==
    IF t.shape = "map" THEN {}
    ELSE Required(t) \ {Reading(t, v, c).field : c \in Filled(t, v, skipped)}
Value(r, c) == IF c <= Len(r) THEN r[c] ELSE Nothing

Failure(why, columns) == [why |-> why, columns |-> columns, value |-> <<>>]
Outcome(t, v, r, skipped) ==
    LET refused == Refused(t, v, r, skipped)
    IN  IF refused # {}
        THEN Failure(Refusal(t, v, r, skipped, Earliest(refused)), {Earliest(refused)})
        ELSE IF Len(r) > v.columns THEN Failure("field count", {v.columns + 1})
        ELSE IF Missing(t, v, skipped) # {} THEN Failure("missing field", Missing(t, v, skipped))
        ELSE [why |-> "none", columns |-> Filled(t, v, skipped),
              value |-> [c \in Filled(t, v, skipped) |-> Value(r, c)]]

(* The columns that the visitor ignores before it meets a refusal.         *)
Discarded(t, v, r, skipped) ==
    {c \in Offered(v, skipped) :
        /\ \A d \in Refused(t, v, r, skipped) : c < d
        /\ Reading(t, v, c).kind = "ignored"}

-----------------------------------------------------------------------------
(* Line::deserialized: the cache is brought up to date once (serde_ready)  *)
(* and told how a record ended only if it ended well.                      *)
Synced == IF ready THEN cache ELSE Sync(cache, header)
Settled(c, succeeded) == IF succeeded THEN Commit(c) ELSE c

Deserialize(t, r) ==
    /\ initialized /\ header # Nothing
    /\ LET begun == BeginStruct(Synced, t)
           skipped == IF Skips(Synced, t) THEN Ignored(begun) ELSE {}
           outcome == Outcome(t, begun.view, r, skipped)
           noted == IF t.shape = "struct" /\ ~Skips(Synced, t)
                    THEN NoteIgnored(begun, Discarded(t, begun.view, r, skipped))
                    ELSE begun
       IN  /\ cache' = Settled(noted, outcome.why = "none")
           /\ last' = [type |-> t, header |-> header, record |-> r, outcome |-> outcome]
    /\ ready' = TRUE
    /\ UNCHANGED <<header, consumes, initialized>>

(* A tuple, a sequence or a scalar is read by position, whatever the       *)
(* headers, as a struct is without any; a record that does not parse fails *)
(* before it is handed on.                                                 *)
DeserializePositionally(succeeded) ==
    /\ initialized
    /\ cache' = Settled(Synced, succeeded)
    /\ ready' = TRUE
    /\ last' = Nothing
    /\ UNCHANGED <<header, consumes, initialized>>

(* ensure_headers, or its windowed twin, reads the first record.           *)
Discover(h) ==
    /\ consumes /\ ~initialized
    /\ header' = h
    /\ initialized' = TRUE
    /\ ready' = FALSE
    /\ UNCHANGED <<consumes, cache, last>>

(* A window that ended too soon takes the cursor, and what it says of the  *)
(* headers, back to before the call, not the header record.                *)
RestoreCursor ==
    /\ initialized' \in (IF consumes THEN {initialized, FALSE} ELSE {initialized})
    /\ ready' = FALSE
    /\ UNCHANGED <<header, consumes, cache, last>>

(* rewind: headers that were read are forgotten, others stay.              *)
ResetHeaders ==
    /\ consumes
    /\ header' = Nothing
    /\ initialized' = FALSE
    /\ ready' = FALSE
    /\ UNCHANGED <<consumes, cache, last>>

SetHeaders(h) ==
    /\ header' = h
    /\ consumes' = FALSE
    /\ initialized' = TRUE
    /\ ready' = FALSE
    /\ UNCHANGED <<cache, last>>

(* The policies of ParseOptions::headers.                                  *)
Policy(h, first) ==
    /\ h \in Headers \cup {Nothing}
    /\ first \in BOOLEAN
    /\ first => h = Nothing

(* reset_for: another stream, under options of which the policy matters.   *)
ResetFor(h, first) ==
    /\ Policy(h, first)
    /\ header' = h
    /\ consumes' = first
    /\ initialized' = ~first
    /\ cache' = Reset
    /\ ready' = FALSE
    /\ UNCHANGED last

Init ==
    /\ \E h \in Headers \cup {Nothing}, first \in BOOLEAN :
          Policy(h, first) /\ header = h /\ consumes = first /\ initialized = ~first
    /\ ready = FALSE
    /\ cache = Reset
    /\ last = Nothing

Next ==
    \/ \E t \in Structs \cup Maps, r \in Records : Deserialize(t, r)
    \/ \E succeeded \in BOOLEAN : DeserializePositionally(succeeded)
    \/ \E h \in Headers \cup {Nothing} : Discover(h)
    \/ RestoreCursor
    \/ ResetHeaders
    \/ \E h \in Headers : SetHeaders(h)
    \/ \E h \in Headers \cup {Nothing}, first \in BOOLEAN : ResetFor(h, first)

Spec == Init /\ [][Next]_vars

-----------------------------------------------------------------------------
(* What is skipped is what this struct ignores under these headers: every  *)
(* record is deserialized, or refused with the same error, as it would be  *)
(* by a parser that has learned nothing, whatever was asked for before.    *)
(* It is not so of every struct (deserializer.rs:549, struct_cache.rs:84):  *)
(* one that is not Cacheable may be told wrong, but what is learned of it  *)
(* must not reach another.                                                 *)
AsAfresh ==
    last # Nothing /\ Cacheable(last.type) =>
        last.outcome = Outcome(last.type, View(last.header), last.record, {})
=============================================================================
