------------------------------ MODULE Emitter ------------------------------
(***************************************************************************)
(* IoEmitter (io_emitter.rs) over its encoding core (push_emitter.rs): the *)
(* records accepted collect in a buffer, the buffer is written to the sink *)
(* once it has reached a threshold, a failed write is final, and a file    *)
(* left behind by one emitter is taken up by another with append_path.     *)
(*                                                                         *)
(* What is written is abstracted to pieces.  A piece knows the record it   *)
(* is part of (0 for the byte-order mark), whether it is the last of it,   *)
(* and whether it `ends` in the bytes of a record ending, which a piece in *)
(* the middle of a record does when a quoted field spans lines.            *)
(***************************************************************************)
EXTENDS Naturals, Sequences, FiniteSets, SequencesExt

CONSTANTS
    Threshold,      \* EmitOptions::capacity, in pieces
    MaxFields,      \* records have from 1 to MaxFields fields
    Multiline,      \* whether a record may span lines: a subset of BOOLEAN
    MaxRecords,     \* bound: records accepted, the header among them
    MaxSessions     \* bound: how many emitters write the file in turn

ASSUME ThresholdAssumption == Threshold \in Nat \ {0}
ASSUME MaxFieldsAssumption == MaxFields \in Nat \ {0}
ASSUME MultilineAssumption == Multiline \subseteq BOOLEAN
ASSUME BoundsAssumption == MaxRecords \in Nat
ASSUME SessionsAssumption == MaxSessions \in Nat \ {0}

VARIABLES
    format,         \* the caller's format and options, the same every time
    file,           \* what the sink has confirmed
    live,           \* whether there is an emitter
    buffer,         \* core.buffer: encoded, not yet confirmed
    failed,         \* latched by the first I/O error
    bom,            \* whether this emitter is to write a byte-order mark
    started,        \* whether it has committed a record
    expected,       \* expected_fields, NotLearned for None
    headers,        \* serde_headers
    sessions,       \* how many emitters there have been
    accepted,       \* every record accepted that is not known to be lost
    flushed         \* how many of them an Ok of flush or into_inner covered

core == <<buffer, bom, started, expected, headers>>
history == <<sessions, flushed>>
vars == <<format, file, live, core, failed, accepted, history>>

NotLearned == 0
ExactFields == 1
Formats == [bom : BOOLEAN, policy : {"Flexible", "Exact", "MatchFirst"}, headers : BOOLEAN]
Records == [kind : {"header", "data"}, fields : 1..MaxFields, multiline : BOOLEAN]
DataRecords == [kind : {"data"}, fields : 1..MaxFields, multiline : Multiline]
Header(u) == [kind |-> "header", fields |-> u.fields, multiline |-> FALSE]

Piece(id, part, size, ends) == [id |-> id, part |-> part, last |-> part = size, ends |-> ends]
Bom == [i \in 1..2 |-> Piece(0, i, 2, FALSE)]
Encoded(id, u) ==
    LET size == IF u.multiline THEN 3 ELSE 2
    IN  [i \in 1..size |-> Piece(id, i, size, i > 1)]
HeaderAndRecord(n, u) == Encoded(n + 1, Header(u)) \o Encoded(n + 2, u)

Init ==
    /\ format \in Formats
    /\ file = <<>>
    /\ live = TRUE
    /\ buffer = <<>>
    /\ failed = FALSE
    /\ bom = format.bom
    /\ started = FALSE
    /\ expected = NotLearned
    /\ headers = IF format.headers THEN "Pending" ELSE "Disabled"
    /\ sessions = 1
    /\ accepted = <<>>
    /\ flushed = 0

-----------------------------------------------------------------------------
(* validate_field_count: whether the policy lets a record through, and     *)
(* what it learns from one it does.                                        *)
Admits(fields) ==
    \/ format.policy = "Flexible"
    \/ format.policy = "Exact" /\ fields = ExactFields
    \/ format.policy = "MatchFirst" /\ expected \in {NotLearned, fields}

Learned(fields) == IF format.policy = "MatchFirst" THEN fields ELSE expected

(* Mutation of Written: an error leaves the whole buffer to be retried.    *)
WrittenKeepsAll(content, n) ==
    /\ file' = file \o SubSeq(content, 1, n)
    /\ buffer' = IF n < Len(content) THEN content ELSE <<>>

(* drain: the sink confirms the first n pieces; those it did not confirm,  *)
(* when it fails before the last of them, stay in the buffer.              *)
Written(content, n) ==
    /\ file' = file \o SubSeq(content, 1, n)
    /\ buffer' = SubSeq(content, n + 1, Len(content))

(* Mutation of Full: the buffer has to outgrow the threshold.              *)
FullBeyond(content) == Len(content) > Threshold

(* IoEmitter::commit: the record just appended fills the buffer.           *)
Full(content) == Len(content) >= Threshold

(* The records have been encoded and admitted.  The first that an emitter  *)
(* commits has the byte-order mark put in front of the buffer.             *)
Accept(units, bytes) ==
    LET appended == buffer \o bytes
        content == IF ~started /\ bom THEN Bom \o appended ELSE appended
    IN  /\ Len(accepted) + Len(units) <= MaxRecords
        /\ accepted' = accepted \o units
        /\ started' = TRUE
        /\ IF Full(content)
             THEN \E n \in 0..Len(content) :
                     Written(content, n) /\ failed' = (n < Len(content))
             ELSE buffer' = content /\ UNCHANGED <<file, failed>>
        /\ UNCHANGED <<format, live, bom, history>>

(* emit_record, its variants, encode and encode_header, and serialize once *)
(* the headers are settled.                                                *)
Emit(u) ==
    /\ live /\ ~failed
    /\ Admits(u.fields)
    /\ expected' = Learned(u.fields)
    /\ Accept(<<u>>, Encoded(Len(accepted) + 1, u))
    /\ UNCHANGED headers

(* serialize with the header still to be written: one whose fields have    *)
(* names is preceded by a header record, and both become part of the       *)
(* buffer at once; one without settles that there is none.                 *)
SerializeFirst(u, named) ==
    /\ live /\ ~failed
    /\ headers = "Pending"
    /\ Admits(u.fields)
    /\ expected' = Learned(u.fields)
    /\ IF named
         THEN Accept(<<Header(u), u>>, HeaderAndRecord(Len(accepted), u))
         ELSE Accept(<<u>>, Encoded(Len(accepted) + 1, u))
    /\ headers' = "Written"

(* rollback: truncate the buffer to where the rejected record began.       *)
RolledBack(content, start) == SubSeq(content, 1, start)

(* A record that cannot be encoded, after any part of it, or that the      *)
(* field count policy rejects, after all of it.                            *)
Reject(u) ==
    /\ live /\ ~failed
    /\ LET bytes == Encoded(Len(accepted) + 1, u)
       IN  \E n \in 0..Len(bytes) :
              /\ n = Len(bytes) => ~Admits(u.fields)
              /\ buffer' = RolledBack(buffer \o SubSeq(bytes, 1, n), Len(buffer))
    /\ UNCHANGED <<format, file, live, bom, started, expected, headers, failed,
                   accepted, history>>

(* Mutation of FlushSink: the sink is flushed, the buffer is not.          *)
FlushSinkOnly ==
    /\ live /\ ~failed
    /\ failed' \in BOOLEAN
    /\ flushed' = IF failed' THEN flushed ELSE Len(accepted)
    /\ UNCHANGED <<format, file, core, accepted, sessions>>

(* flush: drain the buffer, then flush the sink; either may fail.          *)
FlushSink ==
    /\ live /\ ~failed
    /\ \E n \in 0..Len(buffer) :
          /\ Written(buffer, n)
          /\ failed' \in {TRUE, n < Len(buffer)}
    /\ flushed' = IF failed' THEN flushed ELSE Len(accepted)
    /\ UNCHANGED <<format, bom, started, expected, headers, accepted, sessions>>

Flush == FlushSink /\ UNCHANGED live

(* into_inner hands the sink back, or the failed emitter.                  *)
IntoInner == FlushSink /\ live' = failed'

(* Drop drains once more, after a failure too, and cannot tell how it went.*)
Drop ==
    /\ live
    /\ live' = FALSE
    /\ \E n \in 0..Len(buffer) : file' = file \o SubSeq(buffer, 1, n)
    /\ buffer' = <<>>
    /\ UNCHANGED <<format, bom, started, expected, headers, failed, accepted, history>>

(* into_inner_unflushed, or the end of the process: the buffer is lost.  A *)
(* process that dies within a drain leaves what a drain that fails there   *)
(* followed by this step leaves.                                           *)
Abandon ==
    /\ live
    /\ live' = FALSE
    /\ buffer' = <<>>
    /\ UNCHANGED <<format, file, bom, started, expected, headers, failed, accepted, history>>

(* document_state: what the file holds, going by its last bytes.           *)
DocumentState ==
    IF file = <<>> THEN "Empty"
    ELSE IF file = Bom THEN "BomOnly"
    ELSE IF Last(file).ends THEN "HasRecords"
    ELSE "Unterminated"

(* The records all of which are in the file.                               *)
Whole == {i \in 1..Len(accepted) : \E k \in 1..Len(file) : file[k].id = i /\ file[k].last}

(* Mutation of ResumedFields: every emitter learns the count anew.         *)
ResumedFieldsForgotten == NotLearned

(* existing_file_field_count, for MatchFirst only.                         *)
ResumedFields ==
    IF DocumentState = "HasRecords" /\ format.policy = "MatchFirst"
      THEN accepted[1].fields ELSE NotLearned

(* Mutation of ResumedHeaders: a resumed document gets a header as well.   *)
ResumedHeadersAgain == IF format.headers THEN "Pending" ELSE "Disabled"

(* A header is still to be written only if no record is there yet.         *)
ResumedHeaders ==
    IF format.headers /\ DocumentState # "HasRecords" THEN "Pending" ELSE "Disabled"

(* append_path: refused unless the file ends in a record ending and, when  *)
(* the field count has to be read from it, its first record parses.        *)
AppendPath ==
    /\ ~live
    /\ sessions < MaxSessions
    /\ DocumentState # "Unterminated"
    /\ DocumentState = "HasRecords" /\ format.policy = "MatchFirst" => 1 \in Whole
    /\ sessions' = sessions + 1
    /\ live' = TRUE
    /\ failed' = FALSE
    /\ buffer' = <<>>
    /\ bom' = (format.bom /\ DocumentState = "Empty")
    /\ started' = FALSE
    /\ expected' = ResumedFields
    /\ headers' = ResumedHeaders
    /\ accepted' = SubSeq(accepted, 1, Cardinality(Whole))
    /\ UNCHANGED <<format, file, flushed>>

Next ==
    \/ \E u \in DataRecords : Emit(u) \/ Reject(u)
    \/ \E u \in DataRecords, named \in BOOLEAN : SerializeFirst(u, named)
    \/ Flush
    \/ IntoInner
    \/ Drop
    \/ Abandon
    \/ AppendPath

Spec == Init /\ [][Next]_vars

-----------------------------------------------------------------------------
Pieces == [id : 0..MaxRecords, part : 1..3, last : BOOLEAN, ends : BOOLEAN]

TypeOK ==
    /\ format \in Formats
    /\ file \in Seq(Pieces)
    /\ live \in BOOLEAN
    /\ buffer \in Seq(Pieces)
    /\ failed \in BOOLEAN
    /\ bom \in BOOLEAN
    /\ started \in BOOLEAN
    /\ expected \in {NotLearned} \cup 1..MaxFields
    /\ headers \in {"Disabled", "Pending", "Written"}
    /\ sessions \in 1..MaxSessions
    /\ accepted \in Seq(Records)
    /\ flushed \in 0..MaxRecords

(* The document as it should be: its mark, if the format has one, in front *)
(* of the records accepted, in order and each once.                        *)
Document ==
    (IF format.bom THEN Bom ELSE <<>>)
      \o FlattenSeq([i \in 1..Len(accepted) |-> Encoded(i, accepted[i])])

(* "holds every accepted record that has not reached the sink, and holds   *)
(* no byte the sink already took" (io_emitter.rs:274): the sink and the    *)
(* buffer make up the document, whatever was rejected, failed half-way,    *)
(* dropped or taken up again by a later emitter.                           *)
DocumentIntact ==
    /\ IsPrefix(file, Document)
    /\ live /\ accepted # <<>> => file \o buffer = Document

(* What an Ok from flush or into_inner covered is in the file, and stays   *)
(* in it through later failures, lost buffers and resumed documents.       *)
FlushedSurvives == Cardinality(Whole) >= flushed

(* A policy other than Flexible holds for the file as a whole: the count   *)
(* MatchFirst learned is still the one that counts after append_path.      *)
UniformFieldCount ==
    format.policy # "Flexible" =>
        \A i, j \in 1..Len(accepted) : accepted[i].fields = accepted[j].fields

(* "Appending suppresses the byte-order mark and header record, since      *)
(* those only belong at the start of a document" (io_emitter.rs:766): no   *)
(* document gets a second header, however often it is taken up again.      *)
HeaderOnce ==
    \A i, j \in 1..Len(accepted) :
        accepted[i].kind = "header" /\ accepted[j].kind = "header" => i = j

(* "the resident cost is therefore the threshold plus the largest record   *)
(* in flight" (io_emitter.rs:98): between calls less than the threshold is *)
(* held back, unless the sink has failed.                                  *)
BufferBelowThreshold == live /\ ~failed => Len(buffer) < Threshold
=============================================================================
