------------------------------ MODULE Encoding ------------------------------
(***************************************************************************)
(* How the emitters write one record (src/crates/coseva/src/emit.rs): what *)
(* is quoted, what is escaped, and what stands between fields and after the *)
(* last.  The configuration c is FieldParsing's, for one format names what *)
(* is written and what is read.                                            *)
(*                                                                         *)
(* Left out: Quoting::Raw, which promises nothing, comment and byte-order  *)
(* marks, separators of more than one byte, and the control bytes MySQL    *)
(* spells with a letter.                                                   *)
(***************************************************************************)
EXTENDS FieldParsing

LOCAL INSTANCE SequencesExt

(* Quoting.                                                                *)
Policies == {"necessary", "non numeric", "always", "never"}

(* FormatOptions::invalidity.                                              *)
Valid(c, quoting) ==
    /\ c.escape = "unquoted" \/ ~c.quoting => quoting = "never"
    /\ c.nulls = "postgres" => quoting # "never"
    /\ c.nulls = "mysql" /\ quoting = "never" => c.escape = "unquoted"

(* Mutant: a carriage return need not be quoted.                           *)
NeedsQuotesOrSeparates(c, text) ==
    \E i \in 1..Len(text) : text[i] \in {c.delim, "quote", c.ending}

(* needs_quotes.                                                           *)
NeedsQuotes(c, text) ==
    \E i \in 1..Len(text) :
        text[i] \in {c.delim, "quote", c.ending} \cup IF c.kind = "byte" THEN {} ELSE {"cr"}

(* is_numeric: of the spellings of numbers, the plainest.                  *)
IsNumeric(text) == text # <<>> /\ \A i \in 1..Len(text) : text[i] = "digit"

Escaped(text, bytes, escape) ==
    FlattenSeq([ i \in 1..Len(text) |->
                   IF text[i] \in bytes THEN <<escape, text[i]>> ELSE <<text[i]>> ])

(* write_quoted.                                                           *)
WriteQuoted(c, text) ==
    <<"quote">>
      \o (IF c.escape = "double" THEN Escaped(text, {"quote"}, "quote")
                                 ELSE Escaped(text, {"quote", "esc"}, "esc"))
      \o <<"quote">>

(* write_unquoted_escaped_field.                                           *)
WriteUnquotedEscaped(c, text) == Escaped(text, {"esc", c.delim, c.ending, "quote"}, "esc")

(* A text that would be read as a NULL.                                    *)
LooksNull(c, text) ==
    \/ c.nulls = "postgres" /\ text = <<>>
    \/ c.nulls = "mysql" /\ text = <<"esc", "N">>

(* write_configured_field; "never" is for a field that needs no quotes.    *)
WriteField(c, quoting, text) ==
    CASE c.escape = "unquoted" -> WriteUnquotedEscaped(c, text)
      [] c.escape # "unquoted"
           /\ \/ LooksNull(c, text)
              \/ quoting = "always" \/ NeedsQuotes(c, text)
              \/ quoting = "non numeric" /\ ~IsNumeric(text) -> WriteQuoted(c, text)
      [] OTHER -> text

(* write_unquoted refuses what would have to be quoted.                    *)
Refuses(c, quoting, fields) ==
    /\ quoting = "never" /\ c.escape # "unquoted"
    /\ \E i \in 1..Len(fields) : ~fields[i].null /\ NeedsQuotes(c, fields[i].text)

(* write_null.                                                             *)
WriteNull(c) == IF c.nulls = "mysql" THEN <<"esc", "N">> ELSE <<>>

(* finish_record.                                                          *)
FinishRecord(c) == IF c.kind = "crlf" THEN <<"cr", c.ending>> ELSE <<c.ending>>

(* emit_nullable_record, and emit_record, which is the same without NULLs. *)
(* A record that would be a blank line is given quotes.                    *)
EmitRecord(c, quoting, fields) ==
    LET written(i) == IF fields[i].null THEN WriteNull(c) ELSE WriteField(c, quoting, fields[i].text)
        line == FlattenSeq([ i \in 1..Len(fields) |->
                               (IF i = 1 THEN <<>> ELSE <<c.delim>>) \o written(i) ])
        quotes == IF /\ Len(fields) = 1 /\ ~fields[1].null
                     /\ line = <<>> /\ quoting = "necessary"
                    THEN <<"quote", "quote">> ELSE <<>>
    IN  line \o quotes \o FinishRecord(c)
=============================================================================
