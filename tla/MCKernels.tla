----------------------------- MODULE MCKernels -----------------------------
(* Small instances of Kernels: documents of two or three short records, and *)
(* the configurations that bring in each kernel.                           *)
EXTENDS Kernels, RecordScan

a == "a"
q == "quote"
k == "comma"
n == "lf"

Plain == { <<a, n>>, <<"digit", k, a, n>>, <<k, k, a, k, n>>, <<a, "cr", "cr", n>>, <<n>> }
Quotes ==
    { <<q, a, q, k, a, n>>, <<a, k, q, k, q, n>>, <<q, q, k, a, k, q, n, q, "cr", n>>,
      <<a, k, q, a, q, q, q, n>>, <<q, q, q, a, q, k, q, q, n>> }
Malformed ==
    { <<a, q, a, n>>, <<q, a, q, a, n>>, <<a, "cr", a, n>>, <<q, a>>, <<a, k, q>>,
      <<q, "esc", a, q, n>>, <<a, k, q, a, q, k, a, q, n>>, <<q, q, a, q, q, n, a>>,
      <<a, k, q, q, k, q, a, q, a, n>> }
Long == { <<a, a, a, a, a, a, a, a, k, a, n>>, <<q, a, a, q, q, q, q, a, a, q, n>>,
          <<q, q, k, a, a, a, a, k, a, a, a, a, a, n>>,
          <<a, k, a, a, a, a, a, k, q, a, a, a, q, n>> }
Others ==
    { <<a, "semi", q, a, q, n>>, <<q, "esc", q, "esc", "esc", q, n>>,
      <<"esc", k, a, n>>, <<"esc", "N", k, "esc", "cr", n>>,
      <<q, a, q, "space", k, "space", q, a, q, n>>, <<a, k, "space", a, n>>, <<a, k, q, "space", a, q, n>> }
Unended == { <<a>>, <<a, k>>, <<q, a, q>> }

Joined(x, y) == { r \o s : r \in x, s \in y }
Short == Joined(Plain \cup Quotes \cup Others,
                Plain \cup Quotes \cup Malformed \cup Others \cup Unended)
            \cup Joined(Quotes, Joined(Quotes, Quotes))
Documents == Short \cup Joined(Plain \cup Quotes, Long)

MCDefault == [record |-> 12, field |-> 7, fields |-> 9]

Csv == [delim |-> k, ending |-> n, kind |-> "newline", escape |-> "double", quoting |-> TRUE,
        bare_quotes |-> FALSE, trailing_space |-> FALSE, any_escape |-> FALSE,
        skip_space |-> FALSE, nulls |-> "none", limits |-> MCDefault, count |-> AnyCount,
        named |-> TRUE, engine |-> "slice", roomy |-> TRUE,
        readers |-> {"record", "bytes", "text"}]
Other == [Csv EXCEPT !.readers = {"record", "bytes"}, !.roomy = FALSE]
Semicolon == [Other EXCEPT !.delim = "semi"]

Configs ==
    { Csv, [Csv EXCEPT !.engine = "windowed"], Semicolon,
      [Other EXCEPT !.escape = "backslash"],
      [Other EXCEPT !.limits = [record |-> 8, field |-> 4, fields |-> 3]],
      [Other EXCEPT !.nulls = "postgres", !.count = FirstCount],
      [Other EXCEPT !.kind = "crlf", !.count = 2],
      [Other EXCEPT !.escape = "unquoted", !.nulls = "mysql"],
      [Other EXCEPT !.quoting = FALSE],
      [Other EXCEPT !.bare_quotes = TRUE, !.trailing_space = TRUE],
      [Other EXCEPT !.escape = "backslash", !.any_escape = TRUE, !.named = FALSE,
                    !.skip_space = TRUE],
      [Other EXCEPT !.kind = "byte", !.ending = "semi", !.named = FALSE] }

(* Records whose line feed is the first byte of a block of PlainBlock, and  *)
(* the carriage return before it the last one of the block before.         *)
CutEndings == { <<a, "cr", n>>, <<a, k, a, "cr", n>>, <<k, "cr", n>> }
CutDocuments == Joined(CutEndings, Plain \cup CutEndings)

(* A reset engine checks no field's length, so it gets none that is too    *)
(* long; text is read of the default dialect only (TextInputs); and only   *)
(* the borrowed reader gets records whose ending a block cuts, which the    *)
(* owned ones misread (BlockInputs).                                       *)
MCInputs ==
    (Configs \X Documents)
    \cup ({[Csv EXCEPT !.engine = "reset"]} \X Short)
    \cup ({[Csv EXCEPT !.readers = {"record"}]} \X CutDocuments)

(* Whatever was read before and whichever reader is asked, a record is what *)
(* the general parser makes of it: the kernels, the specialised parsers and *)
(* the prediction that picks one are "only ever an optimization" of it     *)
(* (parse_options.rs:173, differential.rs:902).                            *)
General == INSTANCE GeneralParse WITH
    config <- config, document <- document, position <- position,
    width <- width, outcome <- outcome
OnlyAnOptimization == General!Spec

Boundless(c) == [c EXCEPT !.limits = [record |-> 99, field |-> 99, fields |-> 99]]

(* "One constant describes both directions, so a round trip names its      *)
(* format once" (README.md:113): a record that was read, written under any *)
(* policy its format may have and read again has the fields it had, NULLs  *)
(* and empty ones told apart, and ends where it was written to.  Spaces    *)
(* that the reader skips are not kept, nor is a carriage return that ends  *)
(* an escaped record: the writer escapes line feeds only.                  *)
Kept(c, fields) ==
    /\ ~c.skip_space
    /\ c.escape = "unquoted" => LET text == fields[Len(fields)].text
                                IN  text = <<>> \/ text[Len(text)] # "cr"
WrittenIsReadBack ==
    LET Reads(c, w) == GeneralFields(c, w \o w, 0, Begin(0))
        SameRecord(r, w) == r.status = "done" /\ r.fields = outcome.fields /\ r.at = Len(w)
        ReadBack(w) == SameRecord(Reads(Boundless(config), w), w)
    IN  outcome.status = "done" /\ Kept(config, outcome.fields) =>
            \A quoting \in Policies :
                Valid(config, quoting) /\ ~Refuses(config, quoting, outcome.fields) =>
                    ReadBack(EmitRecord(config, quoting, outcome.fields))

(* "A record this scan does confirm is therefore never one it merely       *)
(* assumed was fine" (generate.rs:415): whichever limits an encoded record *)
(* meets and whether blank lines are skipped, what is confirmed or refused *)
(* by its bytes is what a fresh parser over the record alone sees as one   *)
(* record or as none, and its line feeds are counted.  Limits that do not  *)
(* hold the end of a blank record are left out.                            *)
ConfirmedIsOneRecord ==
    LET Limits(w) ==
            { [record |-> 99, field |-> 99, fields |-> 99],
              [record |-> 99, field |-> 1, fields |-> 99],
              [record |-> 99, field |-> 2, fields |-> 99],
              [record |-> 99, field |-> 99, fields |-> 1] }
              \cup { [record |-> m, field |-> 99, fields |-> 99] :
                     m \in {Len(w) - 1, Len(w)} \ {Len(FinishRecord(config)) - 1} }
        Agrees(scan, parsed) ==
            /\ scan.status # "unexplained" => scan.status = parsed.status
            /\ scan.status = "confirmed" => scan.feeds = parsed.feeds
        Holds(w) ==
            \A limits \in Limits(w), skips \in BOOLEAN :
                LET c == [config EXCEPT !.limits = limits]
                IN  Agrees(Scan(c, skips, w), Reparse(c, skips, 0, w))
    IN  outcome.status = "done" /\ Kept(config, outcome.fields) =>
            \A quoting \in Policies :
                Valid(config, quoting) /\ ~Refuses(config, quoting, outcome.fields) =>
                    Holds(EmitRecord(config, quoting, outcome.fields))

(* A limit refuses a record or leaves it alone: one that is accepted fits  *)
(* the limits and is, field for field, what the general parser makes of it *)
(* without any.  A scan that a limit cuts short could take its end for the *)
(* record's, or the first half of an escape that straddles it              *)
(* (borrowed_parser.rs:872) for the closing quote; the kernels and the     *)
(* general parser share that scan, so that neither shows the other wrong.  *)
LimitsOnlyRefuse ==
    LET from == outcome.from
        Unlimited == GeneralFields(Boundless(config), document, from, Begin(from))
        Fits == /\ outcome.at - from <= config.limits.record
                /\ Len(outcome.fields) <= config.limits.fields
                /\ \A i \in DOMAIN outcome.fields :
                      Len(outcome.fields[i].text) <= config.limits.field
        Same(r) == r.status = "done" /\ r.at = outcome.at /\ r.fields = outcome.fields
    IN  outcome.status = "done" => Fits /\ Same(Unlimited)

-----------------------------------------------------------------------------
(* Text of another dialect.                                                *)
TextInputs == {[Semicolon EXCEPT !.readers = {"text"}]} \X Joined(Others, Joined(Plain, Others))

(* Endings that a block cuts, for every reader.                            *)
BlockInputs == {Csv} \X CutDocuments
=============================================================================
