---------------------------- MODULE SliceParser ----------------------------
(***************************************************************************)
(* The parser of a whole input (src/crates/coseva/src/slice_parser.rs):    *)
(* the engine over a window that is the input.  The streaming parsers have *)
(* to come to what it comes to, however their input is cut.                *)
(***************************************************************************)
EXTENDS Engine

BOM == <<"bom1", "bom2", "bom3">>
StartsWithBom(w) == Len(w) >= 3 /\ SubSeq(w, 1, 3) = BOM

(* skip_detected_bom, and what construction does of the same.              *)
SkipDetectedBom(w, e) ==
    IF e.location = 0 /\ StartsWithBom(w) THEN [e EXCEPT !.location = 3] ELSE e

(* The start of a stream, as Location::START.                              *)
RejectedBom == [kind |-> "rejected bom", byte |-> 0, line |-> 1, record |-> 0]

(* next_line() and record() until there is no record or an error: what is  *)
(* told each time, and the engine at it.  A header is parsed like a record *)
(* and then left out, unless it fails.                                     *)
SliceParse(f, s) ==
    LET Told(c, o) ==
            CASE c.location = Len(s) -> [tag |-> "done", at |-> Len(s), engine |-> c]
              [] c.location # Len(s) /\ o.tag = "error" ->
                   [tag |-> "error", error |-> o.error, engine |-> o.engine]
              [] c.location # Len(s) /\ o.tag = "record" ->
                   [tag |-> "record", terminated |-> o.terminated, engine |-> o.engine,
                    record |-> [start |-> c.location, end |-> o.engine.location,
                                index |-> c.record_index]]
        At(c) == Told(c, ParseRecord(f, s, c, FALSE))
        After(e) == At(SkipIgnored(f, s, [e EXCEPT !.resume = Unset]))
        Start == IF f.bom = "detect" THEN SkipDetectedBom(s, NewEngine) ELSE NewEngine
        Continued(outcomes) ==
            LET last == outcomes[Len(outcomes)]
            IN  IF last.tag = "record" THEN Append(outcomes, After(last.engine)) ELSE outcomes
        run[n \in 0..Len(s)] == IF n = 0 THEN <<After(Start)>> ELSE Continued(run[n - 1])
        Data(outcomes) ==
            IF f.headers /\ outcomes[1].tag = "record" THEN Tail(outcomes) ELSE outcomes
    IN  IF f.bom = "reject" /\ StartsWithBom(s)
          THEN <<[tag |-> "error", error |-> RejectedBom, engine |-> NewEngine]>>
          ELSE Data(run[Len(s)])
=============================================================================
