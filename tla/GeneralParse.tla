---------------------------- MODULE GeneralParse ----------------------------
(***************************************************************************)
(* What a reader of records promises: record after record of the document, *)
(* each of them what the general parser of FieldParsing makes of it,       *)
(* whichever of the readers is asked and whatever they read before.        *)
(***************************************************************************)
EXTENDS FieldParsing

VARIABLES config, document, position, width, outcome

vars == <<config, document, position, width, outcome>>

Init ==
    /\ position = 0 /\ width = 0
    /\ outcome.status = "unread"

(* A parser that is not the general one may meet another limit first.      *)
LimitKinds == {"record too large", "field too large", "too many fields", "overrun"}
Promised(r, o) ==
    \/ /\ o.status = r.status /\ o.error = r.error
       /\ o.status = "done" => o.at = r.at /\ o.fields = r.fields
    \/ /\ o.status = "failed" /\ r.status = "failed"
       /\ {o.error.kind, r.error.kind} \cap LimitKinds # {}

Read ==
    LET Outcome(r) ==
            /\ Promised(r, outcome')
            /\ position' = IF r.status = "done" THEN r.at ELSE position
            /\ width' = IF r.status = "done" /\ width = 0 THEN Len(r.fields) ELSE width
    IN  /\ outcome.status # "failed" /\ position < Len(document)
        /\ outcome'.from = position
        /\ Outcome(Counted(config, width, GeneralFields(config, document, position, Begin(position))))
        /\ UNCHANGED <<config, document>>

Seek ==
    /\ position' = 0 /\ outcome'.status = "unread"
    /\ UNCHANGED <<config, document, width>>

Next == Read \/ Seek

Spec == Init /\ [][Next]_vars
=============================================================================
