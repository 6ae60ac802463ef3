----------------------------- MODULE PushParser -----------------------------
(***************************************************************************)
(* The parser that is lent the stream a chunk at a time                    *)
(* (src/crates/coseva/src/push.rs).  Records are read out of the caller's  *)
(* chunk where they can be; a record that a chunk cuts is put together in  *)
(* the parser's window, into which no more of the chunk is copied than it  *)
(* takes.  How the stream is cut, when the caller stops reading a chunk,   *)
(* when it says that the stream is over, and whether it starts again are   *)
(* its own choice.                                                         *)
(*                                                                         *)
(* What would have the name of an operation of IoParser has Push in front  *)
(* of it, so that one module can be about both.                            *)
(***************************************************************************)
EXTENDS Streaming

CONSTANTS
    Methods,        \* what is called for each format: "line", "owned" or both
    Abandons,       \* the answers at which its caller may stop reading a chunk
    Sizes,          \* how long a chunk before the last may be
    Stride          \* ABSORB_STRIDE

ASSUME MethodsAssumption == Methods \in [Formats -> SUBSET {"line", "owned"}]
ASSUME ChunksAssumption ==
    Abandons \in [Formats -> SUBSET {"none", "line", "record"}] /\ Sizes \subseteq Nat /\ Stride \in Nat \ {0}
(* A chunk is a slice, and the last one may be all of the stream.          *)
ASSUME SlicesAssumption == \A f \in Formats : \A s \in Streams[f] : Len(s) < NO_OFFSET

VARIABLES
    fed,            \* how much of the stream the caller knows to be taken
    loan,           \* the chunk that is lent, or NoLoan
    finished,       \* finish() was called
    deferred,       \* the error of a settled chunk, for the next call
    bom_resolved,
    refused         \* need_more_len

arguments == <<format, stream>>
flags == <<finished, failed, deferred, bom_resolved, headers_resolved>>
lender == <<fed, next>>
push_vars == <<arguments, lender, loan, window, consumed, flags, refused, engine, call, answer>>

NO_REFUSAL == NO_OFFSET

(* absorbed bytes of it were copied into the window; once it is borrowed,  *)
(* records are read out of the rest.                                       *)
NoLoan == [lent |-> FALSE, len |-> 0, absorbed |-> 0, stride |-> 0, borrowed |-> FALSE]

Rest == SubSeq(stream, fed + loan.absorbed + 1, fed + loan.len)

(* What the engine's offsets are into.                                     *)
Buffer == IF loan.borrowed THEN Rest ELSE window

PushInit ==
    /\ format \in Formats
    /\ stream \in Streams[format]
    /\ fed = 0
    /\ loan = NoLoan
    /\ window = <<>>
    /\ consumed = 0
    /\ finished = FALSE
    /\ failed = FALSE
    /\ deferred = NoError
    /\ bom_resolved = (format.bom = "preserve")
    /\ headers_resolved = FALSE
    /\ refused = NO_REFUSAL
    /\ engine = NewEngine
    /\ call = "none"
    /\ answer = NoAnswer
    /\ next = 1

-----------------------------------------------------------------------------
(* chunk(): all the rest of the stream when the caller knows it to be.     *)
Chunk(n) ==
    /\ ~loan.lent
    /\ n <= Len(stream) - fed
    /\ finished => n = Len(stream) - fed
    /\ loan' = [NoLoan EXCEPT !.lent = TRUE, !.len = n, !.borrowed = window = <<>>]
    /\ UNCHANGED <<arguments, lender, window, consumed, flags, refused, engine, call, answer>>

Finish ==
    /\ ~loan.lent /\ ~finished
    /\ finished' = TRUE
    /\ UNCHANGED <<arguments, lender, loan, window, consumed, failed, deferred, bom_resolved,
                   headers_resolved, refused, engine, call, answer>>

(* next_line, or read_byte_record_into and its text twin.                  *)
PushCall(reads) ==
    /\ loan.lent /\ call = "none"
    /\ call' = reads
    /\ answer' = NoAnswer
    /\ UNCHANGED <<arguments, lender, loan, window, consumed, flags, refused, engine>>

PushReturn(with) == call' = "none" /\ answer' = with

PushFail(error) == failed' = TRUE /\ PushReturn([tag |-> "error", error |-> error]) /\ UNCHANGED next

(* check_failed, which tells of a deferred error once.                     *)
PushRefuse ==
    /\ call # "none" /\ failed
    /\ PushReturn([tag |-> "error",
               error |-> IF deferred # NoError THEN deferred
                         ELSE Rebased(ErrorAt(Buffer, engine, "failed", engine.location))])
    /\ deferred' = NoError
    /\ UNCHANGED <<arguments, lender, loan, window, consumed, finished, failed, bom_resolved,
                   headers_resolved, refused, engine>>

-----------------------------------------------------------------------------
(* Mutant: what a chunk ends with is always decided on.                    *)
DecidesAtOnce(w, eof) == FALSE

(* resolve_bom: a mark may be split across chunks, and is waited for.      *)
BomUndecided(w, eof) ==
    ~bom_resolved /\ ~eof /\ Len(w) < 3 /\ w = SubSeq(BOM, 1, Len(w))
BomRejected(w) == ~bom_resolved /\ format.bom = "reject" /\ StartsWithBom(w)
PastBom(w) == IF bom_resolved THEN engine ELSE SkipDetectedBom(w, engine)

PushRejectBom ==
    /\ call # "none" /\ ~failed
    /\ BomRejected(Buffer)
    /\ bom_resolved' = TRUE
    /\ PushFail(RejectedBom)
    /\ UNCHANGED <<arguments, fed, loan, window, consumed, finished, deferred,
                   headers_resolved, refused, engine>>

(* The window or the loan is looked at, when no mark is in the way.        *)
Looks(eof) ==
    /\ call # "none" /\ ~failed
    /\ ~BomRejected(Buffer)
    /\ bom_resolved' = (bom_resolved \/ ~BomUndecided(Buffer, eof))
    /\ UNCHANGED <<arguments, fed, finished, deferred>>

-----------------------------------------------------------------------------
(* Out of the window, while a record is put together in it.                *)
Pending(e) == Len(window) - e.location

(* Mutant: the room is a record's, whatever is pending.                    *)
RoomForARecord(e) == format.limit + 1

Room(e) == Max({0, format.limit + 1 - Pending(e)})

(* Mutant: a chunk that is absorbed whole is taken to hold no ending.      *)
AbsorbsWholeChunksUnread(e) ==
    LET scanned == Min({loan.stride, Len(Rest)})
        found == { i \in scanned+1..Len(Rest) : Rest[i] = format.ending }
        boundary == IF found = {} THEN Len(Rest) ELSE Min({Min(found) + 1, Len(Rest)})
        take == Min({boundary, Room(e)})
    IN  [window |-> window \o SubSeq(Rest, 1, take),
         loan |-> [loan EXCEPT !.absorbed = @ + take, !.stride = Max({2 * @, Stride})],
         interior |-> loan.stride = 0 /\ take = Len(Rest)]

(* absorb: up to the byte after the next record ending, past those that    *)
(* were looked at before.  What it takes is "interior" when no record can  *)
(* end in it.                                                              *)
Absorbed(e) ==
    LET scanned == Min({loan.stride, Len(Rest)})
        found == { i \in scanned+1..Len(Rest) : Rest[i] = format.ending }
        boundary == IF found = {} THEN Len(Rest) ELSE Min({Min(found) + 1, Len(Rest)})
        take == Min({boundary, Room(e)})
    IN  [window |-> window \o SubSeq(Rest, 1, take),
         loan |-> [loan EXCEPT !.absorbed = @ + take, !.stride = Max({2 * @, Stride})],
         interior |-> loan.stride = 0 /\ found = {} /\ take = Len(Rest)]

(* record_limit_error: past the last byte the record may have.             *)
RecordLimitError(w, e) == ErrorAt(w, e, "too large", Min({Len(w), e.location + format.limit + 1}))

(* oversized_record_error: that, unless the engine has another.            *)
Oversized(w, e) ==
    LET Judged(o) ==
            [engine |-> o.engine,
             error |-> Rebased(IF o.tag = "error" THEN o.error ELSE RecordLimitError(w, o.engine))]
    IN  Judged(AdvanceWindow(format, w, e, FALSE))

(* Mutant: what is pending goes to the loan, and the stream it is of is    *)
(* forgotten.                                                              *)
EnterBorrowedInPlace(e) ==
    LET parsed == Len(window) - Pending(e)
    IN  /\ engine' = ShiftWindow(window, Release(e), parsed)
        /\ UNCHANGED consumed
        /\ window' = <<>>
        /\ refused' = NO_REFUSAL
        /\ loan' = [loan EXCEPT !.absorbed = @ - Pending(e), !.borrowed = TRUE]

(* enter_borrowed: what is pending is a copy of what the loan holds.       *)
EnterBorrowed(e) ==
    LET parsed == Len(window) - Pending(e)
    IN  /\ engine' = ShiftWindow(window, Release(e), parsed)
        /\ consumed' = consumed + parsed
        /\ window' = <<>>
        /\ refused' = NO_REFUSAL
        /\ loan' = [loan EXCEPT !.absorbed = @ - Pending(e), !.borrowed = TRUE]

-----------------------------------------------------------------------------
(* The window can only be all that is left when the loan was drained into  *)
(* it; a borrowed loan is.                                                 *)
AtEnd == finished /\ (loan.borrowed \/ loan.absorbed = loan.len)

(* A window that was refused at this length holds no record still.         *)
RefusedBefore == ~loan.borrowed /\ ~AtEnd /\ Len(window) = refused

(* The owned calls read straight out of the loan, once the headers are     *)
(* settled.                                                                *)
Direct == loan.borrowed /\ call = "owned" /\ (headers_resolved \/ ~format.headers)

Pauses == PushReturn([tag |-> "pause"]) /\ UNCHANGED <<failed, next>>

(* There is a record: a line to be viewed, or it is parsed into the        *)
(* caller's storage, where its error is reported as it is.                 *)
Reports(o) ==
    LET Parsed(p) ==
            /\ engine' = p.engine
            /\ \/ p.tag = "error" /\ PushFail(p.error)
               \/ /\ p.tag = "record"
                  /\ PushReturn([tag |-> "record",
                             record |-> RebasedRecord([o.record EXCEPT !.end = p.engine.location])])
                  /\ next' = next + 1
                  /\ UNCHANGED failed
    IN  \/ /\ call = "line"
           /\ engine' = o.engine
           /\ PushReturn([tag |-> "line"])
           /\ next' = next + 1
           /\ UNCHANGED failed
        \/ /\ call = "owned"
           /\ Parsed(IF Direct THEN Record(o.engine, FALSE) ELSE RecordInto(format, Buffer, o.engine))

(* There is none in the window yet: it is left for the loan, or more of the*)
(* loan is copied into it.                                                 *)
GoesOn(e, refusal) ==
    LET Grown(more) ==
            /\ window' = more.window
            /\ loan' = more.loan
            /\ engine' = e
            /\ IF more.interior /\ ~finished
                 THEN Pauses /\ refused' = Len(more.window)
                 ELSE refused' = refusal /\ UNCHANGED <<call, answer, next, failed>>
        Overflows(o) == engine' = o.engine /\ PushFail(o.error)
        borrows == Pending(e) <= loan.absorbed
    IN  \/ /\ borrows
           /\ EnterBorrowed(e)
           /\ UNCHANGED <<call, answer, next, failed>>
        \/ /\ ~borrows /\ Rest = <<>>
           /\ Pauses
           /\ engine' = e
           /\ refused' = refusal
           /\ UNCHANGED <<window, consumed, loan>>
        \/ /\ ~borrows /\ Rest # <<>> /\ Room(e) = 0
           /\ Overflows(Oversized(window, e))
           /\ refused' = refusal
           /\ UNCHANGED <<window, consumed, loan>>
        \/ /\ ~borrows /\ Rest # <<>> /\ Room(e) > 0
           /\ Grown(Absorbed(e))
           /\ UNCHANGED consumed

(* advance_borrowed, next_borrowed_line and the owned calls, or one turn of*)
(* advance_absorbing: what the engine makes of the loan, or of the window. *)
PushScan ==
    LET Stays == UNCHANGED <<loan, window, consumed, refused>>
        Told(o) ==
            /\ headers_resolved' = (headers_resolved \/ o.tag \in {"record", "done"})
            /\ \/ o.tag = "record" /\ Reports(o) /\ Stays
               \/ o.tag = "error" /\ engine' = o.engine /\ PushFail(Rebased(o.error)) /\ Stays
               \/ o.tag \in {"done", "more"} /\ loan.borrowed
                  /\ engine' = o.engine /\ Pauses /\ Stays
               \/ /\ o.tag \in {"done", "more"} /\ ~loan.borrowed
                  /\ GoesOn(o.engine, IF o.tag = "more" /\ ~AtEnd THEN Len(window) ELSE refused)
        c == PastBom(Buffer)
    IN  /\ Looks(AtEnd)
        /\ Told(IF RefusedBefore THEN Answers(c, "more")
                ELSE IF Direct THEN ReadWindowOwned(format, Buffer, c, AtEnd)
                ELSE AdvanceWindow(format, Buffer, c, AtEnd))

-----------------------------------------------------------------------------
(* A view of the line next_line returned: it is parsed now, unless it was. *)
PushView ==
    LET Viewed(o) ==
            /\ engine' = o.engine
            /\ \/ o.tag = "error" /\ PushFail(Rebased(o.error))
               \/ /\ o.tag = "record"
                  /\ PushReturn([tag |-> "record",
                             record |-> RebasedRecord([start |-> o.engine.cursor_start,
                                                       end   |-> o.engine.cursor_end,
                                                       index |-> o.engine.cursor_index])])
                  /\ UNCHANGED <<failed, next>>
    IN  /\ call = "none" /\ answer.tag = "line"
        /\ Viewed(Materialize(format, Buffer, engine))
        /\ UNCHANGED <<arguments, fed, loan, window, consumed, finished, deferred,
                       bom_resolved, headers_resolved, refused>>

(* Mutant: what the caller has read is kept too, at the expense of the rest*)
SettleFromTheStart ==
    LET take == Min({Len(Rest), format.limit + 1})
    IN  /\ engine' = Release(engine)
        /\ window' = SubSeq(Rest, 1, take)
        /\ refused' = NO_REFUSAL
        /\ fed' = fed + loan.absorbed + take
        /\ UNCHANGED <<consumed, failed, deferred>>

(* settle: what the caller has not read goes to the window, as far as the  *)
(* record limit has room for it.                                           *)
SettleBorrowed ==
    LET e == Release(engine)
        anchor == WindowAnchor(e)
        take == Min({Len(Rest) - anchor, format.limit + 1})
    IN  /\ engine' = ShiftWindow(Rest, e, anchor)
        /\ consumed' = consumed + anchor
        /\ window' = SubSeq(Rest, anchor + 1, anchor + take)
        /\ refused' = NO_REFUSAL
        /\ fed' = fed + loan.absorbed + anchor + take
        /\ UNCHANGED <<failed, deferred>>

SettleAbsorbing ==
    LET take == IF failed THEN 0 ELSE Min({Len(Rest), Room(engine)})
        kept == window \o SubSeq(Rest, 1, take)
        left == ~failed /\ take < Len(Rest)
        Judged(o) == engine' = o.engine /\ deferred' = o.error
    IN  /\ window' = kept
        /\ fed' = fed + loan.absorbed + take
        /\ failed' = (failed \/ left)
        /\ Judged(IF left THEN Oversized(kept, engine) ELSE [engine |-> engine, error |-> deferred])
        /\ UNCHANGED <<consumed, refused>>

(* done(), or the chunk is dropped: the caller was told that there is      *)
(* nothing more, or of an error, or does not go on.                        *)
Done ==
    /\ loan.lent /\ call = "none"
    /\ answer.tag \in {"pause", "error"} \cup Abandons[format]
    /\ IF loan.borrowed THEN SettleBorrowed ELSE SettleAbsorbing
    /\ loan' = NoLoan
    /\ answer' = NoAnswer
    /\ UNCHANGED <<arguments, next, finished, bom_resolved, headers_resolved, call>>

(* reset: for an unrelated stream, here the same one.                      *)
Reset ==
    /\ ~loan.lent
    /\ fed' = 0 /\ next' = 1
    /\ window' = <<>>
    /\ refused' = NO_REFUSAL
    /\ engine' = NewEngine
    /\ consumed' = 0
    /\ finished' = FALSE /\ failed' = FALSE
    /\ deferred' = NoError
    /\ bom_resolved' = (format.bom = "preserve")
    /\ headers_resolved' = FALSE
    /\ UNCHANGED <<arguments, loan, call, answer>>
-----------------------------------------------------------------------------
PushStep == PushRefuse \/ PushRejectBom \/ PushScan

PushNext ==
    \/ \E n \in Sizes \cup {Len(stream) - fed} : Chunk(n)
    \/ Finish
    \/ \E reads \in Methods[format] : PushCall(reads)
    \/ PushStep
    \/ PushView
    \/ Done
    \/ Reset

PushSpec == PushInit /\ [][PushNext]_push_vars

-----------------------------------------------------------------------------
(* No byte is lost or kept twice where the window hands over to the loan   *)
(* and the loan to the window: what the engine looks at starts at byte     *)
(* `consumed` of the stream and goes on as far as the parser took it.      *)
BufferIsStream ==
    /\ Buffer = SubSeq(stream, consumed + 1, consumed + Len(Buffer))
    /\ consumed + Len(Buffer) = fed + (IF loan.borrowed THEN loan.len ELSE loan.absorbed)
    /\ loan.borrowed => window = <<>>

(* The same error, but that one of a record that is too long may be found  *)
(* before another in it or after it.                                       *)
SameError(a, b) == a = b \/ ("too large" \in {a.kind, b.kind} /\ a.record = b.record)

(* The line next_line moved to is the record that comes after those it told*)
(* of before.                                                              *)
LinesAreToldOnce ==
    (answer.tag = "line" /\ Outcomes[next - 1].tag = "record") =>
        consumed + engine.cursor_start = Outcomes[next - 1].record.start

(* Some callers stop before the end of a chunk.  Absorbing, what they have *)
(* not read of it counts as one record, however many it is, so that they   *)
(* may be told of one that is too long (push.rs:1138).                     *)
StopsEarly == Abandons[format] # {}
UnreadTooLarge(error) == StopsEarly /\ error.kind = "too large"

(* However the stream is cut, and wherever the caller stops reading its    *)
(* chunks, the records and the error are those of the whole stream parsed  *)
(* at once, and a pause after its end is its end.  The offset of an error  *)
(* is compared where lines are read; read_byte_record_into does not rebase *)
(* one that the engine meets after it has advanced in the window           *)
(* (push.rs:681).                                                          *)
PushedAsWhole ==
    /\ answer.tag = "record" => next > 1 /\ Outcomes[next - 1].tag = "record"
                                         /\ answer.record = Outcomes[next - 1].record
    /\ answer.tag = "line" => Outcomes[next - 1].tag # "done"
    /\ LinesAreToldOnce
    /\ (answer.tag = "pause" /\ finished /\ fed + loan.len = Len(stream)) => Expected.tag = "done"
    /\ (answer.tag = "error" /\ answer.error.kind # "failed" /\ ~UnreadTooLarge(answer.error)) =>
          /\ Expected.tag = "error"
          /\ SameError([answer.error EXCEPT !.byte = 0], [Expected.error EXCEPT !.byte = 0])
          /\ Methods[format] = {"line"} => SameError(answer.error, Expected.error)

(* Lines are counted once and only once as their bytes are dropped, and    *)
(* the tally the records keep is of the bytes it claims to cover.          *)
PushedLinesTallied ==
    /\ engine.line_base = 1 + Feeds(stream, 0, consumed)
    /\ engine.folded_lines = Feeds(Buffer, 0, engine.folded_upto)

(* Between chunks, what the caller has not read yet is at most a record and *)
(* the byte that shows it to be too long, wherever it stops reading its     *)
(* chunks; and when it reads them to their end, that is all there is. "Only *)
(* that record outlives the chunk it arrived in" (push.rs:35) does not hold *)
(* of a caller that stops early: absorbing, what it has read stays, and the *)
(* window grows with every chunk (push.rs:1110).                           *)
KeepsARecord ==
    ~loan.lent => /\ Len(window) - engine.location <= format.limit + 1
                  /\ ~StopsEarly => Len(window) <= format.limit + 1

(* A record that is whole in what was lent is reported before the parser   *)
(* pauses: neither the length it was refused at, nor an absorbed chunk that*)
(* held no record ending, nor a checkpoint hides it.                       *)
PromptlyTold ==
    (answer.tag = "pause" /\ Expected.tag = "record") =>
        \/ Expected.record.end > fed + loan.len
        \/ Expected.record.end = fed + loan.len /\ ~Expected.terminated

(* done(): a chunk that was read to its end is taken whole, except when a  *)
(* record hits the limit.                                                  *)
DrainedIsTaken ==
    [][Done /\ answer.tag = "pause" =>
          \/ fed' = fed + loan.len
          \/ Expected.tag = "error" /\ Expected.error.kind = "too large"]_push_vars
=============================================================================
