------------------------------ MODULE CsvIndex ------------------------------
(***************************************************************************)
(* An index kept beside a CSV file: CsvIndex builds it in memory, save and *)
(* create write it, generate writes it along with the CSV file itself,     *)
(* load and CsvIndexReader read it back, and parser_at seeks with it       *)
(* (index/csv_index.rs, csv_index_reader.rs, format.rs, generate.rs).      *)
(* Any write may fail and the process may die between any two, leaving a   *)
(* torn index; the CSV file may be replaced at any time, leaving a stale   *)
(* one.  One process at a time uses the index file.                        *)
(*                                                                         *)
(* The index file is a sequence of cells: two for the fixed header, which  *)
(* a torn write may separate, one for each record and one for each of the  *)
(* two checksums, which are as wide as a record's cell.  Checksums and the *)
(* identity of a CSV file are collision-free: they are what they are of.   *)
(***************************************************************************)
EXTENDS IndexBuild

CONSTANTS
    Buffered,       \* EmitOptions::capacity, in bytes
    MaxCells,       \* bound: an index longer than this is not rewritten in place
    MaxBeside       \* bound: nor is there a longer one while a build, which
                    \* does not touch it, is under way

ASSUME BufferedAssumption == Buffered \in Nat \ {0}
ASSUME BoundsAssumption == {MaxCells, MaxBeside} \subseteq Nat

VARIABLES
    source,         \* the CSV file
    file,           \* the index file
    plan,           \* the writes to the index file still to be made, in order
    task,           \* what is being done, and of which document
    completed,      \* the document whose index file is complete, as the last
                    \* writer was told, until the file is touched again
    memory          \* a CsvIndex, or none

store == <<source, file, plan, task, completed, memory>>
vars == <<build, store>>

NoIndex == [kind |-> "none"]
Index(d, starts) == [kind |-> "index", of |-> d, starts |-> starts]
NoSource == [kind |-> "none"]
Of(d) == [kind |-> "source", of |-> d]
Idle == [doing |-> "nothing"]

-----------------------------------------------------------------------------
(* The cells, and the two halves of encode_header.                         *)
Zeroed == [cell |-> "identity", identity |-> <<>>]
Identifies(d) == [cell |-> "identity", identity |-> <<d>>]
Counts(n) == [cell |-> "count", count |-> n]
Entry(offset) == [cell |-> "entry", entry |-> offset]
EntriesSum(offsets) == [cell |-> "entriesSum", sum |-> offsets]
HeaderSum(front, count) == [cell |-> "headerSum", header |-> <<front, count>>]
HeaderCells == 2
TrailerCells == 2

EntryCells(offsets) == [i \in DOMAIN offsets |-> Entry(offsets[i])]

(* A write at a place of the file, or at its end wherever that is then.    *)
AtEnd == 0
At(place, cells) == [i \in DOMAIN cells |-> [at |-> place + i - 1, cell |-> cells[i]]]
Appended(cells) == [i \in DOMAIN cells |-> [at |-> AtEnd, cell |-> cells[i]]]

Header(d, n) == <<Identifies(d), Counts(n)>>
Trailers(d, offsets) ==
    <<EntriesSum(offsets), HeaderSum(Identifies(d), Counts(Len(offsets)))>>

(* save: header, entries and checksums, from the first byte to the last.   *)
SavePlan(index) ==
    At(1, Header(index.of, Len(index.starts)) \o EntryCells(index.starts)
            \o Trailers(index.of, index.starts))

(* Mutation of StreamPlan: the header there was stays until there is a new *)
(* one.                                                                    *)
StreamPlanKeepsHeader(offsets) == At(HeaderCells + 1, EntryCells(offsets))

(* create: a header of zeros, and the entries as they come.                *)
StreamPlan(offsets) == At(1, <<Zeroed, Counts(0)>> \o EntryCells(offsets))

(* create and generate, once all entries are out: back to the start for    *)
(* the real header, then to the end for the checksums.                     *)
ClosingPlan(d, offsets) ==
    At(1, Header(d, Len(offsets))) \o Appended(Trailers(d, offsets))

Put(cells, write) ==
    IF write.at = AtEnd \/ write.at > Len(cells) THEN Append(cells, write.cell)
    ELSE [cells EXCEPT ![write.at] = write.cell]

-----------------------------------------------------------------------------
(* decode_header, and the length that new and decode_reader demand.        *)
HasHeader(cells) ==
    /\ Len(cells) >= HeaderCells
    /\ cells[1].cell = "identity" /\ cells[1].identity # <<>>
    /\ cells[2].cell = "count"
Stored(cells) == cells[1].identity[1]
Count(cells) == cells[2].count

(* CsvIndexReader::new.                                                    *)
Opens(cells) ==
    HasHeader(cells) /\ Len(cells) = HeaderCells + Count(cells) + TrailerCells

(* CsvIndexReader::entry, a position that a cell which is no entry does    *)
(* not pass for.                                                           *)
Plausible(cells, r) ==
    LET cell == cells[HeaderCells + r]
    IN  cell.cell = "entry" /\ cell.entry < Stored(cells).length
StoredStarts(cells) == [r \in 1..Count(cells) |-> cells[HeaderCells + r].entry]

(* Mutation of Verifies: an index that counts no record is not looked at.  *)
VerifiesUnlessEmpty(cells) ==
    \/ Count(cells) = 0
    \/ /\ \A r \in 1..Count(cells) : cells[HeaderCells + r].cell = "entry"
       /\ cells[Len(cells) - 1] = EntriesSum(StoredStarts(cells))
       /\ cells[Len(cells)] = HeaderSum(cells[1], cells[2])

(* CsvIndexReader::verify: both checksums, over the cells as they stand.   *)
Verifies(cells) ==
    /\ \A r \in 1..Count(cells) : cells[HeaderCells + r].cell = "entry"
    /\ cells[Len(cells) - 1] = EntriesSum(StoredStarts(cells))
    /\ cells[Len(cells)] = HeaderSum(cells[1], cells[2])

(* decode_reader: the header, the length, each entry and both checksums.   *)
Loads(cells) ==
    /\ Opens(cells)
    /\ \A r \in 1..Count(cells) :
          /\ Plausible(cells, r)
          /\ r > 1 => cells[HeaderCells + r].entry > cells[HeaderCells + r - 1].entry
    /\ Verifies(cells)

(* Mutation of ValidatesSource: the lengths are compared.                  *)
ValidatesLength(identity, d) == identity.length = d.length

(* validate_source and validate_reader.                                    *)
ValidatesSource(identity, d) == identity = d

-----------------------------------------------------------------------------
Init ==
    /\ InitBuild
    /\ source \in Sources
    /\ file = <<>>
    /\ plan = <<>>
    /\ task = Idle
    /\ completed = NoSource
    /\ memory = NoIndex

(* The CSV file is replaced.  A call under way reads the one it opened.    *)
Replace(d) ==
    /\ task.doing = "nothing"
    /\ source' = d
    /\ UNCHANGED <<build, file, plan, task, completed, memory>>

(* CsvIndex::build of the CSV file as it is now.                           *)
Build ==
    /\ task.doing = "nothing"
    /\ Len(file) <= MaxBeside
    /\ Spawn(source)
    /\ task' = [doing |-> "build"]
    /\ memory' = NoIndex
    /\ UNCHANGED <<source, file, plan, completed>>

BuildStep(w) ==
    /\ task.doing = "build"
    /\ Work(w)
    /\ UNCHANGED store

Join ==
    /\ task.doing = "build"
    /\ Gather \/ Merge
    /\ UNCHANGED store

(* from_positions, when there are any.                                     *)
Built ==
    /\ task.doing = "build" /\ outcome.state \in {"ok", "err"}
    /\ task' = Idle
    /\ memory' = IF outcome.state = "ok" THEN Index(doc, outcome.starts) ELSE NoIndex
    /\ Dismiss
    /\ UNCHANGED <<source, file, plan, completed>>

(* CsvIndex::save: File::create truncates what there was.                  *)
Save ==
    /\ task.doing = "nothing" /\ memory # NoIndex
    /\ file' = <<>>
    /\ plan' = SavePlan(memory)
    /\ task' = [doing |-> "save", of |-> memory.of]
    /\ completed' = NoSource
    /\ UNCHANGED <<build, source, memory>>

(* create and generate start over what there is, create_path and           *)
(* generate_path over nothing.                                             *)
Restarts ==
    /\ task.doing = "nothing"
    /\ file' \in {file, <<>>}
    /\ Len(file') <= MaxCells
    /\ completed' = NoSource
    /\ UNCHANGED <<build, memory>>

(* CsvIndex::create.  A record that does not parse ends it, which leaves   *)
(* what was buffered to be written.                                        *)
Create ==
    /\ Restarts
    /\ LET valid == SubSeq(source.starts, 1, Min({Len(source.starts) + 1} \cup source.failing) - 1)
       IN  IF source.failing = {}
             THEN /\ plan' = StreamPlan(valid) \o ClosingPlan(source, valid)
                  /\ task' = [doing |-> "create", of |-> source]
             ELSE /\ plan' = StreamPlan(valid)
                  /\ task' = [doing |-> "abandon"]
    /\ UNCHANGED source

(* A document once its first k records are written: what precedes them is  *)
(* a byte-order mark.                                                      *)
Upto(d, k) ==
    [length  |-> IF k < Len(d.starts) THEN d.starts[k + 1] ELSE d.length,
     starts  |-> SubSeq(d.starts, 1, k),
     failing |-> {}]

(* CsvIndex::generate of the document d, up to its first record.           *)
Generate(d, headers) ==
    /\ Restarts
    /\ d.failing = {}
    /\ source' = Upto(d, 0)
    /\ plan' = StreamPlan(<<>>)
    /\ task' = [doing |-> "generate", of |-> d, headers |-> headers, starts |-> <<>>,
                flushed |-> source'.length, buffered |-> 0]

(* Mutation of GenerateRecord: the position is taken after a flush that    *)
(* the record itself brought about.                                        *)
GenerateRecordLate ==
    /\ task.doing = "generate" /\ Len(task.starts) < Len(task.of.starts)
    /\ LET k        == Len(task.starts) + 1
           start    == task.buffered
           appended == start + Upto(task.of, k).length - Upto(task.of, k - 1).length
           flushes  == ~(task.headers /\ k = 1) /\ appended >= Buffered
           sunk     == IF flushes THEN task.flushed + appended ELSE task.flushed
       IN  /\ plan' = plan \o At(HeaderCells + k, <<Entry(sunk + start)>>)
           /\ source' = IF flushes THEN Upto(task.of, k) ELSE source
           /\ task' = [task EXCEPT !.starts = Append(@, sunk + start),
                                   !.flushed = sunk,
                                   !.buffered = IF flushes THEN 0 ELSE appended]
    /\ UNCHANGED <<build, file, completed, memory>>

(* generate, the loop's body: the record is put into the buffer and its    *)
(* entry into the index, then the buffer is written out if it has become   *)
(* full, which after the header row is not asked.                          *)
GenerateRecord ==
    /\ task.doing = "generate" /\ Len(task.starts) < Len(task.of.starts)
    /\ LET k        == Len(task.starts) + 1
           offset   == task.flushed + task.buffered
           appended == task.buffered + Upto(task.of, k).length - Upto(task.of, k - 1).length
           flushes  == ~(task.headers /\ k = 1) /\ appended >= Buffered
       IN  /\ plan' = plan \o At(HeaderCells + k, <<Entry(offset)>>)
           /\ source' = IF flushes THEN Upto(task.of, k) ELSE source
           /\ task' = [task EXCEPT !.starts = Append(@, offset),
                                   !.flushed = IF flushes THEN @ + appended ELSE @,
                                   !.buffered = IF flushes THEN 0 ELSE appended]
    /\ UNCHANGED <<build, file, completed, memory>>

(* A value that does not encode to one record, or a CSV file that cannot   *)
(* be written; what was not written out of it is lost.                     *)
GenerateFails ==
    /\ task.doing = "generate"
    /\ task' = [doing |-> "abandon"]
    /\ UNCHANGED <<build, source, file, plan, completed, memory>>

(* generate, behind the loop: the rest of the CSV file, then the index's   *)
(* header and checksums.                                                   *)
Generated ==
    /\ task.doing = "generate" /\ Len(task.starts) = Len(task.of.starts)
    /\ source' = task.of
    /\ plan' = plan \o ClosingPlan(task.of, task.starts)
    /\ task' = [doing |-> "create", of |-> task.of]
    /\ UNCHANGED <<build, file, completed, memory>>

(* The next write reaches the index file.                                  *)
Write ==
    /\ plan # <<>>
    /\ file' = Put(file, Head(plan))
    /\ plan' = Tail(plan)
    /\ UNCHANGED <<build, source, task, completed, memory>>

(* Mutation of Finish: create does not open what it has written.           *)
FinishUnopened ==
    /\ task.doing \in {"save", "create", "abandon"}
    /\ plan = <<>>
    /\ completed' = IF task.doing = "abandon" THEN NoSource ELSE Of(task.of)
    /\ task' = Idle
    /\ UNCHANGED <<build, source, file, plan, memory>>

(* The last of the writes was made.  create and generate end by opening    *)
(* what they wrote, and may fail at that.                                  *)
Finish ==
    /\ task.doing \in {"save", "create", "abandon"}
    /\ plan = <<>>
    /\ completed' = IF \/ task.doing = "save"
                       \/ task.doing = "create" /\ Opens(file)
                      THEN Of(task.of) ELSE NoSource
    /\ task' = Idle
    /\ UNCHANGED <<build, source, file, plan, memory>>

(* A write to the index fails, and the call with it.                       *)
Fail ==
    /\ plan # <<>>
    /\ plan' = <<>>
    /\ task' = Idle
    /\ UNCHANGED <<build, source, file, completed, memory>>

(* The process dies, and another one starts.                               *)
Crash ==
    /\ task.doing # "nothing"
    /\ plan' = <<>>
    /\ task' = Idle
    /\ memory' = NoIndex
    /\ Dismiss
    /\ UNCHANGED <<source, file, completed>>

(* CsvIndex::load.                                                         *)
Load ==
    /\ task.doing = "nothing"
    /\ memory' = IF Loads(file) THEN Index(Stored(file), StoredStarts(file)) ELSE NoIndex
    /\ UNCHANGED <<build, source, file, plan, task, completed>>

Next ==
    \/ \E d \in Sources : Replace(d)
    \/ Build
    \/ \E w \in Workers : BuildStep(w)
    \/ Join
    \/ Built
    \/ Save
    \/ Create
    \/ \E d \in Sources, headers \in BOOLEAN : Generate(d, headers)
    \/ GenerateRecord
    \/ GenerateFails
    \/ Generated
    \/ Write
    \/ Finish
    \/ Fail
    \/ Crash
    \/ Load

(* The workers of a build keep being scheduled, and the caller that waits  *)
(* for them.                                                               *)
Spec ==
    /\ Init /\ [][Next]_vars
    /\ \A w \in Workers : WF_vars(BuildStep(w))
    /\ WF_vars(Join)
    /\ WF_vars(Built)

-----------------------------------------------------------------------------
(* "The index is bound to the exact bytes it was built from" (csv_index.rs,*)
(* CsvIndex): whatever was torn, failed or written over a longer index,    *)
(* one that is in memory, loads, or opens and verifies holds the position  *)
(* of every record of the document it identifies.                          *)
IndexDescribesItsSource ==
    /\ memory # NoIndex => memory.of.failing = {} /\ memory.starts = memory.of.starts
    /\ Loads(file) \/ (Opens(file) /\ Verifies(file)) =>
          Stored(file).failing = {} /\ StoredStarts(file) = Stored(file).starts

(* parser_at and bind, and a reader that has not verified its index: with  *)
(* the CSV file's identity validated a seek goes to the record asked for,  *)
(* whenever the CSV file was replaced and wherever the index was torn.     *)
SeeksFindTheirRecords ==
    /\ memory # NoIndex /\ ValidatesSource(memory.of, source) =>
          memory.starts = source.starts
    /\ Opens(file) /\ ValidatesSource(Stored(file), source) =>
          \A r \in 1..Count(file) : Plausible(file, r) =>
              /\ r \in DOMAIN source.starts
              /\ file[HeaderCells + r].entry = source.starts[r]

(* An index that save, create or generate returned Ok for loads, as the    *)
(* index of the document it was made from: generate's is "what indexing    *)
(* the generated document afterwards would have produced".                 *)
CompletedLoads ==
    completed # NoSource => Loads(file) /\ Stored(file) = completed.of

(* A build comes back, whichever chunks fail and are passed over.          *)
BuildReturns == (task.doing = "build") ~> (task.doing # "build")
=============================================================================
