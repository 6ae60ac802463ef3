# coseva in TLA+

coseva is a Rust library that reads and writes CSV and its relatives: a
parsing engine with several front ends (slice, reader, pushed chunks, parallel),
an emitter with several sinks, an index, and typed access to records. This
directory holds a TLA+ model of the parts in which the order of steps matters,
the TLC configurations that check it on small instances, and TLAPS proofs of
the results that do not depend on the size of the instance. Paths below are
relative to the root of the repository, without the `src/` the map in
`PROJECT.json` puts in front of them; `parallel.rs` and its like are under
`crates/coseva/src/`.

Run it with

    tlc -workers 2 -config UnorderedParse.cfg MCParallelUnordered
    tlapm SplitProofs.tla

and likewise for the rows of the tables below.

## 1. Inventory

For each component: the state it keeps, its operations, how it interacts, what
is hard about it and what makes it correct. "Modelled" says where it is found.

| Component | State | Operations and interactions | Hard behaviour | Correct when | Modelled |
|---|---|---|---|---|---|
| Chunk splitter (`parallel/split.rs`) | quote parity, line, record index, next target, boundaries found | `boundaries`, called once by both drivers and the index build before any worker exists | it does not parse: it counts quotes, and has to agree with a parser that knows fields | every boundary is a record start of the parser, line and record index included | `Split` |
| Unordered driver (`parallel/unordered.rs`) | chunk cursor and failure barrier (atomics), one parser, accumulator and failure per worker | `fold`, `for_each_record`: workers claim chunks, seek, fold; the caller joins | a relaxed barrier, abandoned chunks, several failures at once | no record twice, nothing before the serial failure lost, that failure's offset reported | `ParallelUnordered` |
| Ordered driver (`parallel.rs`) | per worker a bounded queue of full batches, one of batches handed back, a pool of record buffers; the chunk the caller is draining | `for_each_batch`, `byte_records`: chunks are dealt to the workers round-robin, workers fill batches, the caller drains chunk after chunk | back-pressure, recycling, a consumer that refuses while workers block on a full queue | the consumer sees a prefix of a serial parse, and its outcome | `ParallelOrdered` refining `SerialParse` |
| Parallel configuration (`check_splittable`, `prepare`) | none | refuses formats that cannot be split; discovers headers and width before the workers start | what it lets through decides whether the splitter is right | every format let through splits correctly | the formats of `Split` |
| `IoEmitter` and its core (`io_emitter.rs`, `push_emitter.rs`) | buffer, failure latch, byte-order mark, learned field count, header state | emit, encode, serialize, flush, `into_inner`, drop, `append_path`; writes to a sink that may fail part-way | partial writes, rejection after part of a record is encoded, drop after failure, resuming a file left by a lost process | sink plus buffer are the document; one mark, one header, one width | `Emitter` |
| Engine (`engine.rs`, `engine/cursor.rs`, `engine/framing.rs`, `engine/headers.rs`) | cursor, line tally, record index, checkpoint of an unfinished record or comment, headers, learned width, poisoned flag | advance over a window lazily, eagerly or into owned storage, settle, materialize, header discovery, shift, reset; used by every front end | resumption after more input, an attempt undone, offsets that move with the window, errors that more input could undo | any cutting into windows gives the records and errors of the whole input | `Engine` over `Grammar` |
| Kernels (`borrowed_parser.rs`, `owned_parser.rs`, `record_parser.rs`) | position in a record; what quotes the last records had, which chooses the parser of the next | scan one record into spans or owned storage; decline | many implementations of one grammar, chosen by configuration and by history | all agree with the general parser, limits included | `Kernels` refining `GeneralParse` |
| Field encoding (`emit.rs`, `vec_emitter.rs`) | none | quoting, escaping, NULLs and framing of one record | a field that would not parse back | parse of emit is the identity | `Encoding` |
| `IoParser` (`io_parser.rs`) | window over a reader, bytes dropped, end-of-file flag, latched error, how far the filter has searched | `next_line`, views, `read_byte_record_into`, `next_matching_line`, refill, compact, seek, rewind | short reads, failed reads, a line left unread, a seek from any state | equals a slice parse of the whole input; holds two records | `IoParser` |
| `PushParser` (`push.rs`) | the chunk on loan, window of a record that a chunk cut, a refused length, a deferred error | `chunk`, `next_line`, owned reads, `done`, `finish`, `reset` | a chunk that ends anywhere, chunks borrowed and absorbed, a chunk dropped half read | the same; holds one record between chunks | `PushParser` |
| `SliceParser`, lines, iterators | the engine | thin front ends; the drivers use seek, `next_line`, `record` | a line left unread | a line skipped or read moves the cursor alike | `SliceParser`, the reference of both streaming parsers |
| Filter (`filter.rs`, `engine/scanner.rs`) | literal, how far it was searched for, how long to leave it | skip records that cannot match before parsing them | a literal across a record boundary, a window that moves | accepts what a full scan accepts | in `IoParser` |
| Index (`index/`) | record positions, fingerprint of the file; the index file | build serially or by workers, save, create, generate beside a document, load, open, verify, seek | an index older than its file, one cut short, one written over a longer one | a seek lands on the record asked for, or is refused | `IndexBuild`, `CsvIndex`, `RecordScan` |
| Generation (`generate.rs`) | none of its own | whole documents through the emitters | uses `append_path`'s resuming state | as the emitter | through `Emitter`; with an index, in `CsvIndex` |
| Records, projection, typed access | one record | sequential data structures | none that steps interleave | encode then decode is the identity | no |
| Serde (`serde/`) | `StructCache`: validated header names, the columns a struct ignores, learned from one record and skipped in the next | deserialize a line to a struct, a map or a tuple; headers read, set, reset; serialize | what one struct taught applied to another, under other headers, or after a failure | a record comes to what it would with nothing learned | `StructCache` (the serializer: no) |
| Configuration, formats, errors | none | validation | conflicting options | what is let through is parseable | the parts that decide the formats above |
| `coseva_unsafe` | memory | storage and vector search | layout | checked by Miri and bounded proofs in the repository | no |
| Derive macros | none | code generation | none at run time | | no |

`PROJECT.json` lists the hazards, each at its line, with the properties that
guard against it.

## 2. Modules

```
ParallelDocument          what both drivers are handed
  |-- ParallelUnordered   fold, for_each_record         <- MCParallelUnordered
  |     `-- ParallelUnorderedProofs       (over Arithmetic)
  |-- SerialParse         the promise: one thread's parse
  `-- ParallelOrdered     for_each_batch, byte_records  <- MCParallelOrdered
        |                 (implements SerialParse)
        `-- ParallelOrderedProofs         (over Arithmetic)
Grammar                   what a record is, byte by byte
  |-- Split               boundaries() beside the parser <- MCSplit
  |     `-- SplitProofs
  `-- Engine              windows, rewinds, checkpoints  <- MCFormats: formats, documents
        `-- SliceParser   the whole input at once
              `-- Streaming   a window of the stream, a call and its answer
                    |-- IoParser    over a reader       <- MCIoParser
                    |-- PushParser  lent chunks         <- MCPushParser
                    `-- StreamingProofs, of both      (over Arithmetic)
FieldParsing              what the fields of a record are
  |-- GeneralParse        the promise: the general parser, record after record
  |-- Kernels             the parsers tried before it    <- MCKernels
  |                       (implements GeneralParse)
  `-- Encoding            how a record is written        <- MCKernels
        `-- RecordScan    and confirmed by its bytes     <- MCKernels
IndexBuild                CsvIndex::build by workers
  `-- CsvIndex            the index file beside its CSV file <- MCCsvIndex
        `-- IndexProofs               (over Arithmetic)
Emitter                   IoEmitter over its encoding core
  `-- EmitterProofs                       (over Arithmetic)
StructCache               deserializing lines            <- MCStructCache
  `-- StructCacheProofs                 (over Arithmetic)
```

The splitter and the drivers meet in `WellFormed`: a document of `ParallelDocument`
is cut at record starts, the first of them the start of the document, each later
than the last and before the end. That is what `Split` is checked and proved to
deliver (`BoundariesAreRecordStarts`, `ChunksAreNotEmpty`), so the drivers, and the
workers of `IndexBuild`, take it as their assumption.

### ParallelDocument

Bytes are abstracted to records. A record fares in one of four ways: it parses
and the closure accepts it, the closure refuses it, the kernel refuses it inside,
or it has the wrong number of fields, which the parser notices at its end. The
last three are distinct because their errors carry different offsets
(`FailureOffset`), and offsets are what the barrier compares.

### ParallelUnordered

One action per step a worker can be interrupted after: `Build`, `Claim`
(`fetch_add`), `ReadRecord`, `ReadFailure`, `ReadNothing` (`next_line` and
`record`), `Check` (the relaxed load), `Fold` (the closure), `Fence`
(`fetch_min`); the caller's are `Join`, in spawn order, and `Return`. Reading the barrier and
folding are two actions because nothing in `parse_chunk` makes them one. A
relaxed load may return any value of the barrier's modification order not older
than the one this thread saw last; the barrier only falls, so that order is
`published` from above, and `seen` is what the thread saw last.

### SerialParse and ParallelOrdered

`SerialParse` is what a caller of `for_each_batch` is promised: one cursor that
delivers records in order and stops at the first that fails or is refused. It has
four variables and four actions, and leaves open where batches are cut.
`ParallelOrdered` has the workers (`Build`, `ReadRecord`, `ReadFailure`,
`ReadNothing`, `SendBatch`, `Reuse`, `SendDone`, `SendFailed`), the two bounded
queues of each, and the caller's drain (`Receive`, `Accept`, `Refuse`, `Drained`)
and `Return`. It implements `SerialParse` with the document, what has been
delivered, the outcome and the failing record mapped to themselves. A send waits for
room in the queue and fails once the receiver is gone; a receive waits for a message and
fails once the sender is gone, as `std::sync::mpsc` does. Cancellation is nothing
but the receivers being dropped: a worker learns of it at its next send.

### Split

`boundaries` and the parser run over the same bytes, one byte per step, each
with its own variables. A byte is chosen when it is read, so a run of TLC covers
every document up to its length. The parser's half is the grammar of the
borrowed kernel reduced to what decides where a record ends: whether a quote opens,
doubles or closes, what may follow a closing quote, which bytes end a record, and
when it gives up. It may also refuse a record for a limit it has outgrown. The
block scan (64 bytes at a time, carrying quote parity) is abstracted to the
bytes it yields.

### Grammar, Engine and SliceParser

`Grammar` is what the parser is in the middle of after each byte; `Split` and
`Engine` share it. A document is a sequence of bytes of a handful of classes
(`other`, `delim`, `quote`, `esc`, `cr`, `lf`, `hash`, and the three of a byte-order mark).

`Engine` has no variables: the engine is a record, and each operation of
`engine/cursor.rs` is a function of the format, the window and that record, named as
in the source. `ParseRecord` reads a record to its end or to the window's;
`TryWindow` is an attempt on a window that may end anywhere, `RestoreCursor` and
`RestoreChunkCursor` undo one, `LacksScan` is the boundary scan that a checkpoint
resumes, `Anchor` and `ShiftWindow` are compaction. The model keeps what the code
keeps apart, because that is where it could go wrong: which of location, record index,
width, tally and cursor an undo puts back, what a checkpoint survives, when an error is
one that more input could undo.

`SliceParse` is the same engine over a window that is the whole stream, where nothing is
ever asked for, undone or moved, and is what both streaming parsers have to agree with.

### IoParser

The loop around the engine. A call is several steps: `Call`, then `EnsureHeaders`
and `Scan` as often as they ask for more, a `Refill` between two of them, and its answer.
`View` is the parse of a line by its view, which a caller may leave out. A read returns one of
`Reads` many bytes, or what is left, or fails. Interrupted reads are retried inside `refill` and
change nothing, so they have no step. `ResolveBom` comes first and waits for three bytes; a mark
that is rejected is reported by `RejectBom` where headers are looked for or records
read into the caller's storage, and by a `View`.

`Rewind` goes to the start. `Seek` goes to any record of the stream, whatever the
parser has read: it is a call of several steps too, which looks for the headers like any other and,
while the width that later records are held to is not known, advances to the next record
(`Scan`) and reads it (`ReadFirst`) before the reader is moved (`Move`), which may fail
(`MoveFails`) with that record read and gone. `Settled` is what allows a seek after a failure.

`next_matching_line` turns through `SkipToCandidate`, `Scan` and `Look` until a record
matches: the search for the literal skips whole records without parsing them,
remembers how far it came (`scanned_to`, in the stream, while the window moves) and leaves
the next records alone after a search that came to nothing (`backoff`). Which outcome a call
has to come to, `NextSought`, is computed from the reference when it is made.

### PushParser

The caller lends a chunk (`Chunk`), calls, and gives it back read or unread (`Done`). As long
as the window is empty the engine looks at the chunk itself (`borrowed`); a record that a
chunk cuts is settled into the window, the next chunk is absorbed into it up to the next
record ending a stride at a time, and once what is pending is a copy of what the loan still
holds, the parser goes back to borrowing and gives the copy up (`EnterBorrowed`). `PushScan` is
one turn of that loop. `refused` is the length at which the window held no record;
`interior` a chunk that was absorbed without a record ending in it; `Oversized` the record
limit, which ends a stream that has no record endings. A failure of the settling is deferred
to the next call. `Finish` may come before the last chunk or after it, and `Reset` begins the
stream again. An operation that `IoParser` has too has `Push` in front of its name
(`PushCall`, `PushView`).

### FieldParsing, GeneralParse and Kernels

`FieldParsing` has one record at the level of its fields: their text, whether they are NULL,
where the record ends and every error with its place, with the limits on a record, a field and
the number of fields, for each escape, NULL convention, record ending and relaxation. It is
`parse_record_fields`, the loop that knows nothing of the parsers tried before it.
`GeneralParse` is that loop as a state machine: record after record, each parsed generally.

`Kernels` is how a record is really read. The borrowed reader tries the packed and the plain
kernel and `finish_plain_record`'s check of CRLF; the owned readers try the structural kernel,
the scalar parsers, which may stop at a quote and hand the rest over, and the plain kernel,
which may bail at a quote and be resumed; all of them may decline and leave the record to the
general loop from where they stand. Which is tried depends on the configuration and on
`prediction`, what the records before taught the engine about quotes. Vector instructions are
modelled by the record they find. `Kernels` implements `GeneralParse` with its variables mapped
to themselves: `OnlyAnOptimization`.

### Encoding

What `emit.rs` writes for one record under each policy of `Quoting` but `Raw`: what needs
quotes, what is escaped in and out of them, how NULLs and texts that look like one are written,
which policies a format may have (`Valid`), and what `Never` refuses. It shares the
configuration with `FieldParsing`, so that every record a run of `Kernels` reads can be written
and read again.

### RecordScan

`CsvIndex::generate` indexes records as it writes them, and each has to be one record to a parser
too. `Scan` is `FastValidator`: it runs over the bytes of the encoded record, taking the writer's
word for what is quoted or escaped, and confirms, refuses or gives up. `Reparse` is the parser it
stands for (`RecordValidator`). Arguments rather than state: the limits, whether blank lines are
skipped, and the width that the validator's parser carries from record to record.
`ConfirmedIsOneRecord` compares the two on what `Encoding` writes.

### IndexBuild and CsvIndex

`IndexBuild` is `CsvIndex::build`: workers claim chunks, pass over those at or past a published
failure (a relaxed load), parse the others whole, and the caller gathers. `CsvIndex` puts the
index file beside it. The file is a sequence of cells, and every call that writes it is a `plan`
of writes carried out one at a time, any of which may fail or be the process's last: `Save`
truncates first, `Create` and `Generate` put a header of zeros over whatever was there and the
real one last. `Generate` writes the CSV file through a buffer at the same time. `Replace` is
somebody else writing the CSV file. `Load` and the reader's `Opens`, `Verifies` and `Plausible`
are predicates on the cells. Checksums and fingerprints are taken to be collision-free.

### Emitter

What is written is abstracted to pieces: a record is two of them, three when a
quoted field spans lines, the byte-order mark two. A piece knows whether its
record ends with it (`last`) and whether it reads as a record ending (`ends`); a
line break in a quoted field has the second and not the first. `Emit`, `Reject`,
`SerializeFirst`, `Flush`, `IntoInner`, `Drop`, `Abandon` and
`AppendPath` are the operations a caller has. A drain confirms any number of
pieces; fewer than all is the failure that is latched. A process that dies is
`Abandon`: what the sink had confirmed is kept, the buffer is lost; dying within a
drain is a failing drain followed by `Abandon`. `accepted` is the record of what
was accepted, from which `Document` computes what the file should hold without
looking at the buffer.

### StructCache

The cache is a record and each method of it a function, named as in the source: `Sync`,
`BeginStruct`, `NoteIgnored`, `Commit`, `Reset`. A struct is what serde's derive makes of it, a
function from column names to what its visitor does with such a column. `Outcome` is the walk
of `MapDeserializer` over the columns that are not skipped: the value, or the first refusal. It is
defined by the sets of columns offered, refused and filled, not by recursion, so that it can be
proved about. `Deserialize` is the whole of `deserialized_line`, and beside it are the
operations after which the cache has to notice that headers have changed: `Discover`,
`RestoreCursor`, `ResetHeaders`, `SetHeaders`, `ResetFor`. A tuple (`DeserializePositionally`)
takes no names and still commits. A line can be deserialized again after it has failed, and a slice
parser goes on with the next, so failures come at every place.

## 3. Runs

| Run | Configuration | Instance | States | Shows |
|---|---|---|---|---|
| unordered_parse | `UnorderedParse` | 3 workers, every document of up to 3 records in every cutting, up to 2 failing in any way, builds may fail | 103,190 | no record folded twice, the serial prefix folded, the serial offset reported, the call returns |
| ordered_parse | `OrderedParse` | 2 workers, batches of 2, queues of 1, every document of up to 5 records, up to 2 failing, builds may fail; one chunk of 8 records | 143,166 | refinement of `SerialParse`, prefix and outcome; a worker owns no more record buffers than its queue, the batch consumed and the batch filled can hold; one whose consumer has gone enters no further chunk; the call returns |
| split_boundaries | `SplitBoundaries` | every document of up to 6 bytes, every format whose ending is not also padding, up to 3 chunks | 1,189,940 | boundaries are record starts; chunks are not empty |
| io_safety | `IoSafety` | 9 formats, documents of up to 6 bytes (7 where a filter is at work, 5 where a mark is rejected), reads of 1 or 4 bytes that may fail, one seek or rewind | 601,772 | the records, offsets, numbers and errors of a parse of the whole stream, filtered or not; the lines counted once; nothing held back, nothing kept too long; every call returns |
| io_owned_escapes | `IoOwnedEscapes` | the format with escapes, read into owned storage | | **violation**: an escaped line feed at the window's end is taken for the record's end |
| push_parse | `PushParse` | four of these formats, two with byte-order marks and two with a record limit, documents of up to 6 bytes, chunks of 1, 3 or all bytes, given back anywhere | 769,307 | the same of chunks; no more than a record unread between two, nor kept if they are read to their end; no chunk that was read to its end left behind |
| kernels_optimization | `KernelsOptimization` | 13 configurations, documents of two or three records; endings that a block cuts, for the borrowed reader | 78,346 | every reader is the general parser; what limits let through is what it would be without them; what is read, written and read again is the same; what the scan confirms or refuses, a parser does |
| kernels_text | `KernelsText` | a semicolon dialect read as text | | **violation**: split at commas |
| kernels_blocks | `KernelsBlocks` | CRLF endings that a block cuts, for every reader | | **violation**: a carriage return stays in the field |
| index_parse | `IndexParse` | 5 CSV files, 2 workers, a buffer of 2 bytes | 983,956 | the build is the serial one and returns; an index that loads or verifies describes its file; a validated seek finds its record; what was completed loads |
| emitter_safety | `EmitterSafety` | threshold 4, up to 2 fields, 4 records, 3 emitters in turn, records on one line | 86,970 | the file is a beginning of the document, flushed records survive, one width, one header, the buffer is bounded |
| struct_cache | `StructCache` | 7 structs and a map, 6 header records, 5 records, words of 2 columns | 29,455 | a record comes to what it would with a cache that has learned nothing; of the structs that the cache is wrong about only that they do no harm to others |

### Why the bounds are enough

*Unordered.* Three records in up to three chunks with three workers have every
interesting meeting: two workers failing while a third is anywhere, a chunk
claimed behind the fence, a worker that finds none left, two failures that tie.
The proofs lift the bound.

*Ordered.* Batches of two are partial when a record fails or a chunk ends. With a queue of
one, the chunk of eight records (`LongSize`) sends a buffer round twice, and chunks of up to
five records stand next to ones that need fewer batches than the queue holds. Two workers
suffice: a worker shares nothing with another, and what one can do
to another is keep the caller waiting for its own chunk. The proofs lift the bound for all
but `EventuallyReturns`.

*Split.* The pass's memory is a parity, two counters and a target, the parser's one
of eight modes; six bytes reach every pair of them and put up to three boundaries in
one document. The proofs lift this bound.

*IoParser.* The engine compares offsets with the window's two ends and looks at most one
byte ahead, so reads of one byte put the window's end everywhere, and reads of four make
windows that hold a record and part of another. Six bytes are three records or comments,
of which the window drops one while another is unfinished; the width of a second record
differs from that of the first; a quoted record spans lines. One move is enough for a
seek or a rewind from any state of a call's end, and what comes after it is what comes after a
fresh start or a parser in a known state. The formats are plain lines, CSV with headers and matched
widths, matched widths alone behind a mark, one with
comments, blank lines and headers, with and without a mark, CRLF with comments and matched widths, one
with escapes, and two that reject a mark, with comments and without. With
escapes, records are only read line by line in `io_safety`: reading into owned storage is
what `io_owned_escapes` shows to be wrong. The filter's `Literal` is two bytes long, so that
reads cut it, in records with it in the tested column, in another one, and behind quotes; seven bytes
hold three such records, and a `FilterBackoff` of one (eight in the code) leaves the search
off and takes it up again within them.

*PushParser.* Chunks of one byte cut everywhere, chunks of three hold a record and part of
another, and the whole stream never needs the window; a `Stride` of two looks
for a record ending beyond the first bytes of a chunk of three. `MCPushParser` adds a limit of two bytes, so that absorbing, settling and a
dropped chunk all meet it, and byte-order marks of which a chunk holds one or two bytes. Callers
give chunks back unread or part-read (`Abandons`) in all formats but that one. In `Impatient`, with a limit of three,
it is what they have left unread that meets the limit: what they are then told of a record that
is too long may not be so (section 5), and `PushedAsWhole` compares no such error.

*Kernels.* The block sizes 32 and 64 and the run of a prediction become `PlainBlock` = 2,
`StructuralBytes` = 7 and `QuoteRun` = 2, so that short records lie within, on and past the
ends of a block and predictions run out, and the default limits become 12, 7 and 9. Documents
are two records, or three quoted ones; the first teaches the engine what the second is read
with, and returns to the start bring back the first with what was learned. `CutDocuments` have the two bytes of an
ending in two blocks; the owned readers get these in `kernels_blocks` only, which shows what they make of them.
Every record read is written under each policy, and the scan of what is written meets limits of the record's own length
and one less, fields of one and of two bytes, and a single field.

*Index.* Documents of two and three records in every cutting for two workers; two of one length
whose records start elsewhere; a byte-order mark; failures in either chunk. With a buffer of two
bytes (`Buffered`) generation flushes in the middle, at the end and not at all. `MaxCells` keeps
an index that was written over a longer one from being written over again, and `MaxBeside` = 0
leaves the index file empty while a build, which does not touch it, runs. `IndexProofs` needs none of these bounds.

*Emitter.* Threshold 4 with records of two pieces drains after every second record
and not after the first, four records cover mark, header, and two
rows; three emitters allow a file to be left and resumed twice, with a different
failure each time. `Multiline` = {FALSE}: see the observations below. The proofs lift the bounds.

*Struct cache.* The structs differ in one respect each (unknown columns ignored or refused, a field
under two names, an optional field), so that what one learns is wrong for another. Three more are those
the cache can be wrong about, one with a field that ignores its column and two that share a key: nothing
is claimed of their own records, only that they do not spoil those of others. The headers
are permutations, a name twice, one that is not UTF-8, and up to four columns on
both sides of a word of two. A learned set is forgotten or replaced as a whole, so two structs in
turn suffice. The proof lifts the bounds.

`MaxSize`, `MaxFailing`, `LongSize`, `MaxLength`, `MaxWanted`, `MaxRecords`, `MaxSessions`,
`MaxFields`, `MaxBytes`, `MaxMoves`, `MaxCells` and `MaxBeside` are bounds of the instances;
`Threads`, `QueueDepth`, `Capacity`, `Threshold`, `Stride`, `PlainBlock`, `StructuralBytes`,
`QuoteRun`, `Default`, `FilterBackoff`, `WordColumns` and `Buffered` are parameters of the program given small values.

Deadlock is checked in the drivers, whose `Terminated` step is enabled only once
the call has returned, in `IoParser`, `PushParser` and `StructCache`, which can always be called again, and in
`CsvIndex`. `Split` ends with the document, `Kernels` with an error or the last record, and
`Emitter` when its bounds are used up, so their configurations switch it off.

### Fairness

In the drivers (`UnorderedParse`, `OrderedParse`) each spawned worker is an
operating-system thread and the caller is another: the scheduler runs a thread that
can run, which is weak fairness of each worker's steps, of the caller's join
(or drain) and of its return. No strong fairness is assumed. In the ordered driver each
queue has one sender and one receiver, so a send or a receive that has become possible stays
possible until it is taken (or the receiver goes, which lets the send fail): weak fairness
is all that is needed there. The index build is the same: weak fairness of each worker, of the
join and of the return (`BuildReturns`); nothing else in `CsvIndex` owes anybody a step.
In `IoParser` the one thread that has been called runs until it answers, and its reads
return: weak fairness of `Step`, the steps of a call. It is written
`[]<>(call = "none") \/ []<><<Step>>_vars`, which is `WF_vars(Step)` with `call # "none"`
in place of `ENABLED Step`; that the two agree is what the deadlock check says, for while a
call is in progress nothing but `Step` can happen. The caller owes nothing: it need not call.
`PushParser`, `Kernels`, `Split`, `Emitter` and `StructCache` claim nothing of liveness: a call of theirs
waits for nobody.
Closures are assumed to come back; a closure that panics or never returns is not
modelled.

## 4. What is proved

Every theorem is checked by TLAPS, for all values of the constants that satisfy
the named assumptions in the modules.

**SplitProofs** (`SplitTypeOK`, `BoundariesFound`, `NoEmptyChunks`,
`NoMoreThanWanted`). `BoundariesFound` assumes `UnpaddedEndings`: no format's
record ending is among the bytes it skips as padding. Without it the statement is
false (section 5). There are two inductive invariants besides the types:

- `Agreement`. Its heart is `QuoteParity`: as long as the parser has not failed, the
  pass is inside quotes exactly when the parser is in a quoted field, and both have
  counted the same records. A doubled quote flips the parity twice, and a quote
  anywhere else is an error. The rest is that the lines agree, that an error lies
  behind the place reached, and the property itself: each boundary is a start
  the parser has reached or lies at or past its error.
- `Spacing`: the target is a stride past the last boundary, every boundary lies
  behind the place reached, and `n` boundaries after the first have used up `n` strides.
  `NoMoreThanWanted` follows by arithmetic on the rounded-up stride.

`NoEmptyChunks` and `NoMoreThanWanted` need no assumption on the formats.

**ParallelUnorderedProofs** (`UnorderedTypeOK`, `NeverFoldedTwice`,
`PrefixIsFolded`, `SerialOffsetReported`). Assumptions: documents are
`WellFormed`, `Threads` is positive, `BuildMayFail` a Boolean. `PrefixFolded` is
about the moment of return and far from inductive. The invariant `IInv` adds:

- `Placed`: a worker in a chunk has claimed it and is at one of its records;
  `Exclusive`: no two workers are in one chunk;
- `Unfolded`: the records a worker has still ahead of it in its chunk are unfolded, and so
  is every chunk not yet claimed, from which `FoldedAtMostOnce`;
- `Blamed`: a failure names a failing record that has been handed out, and its offset;
  `Published`: every value the barrier ever held is the sentinel or the offset of a
  failure some worker holds;
- `Cover`: a record that has been handed out has been folded, or is still ahead of its
  worker, or is at or past a record some worker failed at: the clause that says
  abandoning a chunk loses nothing that matters;
- `Exhausted`: a worker exits without a failure only once all chunks are claimed;
  `Unspawned`: threads that are not needed never start; `Reconciled`: what the caller
  holds is the failure of a worker it has joined, at the lowest offset of those.

At the return every worker has exited, so all chunks are claimed or some worker
failed, and `Cover` puts every unfolded record at or past the least failure, which
`Reconciled` says is the one returned.

**ParallelOrderedProofs** (`OrderedTypeOK`, `HandsOverInOrder`, `ReportsSerialOutcome`,
`ImplementsSerial`, `BoundsBuffers`, `CancelledWorkersGiveUp`). Assumptions: documents are `WellFormed`; `Threads`, `QueueDepth` and
`Capacity` positive. A place in the document is a chunk and a record of it, and every message
says where it takes the consumer from and where it leaves it (`From`, `Leads`). The invariant:

- `Chained`: a worker's queue is a chain of sound messages that leads from the place where the
  consumer expects that worker to go on (`Expected`) to the place the worker is at (`Here`), or
  ends in the failure it has stopped with;
- `Placed`: the worker is in a chunk dealt to it, its batch is a run of records up to the one
  it is at, and `after` says truly what comes next;
- `Consuming`: what has been received is the beginning of the document, none of it fails, and
  the chunk being drained is the one the next record is in.

The rotation is the arithmetic of `Arithmetic` and `Dealt`: of the chunks from the one being drained on,
each of the next `Active` belongs to another worker. What the consumer takes from the queue it
waits on is then the next record, or the failure of the next record. `ImplementsSerial` is the
step simulation under the invariant: `Accept`, `Refuse`, `Drained` and a `Receive` of a failure are
the steps of `SerialParse`, and every other step leaves its variables alone.

`BoundsBuffers` is a count. `Buffers` counts a worker's records wherever they are, by the cells of the
queues they lie in, so sums of sequences become cardinalities (`CellsAppend`, `Queued`, `Unqueued`). The
invariant, `Recycling`, says besides that no batch in the queue, in the consumer's hands or on its way back is longer than
`Capacity`, and that there are at most `QueueDepth + 1` of them (`InFlight`; one more between a send and the batch that is
taken back after it): a send adds one, and the worker then takes one
back, or there is none and the rest is in the queue and the consumer's hands.

**EmitterProofs** (`EmitterTypeOK`, `FlushedStays`, `FieldCountIsUniform`, `OneHeader`,
`BufferIsBounded`, `DocumentStaysIntact`). What is written is described by `InOrder` (a piece comes
after the last piece of every record before its own) and `Encodes` (besides, the records up to
`m` are all there): `Ordered` says the first of the file at all times, `Complete` the second of
file and buffer while an emitter lives. They survive a failing drain because what the sink
confirmed and what is kept are one sequence cut in two. A resumed emitter has `accepted` cut to
the records that are whole in the file, and `Ordered` makes these the first ones, so nothing
flushed (`Covered`) and no width learned (`LearnedFirst`, `OneWidth`) or header written
(`HeaderDue`) is forgotten.

`DocumentStaysIntact` assumes that no record spans lines (`Multiline \subseteq {FALSE}`): a file that a loss cut
is taken up again if it looks whole, and with a line break in a quoted field the statement is
false (section 5). On one line only a record's last piece looks like its end (`SingleLines`). The
theorem is about `Document`, which is a fold over the records. It is unfolded by hand: `WholeDocument` is the sequence it comes to, defined by where each piece of each record stands,
and `DocumentIs` shows the two equal, record by record. The invariant is `Kept`: what the sink confirmed goes on,
by the buffer or by what was lost with it, to the document of what has been accepted.

**StreamingProofs** (`WindowHoldsTheStream`, `BufferHoldsTheStream`, `EveryLineIsTallied`, `EveryPushedLineIsTallied`,
`SettledRecord`, `EveryAnswerIsOfTheStream`).
Assumptions: documents are sequences, no skipped padding is a line feed, a record limit is a number, and what `IoParser` assumes
of its calls, reads and literal; nothing of how long the window gets. `PushParser` asks besides
for streams of fewer than `NO_OFFSET` bytes, as a chunk, a slice, may be all of one. The window itself is easy: a refill drops what
comes before the engine's anchor and appends what it read. It is the stream as long as the anchor lies in it, and that
rests on all the engine does. `Engines(n, q)` are the engines that may stand over `n` bytes of window or loan, with the cursor
in them, and there is a lemma for each operation: it takes such an engine to such an engine,
whatever the bytes are. As far as that goes, the tally and the checkpoint of a scan may run ahead of the bytes. What the lemmas have to know
of the front end is `q`: whether a checkpoint that is set begins within the bytes (`near`: a refill never drops the
tail of a window, a settled chunk does), and whether there can be comments to be in the middle of. Two things are delicate:

- The operations are recursive functions over the window (`PhysicalRecord`, `SkipIgnored`, `LacksScan`). That
  such a function exists, and what holds of each of its values, is `Arithmetic!Recursion` and `Upward`, by
  descent to a least counterexample rather than by an induction theorem.
- A view rewinds to the cursor, so a line that may be viewed has to have one (`Viewable`), and so do the
  calls that have advanced to a record (`Aimed`); both survive refills because the anchor does not pass the cursor.

The push parser moves bytes between two places, and its invariant (`BufferInv`) says where each of them is: the window and
the absorbed part of the loan end at one byte of the stream (`Lending`, `Taken`), what is looked at begins at `consumed`, and the
engine is one of `Engines` over it. `EnterBorrowed` then gives back a copy of what the loan still holds
(`BorrowingKeeps`), absorbing continues the window (`PieceGoesOn`), and settling keeps a piece of the loan that begins at the anchor
(`SettleBorrowedKeeps`). That piece is cut at the record limit, and the engine has to be in it. An engine that is not in a comment is at its
anchor, hence at the front of the piece; in a comment it may be as far behind the anchor as the comment has
been looked at. The theorem is therefore of formats without comments, and for those with, of streams no longer than the
limit, which is never cut (`Uncut`).
With a limit of zero the statement about the engine is false there: at the end of a stream that ends
in a comment, the engine keeps two bytes of it and the window takes one (`push.rs:1093`).

The tally is a second invariant over the first. `LinesTallied` is not inductive: the engine folds the lines of a record into
its tally when it parses the record, may parse it again from its cursor for a view or for owned storage, and gives back what a failed
attempt folded. What makes all of that agree is that the tally never covers a byte the engine has not passed, that it is
of the bytes it covers, and that a comment that is gone on with does not begin behind where it was looked at (`Tallied`). Along an
attempt, the tally moves only from where the engine was (`Counts`), so that what an undo gives back is all there was
(`RestoredCounts`). Parsing a record twice is right when the engine stands at the record's start, or stands at its end and has read it and
learned its width (`Reparses`, which every line a caller can look at has to satisfy: `InSight`). Then there is one lemma an
operation, as for `Engines`; the heart of them is `FoldCounts`, that a plain record has the line feed it ends with and no
other (`PlainRecordFeeds`), so that folding it by its ending counts what its bytes hold. A window that moves is left to
`OnTally`, the same said of the stream, in which it does not matter where the window ends, only where it begins
(`ShiftOnTally`): the bytes that leave take their lines to `line_base`, whether the tally had covered them or not.
`EveryPushedLineIsTallied` is of the streams `BufferHoldsTheStream` is about, for the same reason.

`EveryAnswerIsOfTheStream` is the half of `SameAsWhole` that says nothing is answered that is not there (`OfTheStream`): a
record that is returned is one the whole stream has, from its first byte to its end, and an error in a record is the whole
stream's, of its kind, at its byte and on its line. It rests on `SettledRecord`. Reading a record goes through the same states in
the window and, at later offsets, in the stream (`ReadByteLater`), so only what is done where the window ends can differ, and a
record that has ended before, or an error with a byte behind it, is not touched by that (`JudgedLater`; `LastsIn` is what
`window_settled` and `truncated_by_window` leave). From there the argument goes up the engine:

- What an attempt or an advance answers is the record of the window it began at, or blames that one
  (`ParseRecordTells`, `AdvanceTells`), and an attempt that comes back from a checkpoint ends where one that scans
  from the record's start does (`TryWindowFinds`, `FindsOn`). At the end of the stream the two are alike, and before it the answer must be settled.
- A line is answered before it is viewed, with refills between, and viewing it parses it again. So the invariant is
  `Sees`: what a view of the line at the cursor would answer is the stream's (`StreamInv`). It stands over both others,
  the window and the tally: the line of an error is counted from `line_base`.
- Storage of the caller's is read into by another way, which asks the last byte alone whether the record is whole. That is right if
  nothing is escaped and a byte that can end a record is no separator, quote or padding (`TerminatorTells`). The theorem asks
  it of formats that are read so (`Tellable`). It is needed: without it the statement is false, which is finding 1. The
  other formats of `io_safety`, and this one when lines are read, have it.

A mark that is rejected is reported in place of a later error, so of such streams only the records are claimed.
The error that a seek meets before it moves has its offset in the window (section 5), so nothing is claimed of it.

**StructCacheProofs** (`CacheIsTransparent`). There may be any structs; the theorem speaks of the records of those
that share their key with no other and whose fields all read their columns, and of maps (`Cacheable`), for of the others the code
is wrong (section 5). The others may come in between as they like. The invariant is about the cache whatever comes next: what it has learned,
and what it is learning while `active`, the struct of its key ignores under the names it holds, if that struct is `Cacheable`
(`Sound`); and the names are those of the headers whenever `ready` says so. The rest is
`SkippingIsUnseen`: leaving out columns that a struct ignores changes no refusal, not the first
of them, and no value. `DESIGN.md` (line 488) has another argument, that only successful records are
committed; the invariant does not need it, and it is not so (section 5).

**IndexProofs** (`BuildsAreSerial`, `IndexIsOfItsSource`, `SeeksAreRight`, `CompletedIndexLoads`).
Assumptions: documents are `WellFormed` and `Threads` is positive; nothing is asked of `MaxCells`
and `MaxBeside`, so the index file may be of any length and be written over at any time. The invariant has two
halves that meet in the index in memory (`Remembered`):

- `Sound`, of the build: while workers run (`Working`), a chunk that has been claimed has been
  parsed, or is about to be, or lies at or past a published failure (`Cover`), and every published failure has
  been met by somebody (`Published`). Once all are done, either some failure was met, and the
  least is that of the first failing record, or every chunk was parsed; then the concatenation
  of the chunks so far is a beginning of the document (`Assembled`).
- `Filed`, of the index file. A file is a mixture of what several calls wrote, so the
  invariant does not say what it is but what two of its cells mean: a header that identifies a
  document is followed by entries of that document only (`TrueHeader`), and a header's checksum stands
  behind the checksum of that document's entries only (`TrueSums`). A writer breaks neither because of the
  order of its writes: a stream first blanks the header, and puts the real one back when all
  entries stand (`Streamed`, `Closed`); a call that gave up goes on with a blank one (`GivingUp`); `save`
  begins with an empty file (`Saving`). What is left of the plan continues what has been written, whenever it is cut.

An index that verifies has its header's own checksum at its end, so `TrueSums` makes its entries those
of the document `TrueHeader` says. `CompletedIndexLoads` is the end of `Saving` and `Closed`, where the
length that `create` checks by opening what it wrote excludes a stale tail.

Only model-checked: the rest of `SameAsWhole` (that the answers are the next ones, in order and in number, and none is missing)
and the other properties of `IoParser` and of `PushParser`, as section 6 says; the
kernels, the encoding and the record scan of a generation, whose heart is what a recursive definition
computes for every input, and so is the outcome `SameAsWhole` and `Prompt` compare with; everything about
liveness, which is out of TLAPS' reach.

## 5. Findings

Where the code does other than its own words say, with a run that shows it:

1. `io_owned_escapes` (`engine/cursor.rs:1182`): `try_read_window_owned`, and its text
   twin at 1211, take a record for whole when the window's last byte is a record ending's.
   With `Escape::Unquoted` or `Escape::Mysql` that byte may be escaped; the comment at
   1247 says the shortcut is only sound for `Strict`, where it is not sound either.
2. `kernels_text` (`engine/owned_parser.rs:109`): while a quote is expected, the text reader
   tries a parser of the default dialect without asking which dialect it has: semicolon records
   are split at their commas. `owned_parser.rs:262` says other dialects do not get there.
3. `kernels_blocks` (`coseva_unsafe/src/record.rs:738`): the owned readers' packed kernel looks for the
   carriage return of a record ending only in the line feed's block. A record of 31 bytes (or 63, 95, ...) and CRLF
   has it at the end of the block before, and keeps it in its last field. The borrowed
   kernel (614) and the general parser drop it; `parse_options.rs:173` calls the kernel an optimization of
   that parser, and `tests/differential.rs:902` checks the two against each other. The kernel's own test (2556) tries CRLF at
   every thirteenth length only, where it never meets a block's end. `kernels_optimization` keeps such records from the
   owned readers.

Seen while modelling, with no run of their own:

*Drivers and splitter.*

- A wrong field count is located at the record's end, the next record's start
  (`engine/limits.rs:31`). If a closure refuses that record, both failures have one offset and the
  one that is joined first or was published first wins, so the failure returned is not
  deterministic, as `parallel.rs:534` says it is. Its offset is, which is what is proved.
- The barrier is checked before the fold and not excluded during it (`unordered.rs:254`), so a
  fold can begin behind a published fence, which `parallel.rs:615` denies. Nothing depends on it.
- `check_splittable` (`parallel.rs:700`) lets through a format whose record ending is a space or
  tab that is also skipped as padding; a boundary may then lie inside a record. `split_boundaries`
  and `BoundariesFound` leave these formats out.
- A worker that cannot build its parser reports offset 0, which outranks every real
  failure although `unordered.rs:197` says it never masks one. `prepare` has
  built the same configuration before, so it does not happen outside tests; the
  properties exclude it (`BuildFailed`).
- `while let Ok(Some(..)) = next_line()` in the drivers ends a chunk silently on an
  error of `next_line`; after a seek that succeeded there is none it could return.

*Emitter.*

- Whether a file ends mid-record is judged by its last bytes (`io_emitter.rs:950`), which a line
  break inside a quoted field satisfies: a file cut behind one is taken up again inside a record.
- Dropping a failed emitter drains what `pending()` has already handed out (`io_emitter.rs:1052`).

*Streaming parsers.*

- `prepare_seek_state` (`io_parser.rs:958`) returns an error of the first record without
  rebasing it and without latching `failed`: behind a byte-order mark that a refill has dropped, the
  offset is three bytes short. `SameAsWhole` compares all but the byte of this answer
  (`"unrebased"`). When the seek itself fails after that (`io_parser.rs:844`), the record that was
  read for its width is not read again by the next call.
- `advance` (`io_parser.rs:243`) says that every path reports `RejectedBom` before any syntax error
  of the marked record. Two calls of `next_line` without a view between them report that syntax
  error, and a caller that views no line comes to the end of the input with no error at all.
  No record is ever handed out, which is what `SameAsWhole` claims of these streams.
- An owned read that meets a malformed record outside the borrowed path (`push.rs:681`, the text
  twin at 741) returns the engine's error as it is, with an offset of the window. `next_line` rebases
  the same error to the stream, as `Location` promises (`error/location.rs:41`). `PushedAsWhole`
  compares offsets only where lines are read.
- An unfinished comment is kept whole in the window, though `shift_resume`
  (`engine/cursor.rs:1529`) is written for all but its last bytes to be dropped.
- A push parser that absorbs never compacts its window (`push.rs:1110`). A caller that reads one record of every chunk
  and gives the rest back makes the window grow with each, although "only that record outlives the chunk it arrived in" and memory
  is to stay "bounded by the configured record limit" (`push.rs:35`). `KeepsARecord` holds what has not
  been read yet to that bound, and the whole window if chunks are read to their end. What such a caller leaves
  unread counts as one record, however many it is, so that it may be told of a record that is too long and is not
  (`push.rs:1138`; `UnreadTooLarge`). So do the comments a chunk leaves behind: the engine is put back in front of
  them (`restore_chunk_cursor`), where `io_window_anchor` would let them go, and more of them than the limit, with no record
  between, are reported as a record that is too long. The limited formats of `MCPushParser` have no comments, and `Uncut` leaves such streams
  out of `BufferHoldsTheStream`. At the end of the stream, settling
  releases a line that was positioned and not viewed, so that it is reported again (`push.rs:1087`).
- `line.rs:514` says skipping a record never suppresses its errors. The filters skip unparsed, so
  errors of width and of limits are suppressed, which a test relies on (`push.rs:1857`);
  "match" is therefore only called in formats without either. The push parser's filter also
  swallows a candidate's own error (`push.rs:956`).

*Kernels.* A doubled quote on the last byte that the limit on a field lets the scan see takes the cursor past it, and
`expect_err` panics (`engine/borrowed_parser.rs:875`): its message holds that only the record's limit can be overrun. The model
has the panic as an error (`"overrun"`); `LimitsOnlyRefuse` says that no such record is accepted. Limits are not checked alike: a reset engine picks parsers that never check a field's
length (`construct.rs:252`), the structural kernel never counts fields, the borrowed plain kernel counts
escaped delimiters. When a record breaks two limits, which is reported depends on the parser. `Promised` allows
another limit to be met, and the runs give a reset engine no field that is over the limit.

*Struct cache.* A field whose own type ignores its column (`serde::de::IgnoredAny`) is seen through
the same call as a column the struct does not want (`serde/deserializer.rs:549`), so its column
is skipped in the second record, which then fails for a missing field: said of every struct and not of `Cacheable`
ones only, `AsAfresh` is violated within three steps. Structs of one name in two modules whose field lists the compiler
merges share a key; one of them may refuse what the other has taught to skip (`struct_cache.rs:84` guards against
different names only). A struct that fails half-way leaves its observation `active`, and the next
map or tuple that succeeds commits it, although `DESIGN.md:488` says only successful records
are: nothing wrong is skipped, but the columns not yet seen are then offered for good.
`DESIGN.md:494` knows of one word of columns only; the code has more.

*Encoding.* Two mixes lose bytes and are left out by `Kept`: an escaped format writes a carriage return
at the end of a record as it is (`emit.rs:631` escapes line feeds only), and spaces that the reader skips are
not protected, though `FormatOptions::PYTHON_ESCAPED` promises to be "read back the same way"
(`format_options.rs:258`).

*Generation.* The scan of an escaped format does not look for a carriage return, since "nothing this mode
writes treats it as structural on its own" (`generate.rs:706`), but the parser does: with
`RecordEnding::CrLf` a field that holds one is confirmed and then fails to parse, and with
`BlankRecords::Skip` a record of nothing else is confirmed and then passed over, so that the index is
not the one `build` makes. A blank record that is kept is confirmed before the record's limit is looked at
(`generate.rs:519`), though the parser refuses it under a limit that does not hold its ending.
`RecordValidator` says its parser never sees a second record (`generate.rs:301`); it keeps one
parser for all of them, and what `MatchFirst` learned from the first: records of several widths, which
`EmitOptions` allows by default, fail to generate in the formats that are not scanned (`Raw`, separators of several
bytes, skipped spaces). `ConfirmedIsOneRecord` leaves the first two out and compares with a fresh parser.

*Index.* `create` is documented to write from the writer's current position and starts at 0
(`csv_index.rs:449`); over a longer index it puts its trailers behind the stale tail and then fails to
open what it wrote. `verify` reads the header anew without comparing it with what `new`
decoded (`csv_index_reader.rs:234`). A header torn after its first half over an index of two records opens as an
empty index, which `verify` and `load` notice and opening does not.

## 6. Not modelled, and the plan

Not modelled for good: memory layout and vector search (`coseva_unsafe`, below what a
state machine says), derive macros (compile time), records, projection and
conversions (pure, sequential), formatting and locations of messages, panics in user
code, the time between a confirmed write and the disk.

In the order of their importance:

1. *What the streaming models leave out*: the filter of the slice and the push parser (`cursor.rs:196`), tests other than `contains` and columns other than the
   first, recovery, separators of several bytes, `set_headers`.
2. *Proofs of the streaming parsers.* `DrainedIsTaken` for formats without comments. What a stream with
   comments longer than the record limit does to the push parser's engine (`Uncut`) depends on what
   the bytes between the engine and its checkpoint are. `PushedAsWhole`: what `EveryAnswerIsOfTheStream` says, of the
   window and the loan. The other half of `SameAsWhole`: that the record answered is the next one, with its number, and that none is left out.
3. *Kernels*: trimming and compatible syntax. *Encoding*: MySQL's letters, comment marks, `VecEmitter`.
4. A panic of a field iterator or a sink as an outcome of `Emit`.
