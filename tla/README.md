# Verification of solana-universal-indexer

TLA+ models of the indexer, TLC runs over small instances of them, and theorems
with proofs that TLAPS checks. The reference is the Rust code; paths below are
relative to its `src/`. Line numbers of every modelled definition are in
`PROJECT.json` under `map`.

## 1. The system

One process. At start it reads its configuration, connects to PostgreSQL, creates
the fixed tables, loads the Anchor IDL of one program and creates a table per
instruction (`ix_*`) and per account type (`acc_*`). Then three things run as async
tasks: a REST API, a task that waits for SIGTERM or Ctrl-C, and the indexer, in
batch or in realtime mode. They share the connection pool and a watch channel,
`shutdown`.

| Component | State it keeps | Operations | Talks to |
|---|---|---|---|
| Processor (`indexer/processor.rs`) | none between calls; during one, a database transaction | `process_signatures`, `process_and_commit`, `fetch_and_store_accounts` | RPC client, PostgreSQL, reads `shutdown` |
| Batch indexer (`main.rs`, `run_batch`) | `chunk_start`, the signatures of a chunk | list, latest and slot-range jobs; resume, scan, save checkpoint | Processor, RPC client, `indexer_state` |
| Realtime indexer (`indexer/realtime.rs`) | `pending`, the channel of 1024, the WebSocket thread | backfill, subscribe, forward, collect, flush, reconnect, shut down | Processor, RPC client, PubsubClient |
| RPC client (`indexer/rpc.rs`) | none | `get_transaction`, `get_signatures_page`, `_for_slot_range`, `_since`, `get_accounts_data`, each with retries | the node |
| Database layer (`db/queries.rs`, `migrations`) | `transactions`, `indexer_state`, `ix_*`, `acc_*` | upserts with their ON CONFLICT clauses, `bind_value`, read queries | PostgreSQL |
| Schema generation (`idl/schema.rs`, `db/mod.rs`) | the DDL | CREATE and ALTER per IDL entry | PostgreSQL |
| IDL loader and Borsh decoder (`idl/`) | discriminator maps | `decode` of instructions and accounts | none |
| REST API (`api/`) | none | statistics, lists with pagination | read queries |
| Lifecycle (`main.rs`, `docker-compose.yml`) | `shutdown`, task handles | signal, select over tasks, exit, restart | all |
| Configuration (`config.rs`) | constants | parse the environment | none |

### What is hard

* **Two checkpoint rows, many writers.** `last_indexed_sig` and `last_indexed_slot`
  are written by every chunk commit; the slot also by the range job after each
  chunk. Both modes and all jobs share them.
* **Commit granularity against resume granularity.** The range job resumes by
  slot, commits by signature, and saves by chunk of slots.
* **Errors that are only logged**, inside a database transaction that PostgreSQL
  has already aborted.
* **A shutdown flag** that ends `process_signatures` with `Ok`, which its callers
  cannot tell from success.
* **Realtime delivery**: subscription after backfill, reconnection gaps, a bounded
  channel, batches that fail, a thread blocked in `recv`.
* **Crashes** anywhere, COMMIT answers lost, and Docker's `restart: unless-stopped`.
* **DDL without a transaction**, repeated at every start, over IDLs that change.
* **Parameters typed by their JSON, columns typed by the IDL**: PostgreSQL decides
  whether the one can be assigned to the other, value by value, and sqlx keeps the
  statement prepared for the types of an earlier row.
* **Reads without a snapshot**: counters and pages are taken between commits.

All of it is listed line by line under `hazards` in `PROJECT.json`, with the
property that covers each.

### What makes each component correct

* Processor: visible transactions have all their instruction rows and a checkpoint
  that names one of them; `Ok` means stored, skipped or cut off by a shutdown;
  handing a signature in twice changes nothing; a call ends.
* Batch: the slot checkpoint can be trusted up to named losses, does not go back,
  and every job ends.
* Realtime: the signature checkpoint can be trusted up to named losses, does not go
  back; what is under way is always ahead of it; what is heard is handled; a
  shutdown ends the task.
* Database: readers see whole chunks (`IndexStore`).
* Start-up and schema: when the API opens, the tables are those the IDL needs,
  wherever an earlier start was cut off; a start that can succeed eventually does.
* Decoder and binding: what a program wrote is what the row shows, field by field;
  data that is cut off or too long invents nothing; a row is refused only for reasons
  one can name, because a refused row dooms its chunk.
* API: the answers of several SELECTs, or of several requests, fit together although
  chunks are committed between them.

## 2. Modules

```
Ledger          the chain behind the RPC calls (mostly external)
IndexStore      abstract: what readers of the database are promised
Processor       EXTENDS Ledger; instance of IndexStore
 |- ProcessorSpec      any caller;  MCProcessor
 |- BatchIndexer       run_batch and its process; BatchProperties; MCBatch
 '- RealtimeIndexer    run_realtime and its process; RealtimeProperties; MCRealtime
ProcessorProofs        lemmas about the Processor's steps, used by
 |- ProcessorSpecProofs
 |- BatchProofs
 '- RealtimeProofs

Startup         start of the process up to the open API; MCStartup; StartupProofs
Decoder         bytes to JSON, guided by the IDL's types
 '- TypedRow           JSON to a row of its typed table; MCTypedRow; TypedRowProofs
RecursionProofs        definitions that recurse: that they have a solution, and
                       induction over them; used by TypedRowProofs
ApiReads        EXTENDS IndexStore: a client's requests between commits;
                MCApiReads; ApiReadsProofs
```

**Ledger.** The program's transactions in ledger order (`Chain`), their slots, and
`now`, the highest slot the node serves. `UpTo[n]` counts the transactions in slots
1..n; that it fits `Chain` and `SlotOf` is an assumption TLC evaluates.

**Processor.** `txs`, `calls`, `accs`, `lastSig`, `lastSlot` are the committed tables.
`work` is the open transaction: PostgreSQL is snapshot plus effects, and `aborted`
says that a statement failed, after which every later statement fails and the code
cannot commit. `pc` and `todo` are the position in the two loops: one action per
signature (`IndexTx`, `SkipTx`, `StoreTxFails`), since the awaits inside one
signature have no effect another process or a reader could see. Then
`StoreAccounts`/`StoreAccountsFails` and `Commit`, `CheckpointFails`,
`CommitFails`. `CommitFails` covers both sides of a lost answer. `StoreAccounts`
may read the accounts at any slot up to `now`, because `get_multiple_accounts` uses
the client's default commitment (finalized) while everything else asks for
confirmed.

**BatchIndexer.** `stage` is the point in `run_batch`; one action per branch.
`ScanBlock` and `PassOver` are one slot of `get_signatures_for_slot_range`.
`Readable` is the checkpoint read with its `unwrap_or(None)`. The history variables
name losses: `missed` (slots passed over), `stopped` (cut off by a shutdown, then
marked), `split` (left behind in the slot the job resumes after), and in the
Processor `skipped`; `changed` and `misread` record a job change and a failed read.

**RealtimeIndexer.** `feed` is what the subscription received (the unbounded channel
inside PubsubClient), `chan` the channel of the code, `pending` the batch being
collected; `ws` the thread, `stage` the task. A call of `process_signatures` is
made of the Processor's own steps, interleaved with the thread. `ApiStops` is the
select of `main`: when the API server stops first, the task is dropped where it
stands. `Exit` is the runtime, which waits for the thread. The history variables
`unheard`, `gap`, `dropped` name what the subscription did not announce, or a
failed batch held; a backfill that lists a signature takes it out again.

**IndexStore.** Four variables and two actions: commit some signatures with all
their rows and a mark on one of them, or move the slot mark. The Processor, batch
mode and realtime mode each implement it (`ImplementsStore`), with `CallRows`
hiding which of two calls of one instruction got the row.

**Startup.** `at` is the point `main` has reached, `loaded` the IDL it has read,
`left` and `step` the position in the loop over the generated DDL: step 0 of an entry
is CREATE TABLE, 1 its indexes, the others one ALTER TABLE each. Every statement is
a transaction of its own. The database is `columns`, a set of (table, column, type),
and `unique`, the tables with the constraint that ON CONFLICT names. `Fail` ends the
process anywhere; `Boot` is the container's restart; `Deploy` changes IDL and
configuration at any time, of which only a restart takes notice. `served` remembers
which deployments got as far as the DDL. What `to_snake_case`, `sanitize_col` and
`idl_type_to_pg` do is given by the constants `TableOf`, `ColumnOf`, `TypeOf`: that
two names collide matters here, how they are spelt does not. `TakenBy` says which
columns take what is bound for a type: a BIGINT column takes no text, a TEXT column
takes an integer.

**Decoder.** `Decoding(data)` is `decode_type` for every type of the IDL and every
position of the Reader: what is read there, and the position behind it (`Got`). It is
a recursive function; one step of it is `DecodeType`, which finds its inner calls in
its argument `decode`. A read that does not fit yields null and does not move; an
unknown type takes nothing, a "defined" one takes all that is left. A JSON value is the
sequence of its nodes, an array or object before its members. `Type` is the set of the
IDL's types with all they are made of, and `Depth` how deep each nests: types are JSON
trees (a "defined" type is not looked into), so a part is less deep than the whole.
`Matching` is the lookup by discriminator. Members of an IDL discriminator that are no
u64 stand for what `filter_map(as_u64)` drops; here they are negative integers.

**TypedRow.** One row from the bytes (`Arrivals`: a whole message, cut off anywhere
behind the discriminator, or followed by a pad; `Junk`: any bytes) through `Decode`
to `InsertRow` or `InsertRefused`. `Encode` and `Meaning` are the reference: Borsh as
programs write it, and the JSON that is meant; `Value` gives the values of each type, any
that fit it (`Fit`). `BindValue` is `bind_value`, `Casts`
with `Accepts` PostgreSQL's assignment casts (external), `ReadsBack` what `to_jsonb`
shows of the stored value. sqlx prepares a statement once per SQL text, for the types
of the first row, and sends later rows' bytes to it; only a TEXT column takes several
types, so only its fields can meet a statement made for another (`Unsteady`). `stale` is
the set of fields that do, any set the rows before may have left: such a field is
refused, or `Misread`. A row that `InsertRefused` ends is the fault "ix" or "account" of
the Processor.

**ApiReads.** `Chunk` and `Mark` are the two actions of `IndexStore`, with the
creation times of the rows (`stamp`) and the `acc_*` rows (`accs`). That is all a
reader can see of the indexer: batch and realtime mode are shown to do nothing else.
A request is `Ask`, the first SELECT, then one `Select` each; `got` holds what the
handler has read, `before` what was stored when it began. `Newest` leaves open the
order of rows with one `created_at`, as ORDER BY does. A time series is of any range
`from`, `to` a client may give (`Within`), that of the last seven days included.

## 3. Runs

| Run | Question | Result |
|---|---|---|
| `processor` | any caller, overlapping lists, every fault of the Processor | holds, 108k states |
| `batch` | range, list and latest jobs, two lives, scan, read, insert and commit faults, signals, crashes | holds, 190k states |
| `realtime` | two lives, reconnections, failed batches, signals, crashes | holds, 78k states |
| `startup` | eight deployments, three changes, two failures at any statement | holds, 52k states |
| `typed_row` | eight entries, messages whole, cut off and padded, and any five bytes, under any cached statement | holds, 23k states |
| `reads` | every request of a client during three commits of any of four transactions | holds, 309k states |
| `batch_shutdown` | "resume from the last completed chunk" under a shutdown | violated |
| `batch_skip` | "Range fully indexed, skipping" with two ranges | violated |
| `realtime_gap` | "recovered via cold-start backfill on reconnect" | violated |
| `realtime_exit` | the process ends after the signal | violated |
| `typed_row_null` | an absent optional field is stored as NULL | violated |
| `startup_change` | no migration is needed when the IDL changes | violated |

What the passing runs show:

* `LossAccounted`: below `last_indexed_slot` nothing of the range is missing but what
  is in `skipped`, `missed`, `stopped` or `split`. `AnchorAccounted` is its
  counterpart for `last_indexed_sig`, with `skipped`, `unheard`, `gap`, `dropped`.
  Each loss is a line of the code, and each is needed: without any one of the four
  `AnchorAccounted` is violated.
* `SplitNeedsSharedSlot`: resuming at the checkpoint's slot + 1 loses something only
  in a slot with several program transactions.
* `MarkOnlyAdvances`, `AnchorOnlyAdvances`: the slot checkpoint of a range job does not
  go back while its configuration stays, but for a failed read of it, and the signature
  checkpoint of realtime mode does not in any life. List and latest jobs may move both
  back, even under one configuration: they commit signatures in the order they are given.
* `StoredTxHasItsCalls`: a visible transaction is complete although the insert
  errors are swallowed: the failed statement dooms the chunk. A savepoint around
  the insert would break it.
* `PipelineInOrder`: what the process holds in memory is ahead of the checkpoint and
  in order, so a crash loses none of it.
* `UpFitsSchema`: no crash between two DDL statements leaves a table that a later
  start takes for complete; `RowsFitOrCause` names the two ways in which columns and
  INSERTs still disagree: names that become one, and a type an earlier definition gave.
* `FieldsDecodeExactly`, `TailIsBlank`: what arrived is read as it was sent, and a
  message older than its IDL has nothing invented for the new fields.
* `StoredReadsBack`: the four ways in which a stored value differs from the decoded one,
  a text read through a statement prepared for another type among them.
* `RefusalHasCause`: in a table made for the IDL that is served, a row is refused for a
  missing block time, for a value no statement takes, of which the causes are listed
  (`Cause`), or because the statement sqlx keeps was prepared for another type: a TEXT
  field with digits in one row and words in the next, or in an account null and then
  text. The first two happen to the row whatever came before it, the last depends on the
  connection and its past. The faults "ix" and "account" of the Processor stand for these
  refusals.
* `StatsAddUp`, `CheckpointCanBeFollowed`, `LatestNeverGoesBack`: reading without a
  snapshot is safe here, since the store only grows and the handlers read the smaller
  number first.
* `SeriesCoversTotal`: the total is at most what the time series and the rows outside its
  range add up to. By default that range is the last seven days, so the series alone may
  well be less than the total; what cannot happen is that a row of the total is in neither.
* `PagesMissOnlyTies`: with OFFSET, a client may miss rows of a chunk, which all have one
  `created_at`, but only where the edge of a page cut through them, so that others of the
  chunk are listed; it never passes over a chunk.
* `CallEnds`, `JobSettles`, `HeardIsHandled`, `ShutdownStops`, `ComesUp`: progress.

Each violation is a statement of the repository the code does not keep; `findings`
quotes it. In short: a shutdown inside a chunk loses the chunk's rest; the slot
checkpoint serves every range; a reconnection gap is never backfilled; the process
waits for the WebSocket thread until the program's next transaction; an absent
optional number cannot be stored in an account's table; a column stays BIGINT when the
IDL makes its field a string. In `realtime_exit` TLC may leave the thread in `recv` or on
its way to a new connection, which nothing forces to succeed: it looks at the channel in
neither, so the process hangs in both. Further losses need no run of their own, because the passing runs
name them: a crash inside a slot (`split`), a slot beyond the tip taken for an empty one
(`missed`), and the final flush of realtime mode, which does nothing since the Processor
stops at the same flag.

### Bounds

* Chain: 3 to 5 transactions over 2 to 4 slots, one slot with two transactions:
  enough to split a slot over two commits, for a batch before, in and after a gap,
  and for a chunk that is not full. `BatchSize` 2 is the smallest that allows a chunk
  with a first and a last signature; it is also the width of a slot chunk, as in the
  code. `ChanSize` 1 makes the thread block.
* `MaxRuns` 2: one restart. The state a restart starts from is the committed
  database, so longer chains of restarts repeat it with other contents. The
  theorems hold for every value.
* `processor` has two tables, one account, one transaction that calls the same
  instruction twice. `realtime` and most of `batch` have no calls: `processor` and
  the proofs cover what a chunk contains.
* `startup`: names that collide within one entry, with a column every table has, and
  between two entries; a changed type, a new field, an entry without fields, IDLs that
  cannot be loaded. Two failures and three deployments put a crash before and after a
  change.
* `typed_row`: a byte has four values (a NUL, a digit, a sign, one that no UTF-8 text has),
  texts hold digits with and without a sign, and the widths are 1 to 4 bytes, with the order of
  the real ones kept, so that every integer type has values its next smaller column
  cannot hold. Every kind of type occurs, nested where the code recurses.
* `reads`: two transactions in each of two slots, two tables, pages of two rows: enough
  for ties, for a page boundary between them, and for an old slot stored after a new one.
  Time ranges are all those of the commits so far.
* `Faults` lists what may go wrong in a run. `MaxSlot` bounds the chain: a run in
  which it does not grow any more.
* Deadlock checking is off where a process may stop for good (`MaxRuns` used up, a
  deployment that cannot be served) and in `typed_row`, where a row is the end; `reads`
  checks it.

### Fairness

Weak fairness of the task's own steps (`Step`, `BatchStep`, `IndexerStep`), of
the WebSocket thread's (`ThreadStep`), and of the exit of a process that waits for
nothing: tokio schedules ready tasks, and RPC and database calls return or fail
(retries are bounded). The select of the realtime loop picks among ready branches at
random; fairness of their disjunction is enough here, since the chain, hence the
work that competes with the shutdown, is finite. `Startup` assumes the same of its
steps (`Start`), and that the container is restarted (`unless-stopped`). Nothing is assumed of callers,
signals, crashes, restarts, the chain's growth or WebSocket connections.

## 4. Proofs

For every chain, slot layout, batch size, set of calls, job, schema and set of faults:

| Theorem | States |
|---|---|
| `ProcInvariant`, `TypeCorrect` | the inductive invariant `ProcInv`; types |
| `StoredTxsAreComplete`, `OkIsTrustworthy`, `CheckpointIsBacked`, `CallRowsAreUnique`, `AccountRowsAreBacked` | the Processor's safety properties |
| `ProcessorImplementsStore` | `ProcessorSpec` implements `IndexStore` |
| `BatchInvariant`, `BatchTypeCorrect` | the inductive invariant `BatchInv`; types |
| `CheckpointLossesAccounted`, `SplitOnlyInSharedSlots`, `WholeJobsAreIndexed`, `MarkNeverGoesBack`, `BatchSigMarkBacked` | the batch properties; the last but one speaks of range jobs |
| `BatchImplementsStore` | batch mode, crashes included, implements `IndexStore` |
| `RealtimeInvariant`, `RealtimeTypeCorrect` | the inductive invariant `RealtimeInv`; types, capacities |
| `AnchorLossesAccounted`, `PipelineKeepsOrder`, `AnchorAdvances` | the realtime safety properties |
| `RealtimeImplementsStore` | realtime mode, crashes included, implements `IndexStore` |
| `StartupInvariant`, `StartupTypeCorrect` | the inductive invariant `StartupInv`; types |
| `OpenMeansWhole`, `MisfitsHaveCauses` | the schema properties, for every sequence of deployments |
| `ApiInvariant`, `ApiTypeCorrect` | the inductive invariant `ApiInv`; types |
| `StatsTrustworthy`, `CheckpointFollowed`, `LatestAdvances` | what a client may conclude, for any number of tables and commits |
| `CountsInvariant` | the inductive invariant `CountsInv` of the answers that count rows |
| `SeriesTrustworthy`, `PagesComplete` | total against time series of any range, and paging with LIMIT and OFFSET, for any number of rows and any page size |
| `RowInvariant`, `TypeCorrect` | the inductive invariant `RowInv`; types |
| `RowReadsBack`, `RefusedForCause` | what a stored row shows and why one is refused, for every IDL, all data and whatever sqlx has cached |
| `ReaderStaysInside` | `decode_type` goes forward only and never leaves the data |
| `RoundTrip` | decoding undoes Borsh, for every type without unknown parts, however it nests, wherever it stands |
| `ReadInvariant` | the inductive invariant `ReadInv`: which message and which handler the values come from |
| `MeantIsRead`, `MissingIsBlank` | `FieldsDecodeExactly` and `TailIsBlank`, for every IDL, message, cut and pad |

Assumptions: `LedgerAssumption` (the chain is finite, complete, without repetition,
ordered by slot, and `UpTo` counts it), `ProcessorAssumption` (`BatchSize` at least 1,
well-typed calls), `BatchAssumption` (at least one job, each well typed, empty ranges
included), `RealtimeAssumption` (`ChanSize` and `MaxRuns` at least 1),
`WorkloadsAreLists`, `StartupAssumption` (well-typed deployments and name maps; a column
takes what is bound for its own type; the prefixes keep the tables of instructions and
accounts apart), `ApiAssumption`
(finitely many signatures and tables, well-typed maps, a page of at least one row),
`DecoderAssumption` (a byte has at least two values, `bool` and `u8` are one byte wide and
no type is empty; the parts of a type are types and less deep) and `TypedRowAssumption`
(well-typed entries, values that fit their types, messages of such values; digit, sign and
NUL are different bytes). TLC
evaluates all of them in the runs.

*ProcInv.* The properties speak of committed state; to be inductive they need what
the open transaction holds: `WorkExtends` (it contains the committed state, and the
checkpoint it will write is among its transactions), `CallsConsistent` (unless
aborted, its transactions are complete), `HandedKept` (every signature handed in is
committed, in the transaction, skipped, or still to be taken). `ProcessorProofs`
shows that each step keeps each part; the compositions reuse it, because their other
actions change the Processor only through `CallProcess`, `CallReturns`,
`RequestShutdown`, `ProcessLost` and, in batch mode, `MarkChunk`.

*BatchInv.* `LossAccounted` is carried through a chunk stage by stage: before
`chunk_start` all is accounted for (`CursorCovered`); the scan has seen, sorted, what
lies in the slots it went through (`ScanCovered`); what is not yet taken does not come
before what was taken last, so that a commit's slot never passes an untaken signature
of an earlier slot (`IndexCovered`); what is left when the chunk is saved is in
`todo` and becomes `stopped` (`SaveCovered`, `SavedCovered`). `MarkShared` says what a
checkpoint in the middle of a chunk names, which `SplitNeedsSharedSlot` needs.

*RealtimeInv.* `AnchorAccounted` speaks of the last commit; what makes the next one
safe is `TipCovered`: while the indexer works, everything confirmed is stored, on
record as a loss, in the list of the open call, or in `pending`, the channel or the
feed. A commit keeps the checkpoint within it because the pipeline is ordered and ahead
of the checkpoint (`PipelineAhead`): what is not later than the signature being stored
cannot be behind it in the pipeline (`WorkCovered`). Where batches are given up without
a record (the final flush, a task dropped at shutdown) the invariant asks nothing,
because then no further chunk begins; the next backfill lists them again. `MarksOrdered`
gives `AnchorOnlyAdvances`.

*RowsInv.* `OneRowPerTable` and `AccountRowsBacked` need the same of the open
transaction: its rows are unique too, and every address it has collected is that of one
of its transactions.

*MarkAhead, WholeCovered.* The slot checkpoint of a range job does not go back because it is before
`chunk_start` until the chunk is taken, and then not after anything still in the open
transaction or in `todo`; `IndexCovered` supplies the order. A list or latest job
inherits `HandedKept` from the Processor.

*StartupInv.* A table that exists has what CREATE TABLE gave it, whichever IDL it was
for (`TablesWhole`); of the entry under way the statements before `step` have had their
effect, and of those before it all (`LoopDone`); every column comes from the fixed part
of a table or from an IDL in `served` (`ColumnsSourced`). Columns are never dropped, so
a crash loses only the position in the loop, and the loop starts anew.

*ApiInv.* The store is consistent in every state (`StoreConsistent`) and only grows;
hence what a request has read so far is still a lower bound for what it reads next,
relative to `before` (`StatsSoFar`), the followed transaction stays (`FollowedSoFar`),
and the row found first is among those looked at later (`AccountSoFar`). The queries'
least and greatest elements exist because there are finitely many signatures
(`LeastExists`, `GreatestExists`).

*CountsInv.* A time series is read in one SELECT after that of the total: what it adds
up to is the number of rows of its range; with those outside they are all rows by the time
of its SELECT, which the store's growth keeps at or above the total (`SeriesSoFar`). That
the sum over the periods, a fold, is that number is shown by induction over the finite set
of periods. For the pages (`PagesSoFar`) a row not yet returned has another of its commit
among those returned (`Cut`), or has at least as many newer rows as the next page skips:
`OFFSET` then cannot pass its commit over.

*Recursion.* `decode_type`, Borsh, the columns and the meaning of a value are recursive
functions over the types, which TLA+ defines by CHOOSE: before anything can be said
of one, it must be shown that its equation has a solution. `RecursionProofs` does so once
for a function that only looks at types of less depth (`Recursion`), once for one over
0..n (`UpToRecursion`: the positions of `DecodeAll`, the numbers a read yields), and
for `FlattenSeq`. Statements about all types then go by induction over `Depth`.

*RowInv.* The column of a type and what `decode_type` can give for that type are put side
by side once (`Reads`, `DecodingDef`), by induction; with it, each property of a row is
a finite case distinction over columns and shapes of JSON (`FieldOutcome`). Nothing is
assumed of `stale` but that it consists of fields of TEXT columns (`Unsteady`).

*ReadInv.* `RoundTrip` goes from a type to its parts: if each part is read as it was
written, wherever it stands, then the reader's position behind each is where the encoding
of the next begins (`DecodeAllAt`), hence the whole is. Its base are the integers, whose
bytes give back the number (`NumberOfBytes`, `SignedRead`). The property speaks of a message
of which only the front has arrived; the encoding of the first fields is a prefix of that
of all (`EncodeAllIs`, `ArrivalIs`), so the argument applies up to the first field that
is missing. From there the reader rests at the end of the data, where every type reads as
nothing (`BlankAtEnd`).

Model-checked only: everything temporal (`CallEnds`, `JobSettles`, `HeardIsHandled`,
`ShutdownStops`, `ComesUp`), since fairness and ENABLED are out of the prover's reach. Every
safety property and action property of a passing run, and every refinement, is a theorem.

## 5. Abstractions

* One tip `now` for finalized blocks and confirmed transactions; the model's node
  never forgets nor forks.
* A retry loop is its outcome. Delays, back-off and timeouts have no clock.
* In the Processor a row PostgreSQL refuses is a fault of the environment, and decoding
  is the constant `Calls`: tables and accounts per call, without calls the IDL does not
  have. `TypedRow` models both in full, for one row.
* Bytes have few values and integers few bytes (`Radix`, `Width`); characters are bytes.
  Floating-point numbers are their bit patterns, of which one is NaN.
* sqlx's statement cache is a free choice of the fields that meet a statement prepared for
  another type, instead of a history of rows per connection: every outcome such a history
  can lead to is among them. A table with columns of an earlier IDL is the subject of
  `Startup`, not of `TypedRow`.
* Names and types of the schema are constants with maps between them.
* One client of the API, since the handlers write nothing; `created_at` is the number of
  the transaction, a period of the time series a number of commits.
* A transaction that cannot be normalised is treated as one that cannot be fetched:
  both are `Unreadable`, and both `continue`.
* The subscription announces in ledger order, each signature once.
* A batch job's configuration is one of a few; slots are small integers.

Not modelled, and why:

* the spelling of names (`to_snake_case`, `sanitize_col`) and the hash behind
  a discriminator: pure string functions, whose collisions are the instances';
* decompression and JSON parsing of the IDL, base64 and base58: library calls, one
  outcome each;
* routing, JSON layout, `/schema` and the slot and time filters of the API: no state;
* defaults and number parsing of `config.rs`; arithmetic on 64-bit slots and retry
  delays, which only settings near 2^64 or a `BATCH_SIZE` of 0 bring to their limit;
* logging.

## 6. Plan

Done: the Processor with its abstract store, batch and realtime mode; start-up and
schema; decoder and value binding; the API's reads; proofs of the inductive invariants,
of all safety properties, of the action properties and of the refinements.

Left, each of small use: the time filters of `/ix`, which would add a lower bound of
`created_at` to `Newest`; several accounts and types per address; the overflow of
`chunk_start + batch_size - 1` with slots of real width.

## 7. Running

```
tlc -config MCBatch.cfg MCBatch
tlc -config MCApiReads.cfg MCApiReads
tlapm BatchProofs.tla
tlapm StartupProofs.tla
tlapm TypedRowProofs.tla
```

Every passing run ends within a minute on two workers. The definitions commented
"Mutant of X" belong to no specification: each is a plausible bug in X, and
`PROJECT.json` names the property that fails when X is replaced by it.
