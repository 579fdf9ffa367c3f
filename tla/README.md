# A TLA+ model of the mini SQL server

The program is a small SQL database with an HTTP front end, written in C: one
process accepts connections, hands each of them to a pool of worker threads, and
runs SQL statements one at a time against `.tbl` files with a B+ tree index in an
`.idx` file beside each.  This directory holds TLA+ modules for its parts, TLC
configurations that check them on small instances, and TLAPS proofs that hold for
every size of thread pool, server, request reading, B+ tree, table with its index,
seeder and shell.  Paths below are relative to the repository.

## 1. Inventory

| part | state | operations | what makes it correct |
|---|---|---|---|
| thread pool (`src/concurrency/thread_pool.c`) | ring buffer `queue`, `head`, `tail`, `count`; `stopping`; one mutex; condition variables `not_empty`, `not_full`; the threads | `thread_pool_create`, `submit` (blocks on a full queue), `worker_main`, `destroy` | FIFO, every accepted task runs once, no wakeup is lost, destroy drains the queue and joins everybody before it frees |
| B+ tree (`src/storage/bptree.c`) | header (root, first leaf, pages, key count, next id) in memory and in the file; nodes in the file | `open`, `insert` (recursive split), `search`, `visit` (six comparison operators), `destroy` | lookups and range visits give what was inserted, in order; a file a killed process leaves behind is recognised |
| database (`src/storage/database.c`) | cache of loaded tables (index, `next_id`, `row_count`); `.tbl` and `.idx` files with their time stamps | `load_table` with the rebuild decision, `execute_select` by index or scan, `execute_insert` | index and table agree, ids are unique, an acknowledged row is found, also by later processes |
| DbApi (`src/api/db_api.c`) | the engine mutex | `db_api_execute_sql` | statements are serialised; the mutex is released on every path |
| HTTP server (`src/api/api_server.c`) | listener, connections, metrics with a mutex of their own | accept loop, `handle_client`, `metrics_record`, shutdown | every connection is closed once; metrics are exact; resources outlive their users |
| HTTP requests and replies (`src/api/api_server.c`) | per request: a buffer for header, body and a zero; the reply | `read_http_request`, `extract_sql_text`, `format_query_body` | what is read does not depend on how `recv` cuts the stream; the buffer is not overrun; SQL text and result table survive their JSON encodings |
| engine and executor (`src/sql/engine.c`, `executor.c`) | none of their own | one statement: read, then change | see database |
| tokenizer (`src/sql/tokenizer.c`) | position in the text | `tokenize_sql` | every token is a lexeme, as long as it can be; an error is where none begins |
| parser and optimizer (`src/sql/parser.c`, `optimizer.c`) | the next token, the statement so far | `parse_statement`, `optimize_statement` | exactly the grammar is accepted; the statement means what the text says |
| REPL (`src/apps/main.c`) | line and statement buffers | the loop of `run_repl` | what is executed is what was typed |
| seeder (`src/apps/seed_main.c`) | row number, the table's files | new table, `--resume`, loop of INSERTs | after any number of killed and resumed runs ids are row numbers |
| benchmark, demo, trace (`src/apps/`, `src/common/trace.c`) | local | measuring and printing | not modelled |
| legacy storage (`src/storage/storage.c`) | - | nothing calls it | not modelled |

How they interact.  The thread in `api_server_run` is the only one that calls
`thread_pool_submit` and `thread_pool_destroy`.  Workers run `handle_client`; a
`POST /query` goes through `db_api_execute_sql`, which holds one mutex around the
whole statement, so everything below it (engine, database, B+ tree) is sequential.
`/health` and `/metrics` take no engine mutex.  Processes follow one another on the
same files: what one leaves behind when it is killed is what the next one finds.

What is hard: signals instead of broadcasts on two condition variables, shutdown
while threads go to sleep, kills between the append to the table and the writes of
the index (and between two writes of a split), the guess whether an index file is
current, clients that say nothing, do not read their reply or leave early, I/O that fails half way through a
statement, byte streams cut anywhere, buffers at their limits, text that passes through
three encodings (JSON, SQL, CSV) and back.  `PROJECT.json` lists these hazards with their lines and the properties
that watch them.

## 2. Modules

| module | models | role |
|---|---|---|
| `TaskPool` | the promise in `include/thread_pool.h` | abstract specification, refined by `ThreadPool`, used by `ApiServer` |
| `ThreadPool` | `thread_pool.c` | detailed specification |
| `ThreadPool_proofs` | - | TLAPS proofs about `ThreadPool`, among them that it implements `TaskPool` |
| `MachineInt` | C `int`, `id + 1` and the comparisons of a WHERE clause | shared by the next two |
| `BPlusTree` | `bptree.c` | every page and header write is a step |
| `BPlusTree_proofs` | - | the tree, its headers and its chain of leaves at every write |
| `Database` | `database.c` | one table, one process after another |
| `Database_proofs` | - | the table whatever fails |
| `Seeder` | `seed_main.c` | extends `Database`: the seeder's runs between those of other processes |
| `Seeder_proofs` | - | table, index and seeder when nothing but kills happens |
| `ApiServer` | `api_server.c`, `db_api.c` | composes `TaskPool` with the handlers, the mutex, the metrics and the clients |
| `ApiServer_proofs` | - | proofs about `ApiServer` |
| `Text` | - | positions in a text, shared by the next three |
| `HttpRequest` | `api_server.c` 178-525 | one request from its byte stream to the SQL text |
| `HttpExchange` | `api_server.c` 527-965, 1108-1148 | extends `HttpRequest`: the engine's answer and the JSON reply |
| `HttpExchange_proofs` | - | proofs about the reading of requests and about what replies carry |
| `Tokenizer` | `tokenizer.c` | `tokenize_sql` as an operator, and what tokens are |
| `Repl` | `main.c` | extends `Tokenizer`: characters typed, lines read, texts executed |
| `Repl_proofs` | - | proofs about the texts the shell executes and the tokens in them |
| `SqlParser` | `parser.c`, `optimizer.c` | one action per kind of token, and the grammar |
| `CommonLemmas` | - | least and greatest numbers, induction and recursion in a form the provers can use, sequences and what `FlattenSeq` returns |
| `MC...` | - | values for the constants |

Definitions commented as *mutants* (`SubmitPushNoSignal`, `SplitHigh`, ...) are the
definition they are named after with one plausible slip in it.  No
specification uses them; each property is known to fail when its mutant takes the
place of the original, so that every property is shown to depend on the code.

### ThreadPool

A critical section of `thread_pool.c` is one action, because nothing in it can be
observed by another thread before the unlock; `cond_wait` ends an action, and the
thread comes back through "lock".  `Signal` wakes one sleeping thread, any of them,
`Broadcast` all of them, and both kinds of sleepers may wake up for no reason.  A
thread that was woken still competes for the mutex with threads that arrive from
elsewhere; that is where a wakeup could be lost.  `CreateFails` and
`CreateWorkerFails` are the error paths of `thread_pool_create`.  Sizes of zero are
replaced by the defaults, as in the code (`WorkerCount`, `Capacity`).

`thread_pool_destroy` does not wait for threads inside `thread_pool_submit`.  When
somebody other than the owner submits, that thread may use freed memory; the model
has the action `SubmitterUsesFreedPool` for it.  The server is not
concerned: its only submitter is the thread that destroys the pool
(`NoUseAfterFree`, theorem `NoUseAfterFreeInServer`).

### BPlusTree

`file` is the index file as this process reads it, `stable` the file as the next
process would find it: a write stays in the stdio buffer until the next seek, so
`stable` lacks at most the last one.  `todo` holds the writes of the current step
that are still to be done, one action each.  A kill needs no
action; `stable` is at every moment the file a killed process would leave, and
`StaleFileIsDetected` is stated of it.  Descent and ascent of `insert_recursive`
are steps with an explicit `path` (the C stack) and `carry` (`InsertResult`).
`CanAllocate` bounds the file by `MaxPages`; an insert that needs more stays where it is.
`Search` and `Visit` read and change nothing and are operators.

### Database

A row is an id and what its line is like; an offset is a position.  A line is short, or
longer than `fgets` takes; the last one may lack its newline, with all its columns (open)
or without some of them (cut); a row appended behind such a line makes it a joined one
and is itself its tail.  The B+ tree appears as
the map it implements, with the size and next id of its header, and `torn` when a
write of the last insert is missing.  There are three copies of it: `index` (header in
memory, nodes as this process sees them), `written` (what this process has handed to
stdio) and `disk` (what the next process would find).  `Settle` is the effect of any
seek or close: the buffered write arrives.  `Kill` may happen between any two steps;
`CopyTable` is an operator of the machine who replaces the file while no process
runs, `EditTable` one whose editor drops the newline of the last line.  The next INSERT
is then appended to that line: the index finds the second row by its
offset in the middle of the line, the first one and any scan meet a line with too many fields, and the
table cannot be loaded by the next process.

The append is not one step for the disk.  Its result is never looked at (`database.c`
1111-1118): `InsertAppendFails` goes on to the index insert with nothing or only a part of
the row in the file, and `KillDuringAppend` is a kill between the writes of a row above
the stdio buffer (`wide` or `long`).  The fragment is a line for `count_table_rows`, so
that the counts agree and the index is trusted; without the row they do not.
`Failures` says what may go wrong in an instance; a failure of a read, a
write or an append happens once.

`IndexedSelect` and `LinearSelect` take the operator of the WHERE clause and the id it
compares with: the first fetches the lines at the offsets of the matching keys, whatever
is in them, the second compares every line.

### Seeder

`SeedFresh` and `SeedResume` are what `main` does before its first statement, with the
kills inside `prepare_table` in `KillDuringPrepare`.  The statements themselves are the
actions of `Database` (`SeedInsert`, `SeedStep`); between two runs of the seeder any
other process may use the table (`OtherStep`), which `mixed` records.

### HttpRequest and HttpExchange

A byte is a character, "x" standing for all that nothing looks at; the name
`Content-Length:` is one byte. A client's stream is fixed at the start, together with
the SQL text the client means by it, which `Means` relates to the body without looking
for it as the code does: a JSON object has a place where the first field "sql" with a
string for its value begins, and a JSON reader (`Read`) takes the text from what stands
up to one of the quotes behind it; plain text stands between spaces.  The reader knows every
two-character escape of JSON and one of the \u forms; the code reads `\b`, `\f` and `\u` as
the letter (`api_server.c` 482-493), and `SqlTextSurvives` is stated for texts that can be
read without these three (`Understood`). Each `recv` delivers any number of bytes up to what was asked for.
`size_t` has the modulus `SizeModulus`. `pc = "undefined"` is a write behind the buffer.
`HttpExchange` continues with `handle_query`: the engine prints any of `Tables` as CSV
text, which `Projection` cuts up again, and every string of the reply is the sequence of
characters between its quotes, to which the client applies the same reader (`ReadBack`),
written independently of `Escaped`.

### Tokenizer and Repl

`Type` is one character of input; `fgets` returns at a newline, a full buffer or the
end of the input, so that a long line arrives in pieces.  `Execute` hands the buffer
to the engine, whose verdict is either if the text has tokens and an error if it has
none.  `TokenizeSql` is a recursive function like the loop; `RightTokens` says what
its result must be without saying how it is found (longest lexeme at each place).

### SqlParser

The parser never goes back, so that its control state is a place in the grammar.  The
next token is chosen when it is looked at, which enumerates all texts.  `Sentences` is
the grammar as a set; `Rendered` turns a statement back into tokens.  `Compact` is one turn
of the loop in `optimize_select`, on the array it reads and writes: a name is moved to
`write_index` or its slot is freed (`None`).

### ApiServer

Start-up (each resource in turn, or its failure and the release of those before it),
the accept loop and, per connection, the handler.  `up` becomes false when SIGPIPE
ends the process: `send` is called without `MSG_NOSIGNAL` and no handler is set.  A
SQL statement is one step that reads the table and another that changes it, so
that two statements inside at once would lose an update.  A client connects, sends its
request at some later time or never, begins to read its reply or never does, and may hang
up at any time.  `send` has no timeout, so that a handler returns from `send_all` for
certain only if the reply is small or its client reads or has hung up (`Drained`); what
the engine prints may be large (`MayBeLarge`).

## 3. Runs

| run | instance | shows |
|---|---|---|
| `pool` | 2 workers, ring of 2, 4 tasks, 3 submitters of which one is the owner, fair threads | no worker sleeps while a task waits unclaimed, no submitter is forgotten, nobody sleeps through shutdown; ring consistent over a wrap-around; each task in one place; nobody inside the freed pool; refinement of `TaskPool`; accepted tasks run, submit and destroy return |
| `tree` | 2 keys per node, 6 ids in every order | search, all visits, balance, header, stale file |
| `database` | up to 4 rows, ids named or automatic, the largest int among them, 3 seconds, kills anywhere, seeder runs of 2 or 4 rows, new and resumed | index and scan answer alike for every operator, a trusted index is complete, ids stay unique and free, acknowledged rows are found, ids of a seeded table are its row numbers |
| `database_faults` | kills, also inside an append, a failing read or write of the index, an append of which nothing or a part reaches the disk, rows above the stdio buffer and above `fgets`, a last line without newline, a longer copied file | the index never leads to a row of another id (`IndexNeverPointsWrong`, as long as no append failed); a failed append alone hides no other row, from this process or a later one (`WholeRowsAreFound`) |
| `server` | 2 connections, 2 workers, queue of 1, every kind of request, fair threads and clients, a statement may run for ever | no lost update, reads see acknowledged writes, no descriptor used after its close, nothing released before its last use and nothing left at the end, also after a failed start; metrics exact, and complete for closed connections; every connection ends and shutdown completes if statements end and clients send, read or hang up; `/health` and `/metrics` are answered even if they do not |
| `http` | 248 requests (JSON strings of up to two signs, with every escape, an unknown one and a raw control character, in three layouts, plain texts, lengths at, below and above the limits, odd headers), 123 tables | `ChunkingIrrelevant`, `BufferHolds`, `SqlTextSurvives`, `ReplyCarriesAnswer` |
| `repl` | every text of 5 characters out of 13, lines of up to 4 | `ExecutedAsTyped`, `TokensAreRight` |
| `parser` | 3 names of which two differ in case only, 2 operators, lists of up to 3 | `GrammarExactly`, `StatementMeansText` |

Runs that end in a counterexample, each against a sentence of the repository
(quoted under "findings" in `PROJECT.json`):

| run | what the code does |
|---|---|
| `copied_table` | a copied `.tbl` with as many rows and no newer whole second keeps the old index, and `WHERE id` returns rows of other ids |
| `lost_index_write` | after a failed flush of a leaf, the header counts a key that the file lacks, and the index is trusted |
| `silent_clients` | clients that send nothing hold the workers, the queue and the accept loop for good |
| `client_hangs_up` | a reply to a connection that was reset ends the process by SIGPIPE |

More limits of the code are in the model and outside the instances above, so
that the properties can be stated of everything else.  They show up when a
configuration admits them:

* `Lengths = {"long"}` in `database`: a row above 8191 bytes is acknowledged, cannot be read through
  the index (`database.c` 641), and makes the table unloadable for the next process
  (`AckedRowIsFound`, `TableStaysLoadable`).
* after an id equal to `MaxInt`, `next_id = inserted_id + 1` wraps (`database.c` 1127); a later
  small id moves it into ids that are taken, and automatic ids are refused.
  `AutoIdIsFree` ends where such an id begins; the ids stay distinct and the answers right
  (`TableStaysLoadable`, `IndexAnswersLikeScan` in the same run).
* `"tbl" \in Failures`: nobody looks at the result of the append (`database.c` 1111-1118).
  The INSERT of a row of which nothing or a part is in the file is acknowledged
  (`AckedRowIsFound`).  A part counts as a row, the index is trusted, and a SELECT
  of its id meets a cut line, or a joined one after the next INSERT: an error reply.  If
  the lost row left nothing, the next one is written where it should have been, and
  the index has two ids for its offset (`IndexNeverPointsWrong`); together with a kill the
  index may be trusted and an id be given twice.  When the index is built
  again, a cut or joined line makes the table unloadable.
* a kill inside the append of a row above the stdio buffer leaves a cut line too
  (`Lengths` with "wide" rows in `database`): the counts differ, and the next process
  cannot build the index (`TableStaysLoadable`).
* a failed index write or read can be followed by a second row of the same id (`database.c`
  1078, 1120), after which the table cannot be loaded (`"idx" \in Failures` in `database`,
  `TableStaysLoadable`).
* a JSON string with `\b`, `\f` or `\u` gives the engine the letter instead of the character
  (`api_server.c` 482-493; `SqlTextSurvives` with `Escapes` in the place of `Understood`).
* `Content-Length` at or above 2^w (`api_server.c` 276): the value wraps before it is
  compared with the limit.  What is read still fits the buffer (`BufferHolds` holds with
  such lengths in the instance); only that the request is refused cannot be expected
  (`Regular` in `ChunkingIrrelevant`).
* a header that ends in LF LF with CR LF CR LF somewhere behind it (`api_server.c` 229-242):
  where the header ends depends on how many bytes the first `recv` brings (`Regular`).
* the header has no limit of its own: `HEADER_LIMIT_BYTES + max_body_bytes` is that of the
  first loop (`api_server.c` 342), so that a header above `HEADER_LIMIT_BYTES` followed by a
  large body overruns the buffer.  `BufferHolds` and the run `http` say that it is not
  overrun by requests whose header is within that limit, and nothing about the others.
* a row printed as an empty line (one selected column with an empty value) is left out of
  `rows` and `rowCount` (`api_server.c` 820), and a column name that is no identifier
  leaves all rows out (776); `result` has them (`Shown` in `ReplyCarriesAnswer`).
* the REPL puts a newline after each piece of a line above 4095 characters
  (`main.c` 144-160), inside a word or a string too; `ExecutedAsTyped` compares texts without
  line ends.

### Bounds

* The pool: a ring of 2 and four tasks, so that full, empty and wrapped rings occur;
  two workers so that a signalled and an arriving worker compete, three submitters so
  that two can sleep while a third takes the free slot.  The safety properties are also proved for every size.
* The tree: the smallest nodes that can split; six ids give three
  levels, with splits of leaves and internal nodes on the left, in the middle and
  on the right, because every order of insertion is explored.  The program's nodes hold
  an odd number of ids (63); three levels of odd nodes need ten ids, too many for TLC,
  but the safety properties are also proved for every node size.
* The database: `MaxClock` = 2 separates "same second", "one later" and "between";
  four rows allow an insert, a kill, a restart and two more inserts.  `MaxInt` stands
  for INT_MAX; in `database` a statement may name it, so that `next_id` wraps.
* Partly written lines: tables have columns besides the id; the part of a row that reaches the
  disk goes beyond the id and a comma and fits `fgets`, as does the line it is joined to,
  unless its tail is long; and an append fails half way only on a line of its own
  (`AppendPart`), so that no line has three rows in it.
* The server: two workers for races between handlers, a queue of one and two
  connections, of which one may be queued while the other holds the engine; three
  connections, one waiting in `thread_pool_submit`, in `silent_clients`.
* HTTP: a header limit of 14, a body limit of 30 and pieces of up to 9 bytes keep the order
  of the real ones (8192, `max_body_bytes`, 4096), and a `size_t` of 6 bits puts
  lengths beyond its width among the inputs.
* The REPL: lines of 4 and texts of 5 characters have a line in two pieces, two
  statements, a statement in three lines, and every pair and triple of characters
  for the tokenizer.  The parser: three items are the fewest with a repetition that is not
  adjacent.

### Fairness

* `ThreadPool`: weak fairness of each worker, each submitter inside submit, and the
  owner's join and free: the operating system runs threads that can run, tasks return.
  Fairness of a signal's choice is not assumed.  Calling submit or destroy is not fair.
* `ApiServer`: `ThreadFairness` is the same for the accept loop and the handlers;
  `EngineFairness` says a statement ends and a free mutex goes to a waiter (weak
  fairness is enough, as each connection needs the mutex once and there are finitely many);
  `ThreadFairness` says of a handler in `send` only that it goes on when its client lets it
  (`Drained`).  `ClientFairness` says a connected client sends its request and reads a
  reply that may be large, or hangs up.  It is an assumption
  about clients that the code does not enforce, neither `recv` nor `send` has a timeout; `silent_clients`
  shows what happens without it.  `HealthWithoutDb` speaks of requests that have arrived, and
  replies to `/health` and `/metrics` fit the socket buffers: no client can hold them up.
  `server` does not assume `EngineFairness`: the properties that need it name it.

## 4. Proofs

Every theorem holds for all values of the constants that satisfy the assumption named in
the module that declares them.

### The thread pool

`ThreadPool_proofs` proves, for all constants that satisfy `PoolAssumption`
(any worker count and capacity in the naturals, any set of tasks, a finite set of
submitters with the owner among them):

* `Invariance`: `Spec => []IndInv`;
* `TypeCorrectness`, `WorkersAreWoken`, `SubmittersAreWoken`, `ShutdownWakesAll`,
  `RingAgrees`, `TasksKeptApart`, `DestroyDrains`, `FreedIsUnused`: the properties
  `TypeOK`, `NoLostWorkerWakeup`, `NoLostSubmitterWakeup`, `NobodySleepsThroughShutdown`,
  `RingConsistent`, `TasksInOnePlace`, `FreedMeansDrained`, `NoUseAfterFree`;
* `NoUseAfterFreeInServer`: when the owner is the only submitter, no thread at all is
  inside the freed pool.

The argument.  The wakeup properties count: while somebody sleeps, the number of
awake threads that will pass the mutex is at least the number of queued tasks (free
slots).  A push adds a task and, if a worker sleeps, wakes one; a worker that goes to
sleep leaves "lock", but only when the count is zero; a pop takes one from both
sides.  This needs that workers that do not exist or have exited do not sleep, and
that no submit overlaps the creation of workers, which `OwnerProgress` says.
`NobodySleepsThroughShutdown` follows from the broadcast and from the loop conditions,
which never wait once `stopping` is set.  `TasksInOnePlace` speaks of the occupied
slots, given without modulo by `Occupied`; the lemmas `PushOccupies` and `PopFrees`
say how a push and a pop change that set, and need `RingConsistent` to know that `tail` is
the first free slot.  `TypeOK` needs `TasksInOnePlace` because what a worker takes out of a
slot must be a task.  `IndInv` is the conjunction; each conjunct has its own step lemma,
with one case per action.

The refinement is `PoolImplementsTaskPool`: `Spec => ImplementsTaskPool`.
The abstract queue is the stretch of the ring from `head`, `count` long; a push appends
to it and a pop takes its head, because `RingConsistent` places `tail` behind the last
element; every other step of the code leaves the abstract state as it is or is a start
or an end of the pool.

### The server

`ApiServer_proofs`, for any set of connections, any number of workers and any queue:
`TypeCorrectness`, `ClosedIsForgotten`, `ReleasedIsUnused`, `StatementsAreSerialised`,
`WritesAreRead`, `MetricsAreCurrent`, `MetricsAreExact` from the inductive invariant
`IndInv`.  Its parts: `LoopState` (which resources exist at which place of
`api_server_run`), `OnePlace` (a connection is with the accept loop, in the queue or
with one handler), `HandlerProgress` (how far a handler is and what it holds), `Mutex`
(only the holder is inside a statement, and what it read is still the table), `OwnIds`
(every INSERT that changed the table has an id of its own), `KnownIsKept` (what a client
knew when it sent its request is still there) and `CountersAgree` (metrics and the set of
recorded connections).  `Mutex` is the heart: without "what it read is still the table"
the step that writes back what was read, with the new row, preserves nothing.

### Requests and replies

`HttpExchange_proofs`, for every stream, every way `recv` cuts it, every limit and every
width of `size_t`: `BufferIsHeld` and `CutsDoNotMatter` (`BufferHolds` and
`ChunkingIrrelevant`, with the hypotheses the properties themselves have), from
`ReadInv`.  What was received is a prefix of the stream; the place where the header ends
is that of the whole stream (for `Regular` streams, where CR LF CR LF and LF LF do not
compete); the capacity of the buffer is known at each place.  `ExchangeReads` says that the
exchange takes no other steps while it reads.

`SqlTextsSurvive` states `SqlTextSurvives` for all streams and texts that
`MeaningAssumption` relates: the text is what a client means by the body.  From
`CutsDoNotMatter` the engine is given `ExtractSqlText` of the body that Content-Length
announces; `JsonTaken` and `PlainTaken` say that this is the text.  For JSON, `FirstField`:
the keys the code accepts are the fields the client may have written, with any spaces
between the parts, so the least of both is the same.  `ReaderAgrees`: the loop of
`extract_json_sql_string` and the JSON reader are two recursions over the same characters,
one up to the first quote it meets, the other up to a given one: where the reader
finds something to read everywhere, with the escapes of `Understood`, they take the same
steps and give the same text, by induction from the end of the string; no escaped quote
or backslash makes the loop stop early or go on.

`RepliesCarryAnswers` states `ReplyCarriesAnswer` for all tables and error texts that
`ExchangeAssumption` allows: values without commas and line ends, as
`validate_storage_value` leaves them, rows as long as the header.  The invariant
(`ReplyMade`) only says that the reply was made from the answer; the proof is about the
functions on the way.  `ReadEscaped`: reading an escaped text gives the text, because each
character becomes one or two that the reader takes together (`StandsFor`), and the reader, a
recursion from the end of the text, therefore goes from one to the next.  `SplitBody`,
`SplitLines`: cutting at commas and at line feeds gives back the fields and the lines that
were put together, also empty ones, when they do not hold the mark themselves.
`ProjectionReadBack` joins them.  That rows printed as an empty line are lost is the
hypothesis `Shown` of the property.

### Table, index and seeder

Two sets of theorems, because the properties differ in what they survive.

`Seeder_proofs` assumes `Undisturbed`: the process may be killed anywhere, and the seeder
may run and resume in between, but rows fit `fgets`, reads and writes succeed and nobody
else changes the file.  Without these the properties are false, as section 3 shows for
each.  Under them, for every number of rows, ids and seconds: `TableIsLoadable`,
`TrustedIndexIsComplete`, `IndexAgreesWithScan`, `AckedRowsAreFound`,
`SeededRowsAreNumbered`, `AutoIdStaysFree`.  `IndexAgreesWithScan` is about all six
operators.  The invariant says that between statements the index is exactly
`BuiltIndex(rows)`, what `build_index` would make of the file, that at "append" it is that
of all rows but the last, and that a file that counts as many keys as there are rows is
`BuiltIndex(rows)` too; so that a kill anywhere leaves an index that is right or has the
wrong count.

`Database_proofs` assumes nothing about failures: kills, failed reads and writes of the
index, appends that fail wholly or half way, long lines, lines without a newline, copied files.  `FaultInvariance`
has two parts.  `PlacesRight`: as long as no append failed and no file was copied, every
entry of each of the three copies of the index leads to a row of its id; that is
`EntriesLeadToTheirRows`.  `ShortRowsServed`: as long as nothing but an append failed, the
index has the right entry for every row on a line of its own, in memory and in any file
whose size is the number of lines; with the offset that was kept between append and index
insert, that is `FailedAppendsCostNoOtherRow`.  It rests on offsets that come from the end
of the file and not from a count: `row_count` is off by one for every long row and every
lost one, and the property fails if the offset is taken from it (`AppendRowAtCount`).

### The B+ tree

`BPlusTree_proofs`, for every node size from 2, every set of ids, every order of insertion
and every number of pages (`TreeAssumption`): `TypeCorrectness`, `SearchIsRight`,
`VisitIsRight`, `TreeStaysBalanced`, `StaleFileDetection`, and `HeaderAgreement`
(`HeaderAgrees` as long as INT_MAX is not an id: `next_id` is then `id + 1`, wrapped,
`bptree.c` 615).

Most of the time an insert is half done, and neither the file nor the struct is a search
tree.  `TreeInv` therefore speaks of `N`, what the pages will be when the writes in `todo`
are done (`Leads`), and gives each page a level `lv` and the ids it is responsible for,
from `lo` up to `hi`:

* `Shaped`: a leaf holds the ids of its range, in order, with their values, and links to
  the leaf whose range begins where its own ends; the keys of an internal node are the
  ends of its children's ranges; ranges of one level are disjoint.  After a split the
  left half is responsible for less than its parent believes, until the promoted key arrives:
  `top` is where a range ends in the eyes of the parent, and differs from `hi` for
  that one page, which `SplitBelow` names.
* `FilledRight`: every page but the root is at least half full, also at odd node sizes.
* `PathRight`: `path` leads from the root towards the leaf of the key, one level a step.
* `HeadersRight`: what the headers in the file, in the stable file and in memory count at each
  place of an insert; the header in the stable file counts the id only when every other
  write of the insert is stable.

`TreeInvariance` has one lemma per action (`LeafInsertKeeps`, `LeafSplitKeeps`, ...), each
resting on a lemma about the sequences: what inserting into sorted keys, halving a leaf and
halving an internal node do to ranges (`LeafHalved`, `KidsHalved`, `TakenUp`, `RootAbove`).
For the operators, levels give the recursion its end: `Walk` goes down one level per page
(`WalksDown`), and ranges ascend along the chain of leaves, so that it has no page twice
and `Visit`, which follows links, is at its end within the length of the file (`ChainRight`).
`FullyCounted` is the heart of `StaleFileDetection`: a header that counts as many ids as
there are rows is the one in memory, and then the stable file lacks no write.

### The shell

`Repl_proofs`, for every set of characters and every size of the line buffer:
`TextsAreExecutedAsTyped` (`ExecutedAsTyped`) from `ReplInv`, which adds that a line has no
newline before its last character, and that what waits for the engine is complete.  The
lemmas `JoinedConcat`, `TrimmedLine` and `CompletedByLine` say what concatenation,
`trim_newline` and the search for a semicolon do to texts of any length.

`TokenizerIsRight` states `RightTokens(text, TokenizeSql(text))` for every text, and
`ExecutedTokensAreRight` that `TokensAreRight` holds of whatever is executed.  There is one
lemma per kind of token, which says that `tokenize_sql`'s branch for its first character
takes the longest lexeme there; the loop itself is a recursion whose argument moves by
the length of a token, and goes through by induction on the rest of the text.

### Induction

The library's induction theorems have an operator as a parameter, which the installed
provers cannot instantiate.  `CommonLemmas` states induction over the members of a set
(`SetInduction`, `StepwiseIn`) and the existence of functions defined by recursion along
an interval, by single steps (`RecursionExists`) or over any distance
(`BackwardRecursion`, with `DownwardIn` for the induction), from the well-foundedness of the
naturals.  With them the proofs can use what `NextIdOf`, `DeclaredLength`, `Walk`,
`Visit`, `TokenizeSql`, `Split`, `Read` and `FlattenSeq` compute for every input.

### Only model-checked

* Liveness (`pool`, `server`): the prover has no rules for fairness and ENABLED.
* `HeaderAgrees` with INT_MAX among the ids: it is false there, see above.
* `GrammarExactly`, `StatementMeansText`: that a set of sentences, built by recursion, is the
  language the parser accepts; the sets themselves, not an index into them, are what
  the recursion builds.

## 5. Not modelled

* Windows variants of the socket and thread calls; status lines, the text of the
  metrics and of log lines.
* Several tables and the cache of them by case-insensitive name; columns other than
  `id`, filters on them and projection.
* An append that stops before the first comma of its row, or half way behind a line
  without newline; edits of the table while a process has it loaded; two processes on the same data directory at a time.
* Hangs and failures of the timing log, of `printf`, and of memory allocation where
  the code only returns an error and changes nothing (those that change something are
  `TaskAllocationFails`, `TmpfileFails`, `CreateFails`).
* The command lines and the file mode of `main.c`; benchmark, demo and test programs;
  `ast.c` beyond its types; `storage.c`, which nothing calls.

## 6. Plan

1. `BPlusTree` shown to implement the index map that `Database` uses, by refinement.
2. The grammar of `SqlParser` in a form that can be proved about.
3. The cache of tables by case-insensitive name.
