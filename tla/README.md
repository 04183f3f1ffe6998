# A TLA+ development of duckdb_firebird

`duckdb_firebird` is a DuckDB extension that attaches a Firebird database and
reads its tables.  It is C++ (the DuckDB side: catalog, transactions, scan,
optimizer pass) over a Rust static library (a C interface over a patched copy
of the `rsfbclient-rust` wire client).  This directory holds TLA+ models of the
parts of it that are stateful or subtle, the TLC configurations that check
them, and TLAPS proofs of their most important properties.

Paths below are relative to the repository; `client.rs`, `wire.rs`, `xsqlda.rs`
and `arc4.rs` are in `native/rust/vendor/rsfbclient-rust/src/`, `lib.rs` is
`native/rust/src/lib.rs`, and the C++ files are in `native/src/`.

## The system

| Component | State it keeps | Operations | Talks to |
|---|---|---|---|
| Attach (`firebird_storage.cpp`, `firebird_settings.cpp`) | connection parameters of the catalog | parse the DSN, merge options, DSN and environment | hands the parameters to the catalog |
| Catalog (`storage/firebird_catalog.cpp`, `_schema_entry.cpp`, `_table_entry.cpp`) | one schema, `main`; the parameters | look a table up, scan the schema, refuse every write | asks the transaction for entries |
| Transaction (`storage/firebird_transaction*.cpp`) | introspection connection (opened lazily), cache of entries, `entry_lock` | `GetCatalogEntry`, `LoadAllEntries`; start, commit, roll back | queries through the introspection connection |
| C++ wrappers (`firebird_connection.cpp`) | an owned connection or cursor | `GetTables`, `GetTableColumns`, `GetAllTableColumns`, `Next`; map types | C interface |
| Scan (`firebird_scanner.cpp`) | the SQL text, `claimed`, one cursor, `done` | build the statement with pushed filters and limit, claim the cursor, fill chunks | cursor wrapper |
| Limit pass (`firebird_scanner.cpp`) | `has_limit`, `limit_rows` of the scan's bind data | visit the optimized plan | runs after DuckDB's optimizers |
| C interface (`lib.rs`) | owned connections, cursors (iterator before connection) | connect, introspection queries, open, next, cell accessors | rsfbclient core, which drives the wire client |
| Wire client (`client.rs`, `wire.rs`) | socket, read buffer, `lazy_count`; per statement `pending` and `eof` | connect, attach, begin, prepare, execute, fetch, blobs, free | the Firebird server |
| Column descriptions (`xsqlda.rs`, `blr.rs`) | the description being put together | parse (it may come in parts), coerce, encode | prepare and execute |
| Stream cipher (`arc4.rs`) | two positions in a key stream | encrypt on write, decrypt on read | between the client and the socket |

How they interact: DuckDB calls the catalog and the scan from several threads.
The catalog's queries of one transaction share one connection under
`entry_lock`; every scan opens a connection of its own.  Below the C interface
everything is synchronous: a request is written, a reply is read from a
blocking socket with an optional timeout, and the order of replies is all that
relates them to requests.  Firebird sends rows of a batch as a burst of
records, and answers `op_free_statement` although the client does not wait for
that answer.

What is hard here:

* *order and framing*: bursts cut anywhere, replies not yet read, replies that
  nobody waited for, rows held in three queues;
* *failure in the middle*: of a batch, of a blob, of the two queries that load
  the catalog, of an operation whose reply then stays in the socket;
* *interleaving*: threads of one transaction, and DDL by other clients between
  any two queries;
* *meaning*: filters and limits that are rewritten as SQL and not applied
  again (filters), or that must not change what is applied again (limits).

`PROJECT.json` lists the hazards, each at its line and with the properties
that are about it.

What makes each component correct, in words:

* fetch: every row once, in order; the end only after the last row; no request
  after the end; no half blobs; progress however the burst is cut;
* replies: an operation takes its own reply; a failure has a cause;
* catalog: within a transaction a table keeps its columns and a pointer to it
  stays valid; a scan misses no table that was there throughout; the connection
  has one user at a time; every call ends;
* filters: the statement returns exactly the rows that pass;
* limits: the result of the query does not change, also where the limit meets
  filters in one statement;
* scan: over all threads the rows are handed on once and in order, the end is
  reported only after the last, and the iterator, whose borrow of the connection
  is transmuted away, never outlives it;
* descriptions: every attribute of every column, in however many answers;
* decoding: what is in DuckDB's vectors is what is on the server, as far as the
  types on the way can express it, and a row ends where its message ends;
* attaching: a field of the attach string, an option and a variable mean the
  same wherever they are given, and no mark in one field is taken for the end of
  it or the beginning of another;
* connecting: both ends stay in step in the key stream, every offer of the
  server is answered for the plugin it names, and a failure has a cause.

## The modules

| Module | Models | Depends on |
|---|---|---|
| `RowStream` | what a cursor promises: the rows in order, then the end, or an error | |
| `WireFetch` | `fetch`, `fetch_batch`, `parse_fetch_batch`, `read_packet`, the blob requests and `into_column` of one open statement | implements `RowStream` |
| `WireConnection` | the requests of one connection, `lazy_count`, and which reply an operation takes | |
| `TableScan` | `FirebirdInitLocal`, `FirebirdScan`, and the cursor they own | implements `RowStream`, and takes its rows from one |
| `CatalogView` | what a transaction promises of the tables | |
| `FirebirdTransaction` | the catalog: cache, lock, introspection queries, scan and lookup, transactions, DDL on the server | implements `CatalogView` |
| `FilterPushdown` | `BuildWhereClause` and `TranslateFilter`, with an SQL reading of the text | |
| `LimitPushdown` | `FirebirdPushLimit` and `FindFirebirdGet`, with an evaluation of the plan | |
| `Statement` | the optimizer pass and then `FirebirdInitGlobal`: select list, WHERE and ROWS of one statement | composes `FilterPushdown` and `LimitPushdown` |
| `Attach` | `ParseDSN`, `NormalizeUser`, `GetOption`, `ResolveParameters`, `FirebirdAttach` | |
| `Describe` | the loop of `prepare_statement` over answers that were cut off, `parse_xsqlda`, `parse_select_items` | |
| `RowDecoding` | the types a column is bound, coerced, parsed and read as, over one row | |
| `Handshake` | `connect_with_timeout`, `connect`, `srp_auth`, `attach_database` and the positions of `Arc4Stream` | |
| `WireFetchProofs`, `WireConnectionProofs`, `TableScanProofs`, `FirebirdTransactionProofs`, `HandshakeProofs`, `AttachProofs`, `StatementProofs` | proofs about the module they are named after | that module |
| `ColumnProofs` | proofs about `RowDecoding` and `Describe` | both |
| `MC*` | constants for TLC | the module they are named after |

`RowStream` stands twice: `WireFetch` implements it with `delivered` as the rows
handed to the caller of `fetch`; `TableScan` relies on it for the rows its
iterator yields, and implements it again with the rows DuckDB was given in
chunks by all threads.

### WireFetch

The server's cursor is the sequence `result` of rows, whose kinds (plain,
with a blob, undecodable, no row) are chosen at the start, as are the `faults`
that may occur.  What the server has sent is the sequence `stream` of records,
which is never popped: `rd` and `half` say how far the client has read, so "the
burst is cut anywhere" is a choice of how far a read advances, at the grain the
parser can tell apart (a whole record, or a record whose op code has arrived and
whose body has not).  `todo`, `pending` and `delivered` are the three places of a
row in the client; `todo` is the rest of `for pc in rows` in `fetch_batch`.  The
actions follow the code: `FetchPending` and `FetchEof` are the first two returns
of `fetch`, `FetchBatchRequest` writes `op_fetch`, `FetchRead` is one
`socket.read` with the parse after it, the blob actions are the requests
`into_column` makes for each blob column, and the packet actions are the loop of
`read_packet`.  Errors end in `failed`; the callers (the iterator above, then
`FirebirdScan`) do not call again.  Faults are timeouts (which also end a read
for which nothing is left to arrive), a lost connection, an error from the
server in the middle of a batch, split replies, a full read buffer, and a
server that closes also a full batch with a record ("marked").  The packets of
the code are far smaller than its 64 KiB buffer, which they never fill; the
model's small buffer is a margin.

### WireConnection

A request is a number; its reply is a record that holds the number, so the
model can tell what the client cannot.  An operation reads one packet, which is
some first part of the inbox, and treats it as `read_response` does: it counts
off the replies owed to frees, takes its own, and drops what is left of the
packet.  `disturbed` remembers that a reply came late, in pieces, or refused a
free; `failed` that an operation failed over its replies other than by the
server refusing it with nothing left unread.  (Where `coerce` does not support a
column, prepare ends with an error after it has read them all; `failed` does not
count that.)  `misread` is set when the number in a reply taken is
not that of the operation's own request.  Dropping the connection detaches from
the database (`Detach`), which counts off what is still owed like any other
operation; its error is dropped and the connection is `closed`.

### TableScan

A thread claims the cursor or finds it claimed (`Claim`, `AlreadyClaimed`), and
the one that has it connects and runs the statement, each of which may throw.  Today
`MaxThreads()` asks DuckDB for one thread only; the second one of the model is a
margin, and checks the claim the code makes its threads go through all the same.
`Call` to `ChunkFull` are one call of `FirebirdScan`, row by row; `NextEnd` is
`fb_cursor_next` returning 0.  `conn` and `iter` are the two fields of the
cursor behind the C interface, and `FreeIter` and `FreeConn` take them down in
the order in which Rust drops them.  DuckDB may destroy a local state
before the end; `stopped` remembers it, so that rows that are missing then count
as not wanted.

### FirebirdTransaction

Every query is a step of its own, because it is a transaction of its own on the
server and the tables may change between any two.  The columns of a table are
abstracted to the table's name and a version that every change increases, and
those of an entry to the set of the tables it lists columns of, normally one, so
that a mixture of tables or versions would show.  An entry has an identity
(`id`), so that an entry that was replaced is told from one that was kept.
Threads hold on to every entry they were given until the transaction ends.
The lock is held over `GetCatalogEntry`'s query and over the two queries and the
loop of `LoadAllEntries`, and not in `Scan`'s own loop.  A query may throw at
any time; once the connection is broken it always does.  `Connect` and `Close`
are the introspection connection, which the first query of a transaction opens:
ATTACH itself connects to nothing.  Calls that answer or throw without a query,
such as every write and all DDL (the database is attached read-only), are
actions that end at once (`EndsAtOnce`).

### FilterPushdown and LimitPushdown

The WHERE clause is a sequence of tokens, and `Holds` reads it with SQL's
precedence, AND before OR, in three-valued logic; `Passes` says what a filter
tree selects, a filter that may be skipped counting as true.  The rows are all
rows over the columns.  Filters are nested up to `Depth` levels, and what they
mean, their texts, what a text means and their translation are functions of the
level, each defined by the one below (recursive functions rather than operators,
so that they can be proved about).  An OR filter has children: DuckDB makes none
without, and the code would skip it.

For the limit pass a plan is the path from its root to one scan.  `Result`
evaluates it, on tables of every length up to a bound, with operators that drop,
reorder, repeat and count rows standing for those the pass does not look
through.  `idx_t` wraps at `MaxIndex`.

### Statement

The pass runs over the plan first and leaves its limit in the scan's bind data;
when the query starts, `FirebirdInitGlobal` puts the select list together, has
the WHERE clause built, and appends ROWS.  `Answer` is what Firebird makes of
such a statement over a table, and `QueryAnswered` compares what the plan does
with that to what it does with the rows that pass the filters (`WantedOf`), each
row standing for its place in the table.  ROWS counts the rows that WHERE lets
through, so a clause that is not exact would show in the rows of a limit too; a
column that is not in the table is read as a literal, so that the others stay
where the scan looks for them.

### Attach

A text is a sequence of the characters the parser knows and of words without
them.  `ParseDSN` translates the parser; `Written` puts an attach string together
from the fields it is `meant` to have, in the documented form, and knows nothing
of the parser.  What a field may hold in that form is `MayHold`: the marks that
do not end it.  The initial states are such strings (`Input`), a database alone
(`Bare`) and no string at all, with options and variables; the one step is the
attach, which has the parameters or throws.  `Plain` leaves out two kinds of
strings the parser reads otherwise (see the findings).  The loop over the
settings behind the question mark is `Query`: each begins at the start or behind
an `&` and ends at the next one (`Piece`), and of two that say the same field the
one that begins last counts.  `Only` and `Over` are the functions that are put
together with `:>` and `@@` in modules which no proof is about.

### Describe

The attributes of a column are `<<column, attribute>>` and have a size.  The
server tells one item after the other (`Tell`) as long as they fit `Room`; then
comes the mark that the answer was cut off, or the end.  The client asks again
from the last column it has heard of, which may mean that it hears of some
attributes twice, and goes on filling the same `xsqlda`.  Its formulas have names
of their own (`DescribeInit`, `DescribeNext`, `DescribeInv`), so that `ColumnProofs`
can extend it beside `RowDecoding`.

### RowDecoding

A column is the field type, sub type and scale that `RDB$FIELDS` has, and a
value is a small tuple.  `LogicalType` is what the catalog binds, `Coerced` what
the client asks the server to send, and a message is a sequence of marked units,
with the null bitmap of protocol 13 in units of a byte or the null flags of the
protocols before, so that reading one unit too many or too few is visible
(`overrun`).  The last step takes each column through the accessor that
`FirebirdScan` picks for the *bound* type, which may be another than the
column's if it was altered since.  `Half` gives half the number of integers of
each width; the run has widths of 3, 4 and 6 bits, in the order of those of the
code.  `Floating` says which numbers a FLOAT and a DOUBLE tell apart, and
`Rounded` takes a number to the nearest of them: where the server sends a scaled
integer as a DOUBLE (`Sent`), where an integer is read as one (`CellF64`), and
where a DOUBLE goes into a FLOAT vector (`Output`).  So values are promised to
arrive as they are only if the types on their way can express them (`Lossless`,
`Expressible`).

A text is decoded in the connection's character set as it is parsed, and a text
blob in `into_column`.  What the server sends as stored, columns of CHARACTER SET
NONE or OCTETS (`raw`) and blobs of a user's sub type, may be no text in it: under
UTF8 the row then fails (`TextUndecodable`, `DecodeFails`), under ISO8859_1 it
becomes other text.  The `failed` of this module is the error that the parser or
`into_column` returns; what the fetch makes of such a row is that of a "bad" row
in `WireFetch`.

### Handshake

A message is written and read in `Length` parts, and each part holds the
position in the key stream with which it was enciphered: deciphering is right
iff the receiver's position is the same.  Each end has a position for each
direction.  `Write` enciphers what `enc_buf` holds and then may write less of it
to the socket, as `Arc4Stream::write` does; `Read` advances by what was read.
The client's loop over offers is `AnswerOffer`; the server takes the client for
authenticated at once (naming a plugin, which is parsed all the same), or asks for any plugin
it has not asked for, known to the client or not, with or without data, and may
refuse any request before the attach is done.  `excused` remembers a cause the
client has no part in, `cut` that an enciphered write was cut short.

## The runs

| Run | Expect | Shows |
|---|---|---|
| `fetch` | pass | the cursor implements `RowStream`, keeps the order, never fetches past the end, hands over whole blobs only, and, if a server closes full batches with nothing more and there are no other faults, comes to the end of every readable result |
| `fetch_reads` | violation | the client waits for bytes with every row record of the batch in the buffer (a finding) |
| `replies` | pass | what is unread is what is owed; no misreading before a failure; no failure over replies that came whole and in time, unless the server refused; every operation returns |
| `scan` | pass | the rows of all threads and chunks are a `RowStream`; none is missing without a cause; the iterator never outlives its connection; nothing leaks; every thread ends |
| `attach` | pass | every parameter is what it was written as, wherever it was written; ATTACH is refused only for a cause |
| `catalog` | pass | pointers stay valid, the view is stable, scans are complete, one thread at a time on the connection, an entry has one table's columns, every call ends |
| `statement` | pass | no row is lost; a query has the result its plan and filters ask for, except where an OR text is joined to another; a limit directly above the scan is in the statement |
| `filter_exact` | violation | rows too many in that case (a finding) |
| `describe` | pass | every attribute of every column is heard of, in order, and the loop ends |
| `decoding` | pass | values, nulls and numbers arrive as they are, but for what a floating type or the character set cannot hold; each message is consumed; failures have a cause |
| `decoding_blobs` | violation | bytes of a blob of a user's sub type are changed (a finding) |
| `handshake` | pass | both ends are in step; connecting fails only for a cause, and ends |

Each property has a mutant in `PROJECT.json`: a plausible mistake in the code
for which the run finds the property violated.

### Bounds

* `fetch`: results of up to four rows with batches of two give full batches, a
  last batch that is partly filled and an empty one; one read returns
  three words at most, a record and a half, fewer than a full batch, so that a
  burst may take several reads.  The faults are none, for the liveness property,
  or all of them.
* `replies`: seven requests are one life of a statement (begin, allocate,
  prepare, describe or execute, info, fetch or free), so that every operation
  meets a reply that an earlier one left behind, a detach that of either kind of
  free.  The safety properties are proved for any number.
* `scan`: two threads, vectors of two and up to five rows: results shorter than
  a chunk, that end with a chunk, and that need three.  One thread is what
  DuckDB has today.
* `catalog`: two threads; three tables, two of which have names that differ in
  case only; one change after the initial state (a create, an alter or a drop),
  which may fall between any two queries of a scan; one call of each thread in
  each of two transactions.  With two changes (drop and create again, alter
  twice) the same properties hold too, over 1.2 million states in about five
  minutes: raise `MaxChanges` to see it.
* `attach`: strings with any of the six fields, credentials with and without a
  password, passwords with a colon or a slash, IPv6 hosts, hosts of one letter,
  ports that are none or too large, databases that are a name, an absolute path,
  a Windows path or hold an '@', settings before and behind the question mark;
  options under both names and empty ones; variables that are not set, all set,
  and a port that is none.
* `statement`, `filter_exact`: every path of up to three operators over a scan
  without filters; trees of depth up to three (`Depth`) and every kind of filter, on up to
  three projected columns of which one is virtual, in another order than the
  table's, under plans with a limit, two limits, and a limit that must not be
  pushed; two values and NULL; `idx_t` of 0..2, so that sums wrap; an empty table
  and all nine rows in two orders.
* `describe`: up to four columns where three are accepted, two attributes of
  size 1 or 3, room for 7, so that answers are cut at every item and a single
  column may not fit.
* `decoding`: one column of any kind bound as any other; two columns of any
  kinds; 8, 9, 32 and 33 columns, where the null bitmap fills a byte or a word
  or begins another; both ends of each integer; numbers that a FLOAT or
  a DOUBLE does and does not express, one of them past every integer; texts
  sent as stored that are and are not text in UTF-8; protocols 12 and 13; both
  character sets.
* `handshake`: messages of three parts and a cipher's buffer of two, so that a
  message takes two enciphered writes; up to two addresses; three plugins of
  which the client has two; two requests after the attach; no fault, or all.

Deadlock is checked for `fetch`.  Elsewhere callers may simply stop calling, a
bound on calls is used up, or the model is a computation that ends.

### Fairness

* `WireFetch`: weak fairness of the client's own steps, which take what has
  arrived.  The code blocks on the socket, so "what has arrived is read" is what
  it does; that the server answers is part of a request's action, and `Completes`
  speaks of behaviours without faults only, which leaves out servers that close a
  full batch with a record as well (see below for what happens with those).
* `WireConnection`: weak fairness of the step that takes or refuses a reply
  that has arrived.  Operations are synchronous; nothing else can run in
  between.
* `TableScan`: weak fairness of each thread's own steps, and of DuckDB
  destroying a local state that has finished or thrown.  DuckDB calls the scan
  of a thread until a chunk is empty.
* `FirebirdTransaction`: weak fairness of each thread.  A thread at `find` or
  `load` waits for `entry_lock`; each thread makes a bounded number of calls, so
  the lock is free again and again and finally for good, and weak fairness is
  enough.
* `Describe`: weak fairness of the whole, a sequential loop with a server that
  answers.  `DescribeEnds` supposes that an answer has room for the description
  of any one column.
* `Handshake`: weak fairness of the client and of the server.  The server asks
  for each of its plugins once, so its offers run out; without that the client's
  loop has no end of its own.

## What is proved

TLAPS checks, for every value of the constants that satisfies the assumptions
named in the modules (`ConstantsAssumption`, `ConnectionAssumption`,
`ScanAssumption`, `CatalogAssumption`, `HandshakeAssumption`,
`DecodingAssumption`, `DescribeAssumption`, `FilterAssumption`,
`StatementAssumption`, `AttachAssumption`).  Each proof is an inductive invariant
`IInv` (`DescribeInv` in `Describe`), stated at the end of the module it is
about, with one lemma per action.

* `WireFetchProofs`: `TypeCorrect`, `Order` (`RowsInOrder`), `PastEnd`
  (`NoFetchPastEnd`), `WholeBlobs` (`BlobsComplete`) and `Refinement`
  (`Spec => RowStream!Spec`), for every batch size, buffer size, blob length,
  result and set of faults.  `RowsInOrder` alone is not inductive: a batch of
  the right rows has to begin where the one before ended.  `IInv` adds that the
  rows in the three queues and in the unread part of the burst are together the
  next rows of the cursor (`Counted`), what the record at the end of a burst says
  about the cursor (`Ends`), and that while a blob is read nothing else is unread
  (`Between`, `LeftOverOnly`).
* `WireConnectionProofs`: `OwedReplies`, `NoSilentMisread`, `FailsForCause`,
  `FetchReadsFirst`, `TypeCorrect`, for every number of requests and set of
  faults.  The inductive invariant is the conjunction of these with `Shape`
  (which operations have requests outstanding, and that no free is owed while a
  cursor is open) and `Undisturbed` (an error that is unread belongs to the
  operation that waits, not to a free).  The heart of it is `PacketFacts`: a
  packet that is as long as the inbox and has only whole records is all of it.
* `TableScanProofs`: `TypeCorrect`, `Borrowing` (`IterInsideConnection`),
  `NoLeak` (`NothingLeaks`), `Complete` (`CompleteUnlessCause`) and `Refinement`
  (`Spec => RowStream!Spec`), for every number of threads, vector size and
  number of rows.  `IInv` says that the claim has one owner (`OneOwner`), which
  resources are live at each place (`Resources`), that the rows given and the
  chunk being filled are together the first rows the iterator yielded
  (`Accounted`), and how a scan may end (`EndsWell`).
* `FirebirdTransactionProofs`: `TypeCorrect`, `PointersStayValid`
  (`HeldEntriesLive`), `OneUser` (`ConnectionExclusive`), `OwnColumns`
  (`OneTablePerEntry`), `ScansComplete` (`ScanComplete`) and `ViewRefinement`
  (`Spec => CatalogView!Spec`), for every number of threads, finite set of
  tables, order and folding of their names, and number of calls, changes and
  transactions.  The pointers stay valid because nothing that was made is made
  again: a thread that is to make an entry found it missing under the lock and
  has held the lock since (`Mutex`, `Asks`), and the loop of `LoadAllEntries`
  leaves alone what is there (`LoadedFills`).  So a step of any thread fills
  places of the cache that were empty or leaves it as it is (`Fills`), which is
  all that the other threads, and `CatalogView`, have to know of it.  For
  `ScanComplete`, `IInv` says how far a scan has come: a table that was there all
  along is still listed or was reported (`Due`), and one that is still listed was
  not reported (`Listed`).
* `HandshakeProofs`: `TypeCorrect`, `KeyStreamsAgree` (`InStep`) and
  `FailuresHaveCause` (`FailsForCause`), for every list of addresses, length of
  messages, size of the cipher's buffer, list of plugins and set of faults.
  `InStep` is not inductive because it says nothing of where the two ends are:
  `IInv` adds that they differ by what is on its way (`Positions`),
  and that until the attach one request and its reply alternate (`Alternates`),
  which is why the server finds nothing behind `op_crypt` and both directions
  change at the same part.
  `FailsForCause` needs to know what the two talk about, and `CauseInv` says it:
  every address tried so far was down; the server closes the connection only if
  it lost step with the client; and until somebody gave a cause, what the client
  has sent is about the last offer of the server, and that is one it can use
  (`Agreed`).
* `ColumnProofs`, of `RowDecoding`: `TypeCorrect`, `Consumed`
  (`MessageConsumed`), `Faithful` (`RowFaithful`), `Numbers` (`NumbersSurvive`)
  and `Failures` (`FailsForCause`), for every table, alteration and row, protocol version,
  character set, width of the integers and precision of the floating types.  `IInv` says what is left of the
  message at each point: the fields of the columns that are not parsed yet, and
  before them the null bitmap (`MessageLeft`).  So each column is parsed from its
  own beginning, which is all that `CellOf` needs, and what the accessors make of
  a cell is a lemma for each pair of types.  Of the floating types it is supposed
  only that a DOUBLE is at least as fine as a FLOAT; a number that a type expresses
  is rounded to itself (`RoundedFacts`), and the theorems except the others.  The number of units the parser takes
  for the bitmap is that of the server's for every number of columns.
* `ColumnProofs`, of `Describe`: `DescriptionTyped` and `DescriptionComplete`
  (`DescribedInOrder`), for every number of columns and attributes, their sizes,
  and the room in an answer.  `DescribeInv` says that an answer is a chain in
  which each item is followed by the one after it or by the mark that ends it (`Chained`), that it begins
  with the last column heard of (`FirstOK`), and what has been heard by the time
  the parser comes to each kind of item (`HeadOK`): at the end of a column, all of
  it.
* `AttachProofs`: `TypeCorrect`, `TakenAsWritten` (`AsWritten`), `FromAnySource`
  (`AnySource`) and `OnlyForCause` (`RefusedForCause`), for words, cases, numbers,
  options and environments of any kind, fields of any length, and attach strings
  with any of the fields on either side of the question mark.  `IInv` says that
  the inputs are what `Init` chose and that the outcome is what they resolve to;
  the work is in the operators.  Everything the parser does is a search for the
  first of some mark, and `FindFirst` says when a search ends at the mark that was
  written: if nothing before it holds one, which is what `MayHold` and `Plain` say
  of the fields.  From this come the credentials (`CredentialsSay`), the host,
  port and database (`LocationSay`), the settings, by their starts
  (`SettingsSay`), and the string as a whole (`WrittenParsed`; `BareParsed` for a
  database alone): what is parsed is the fields it was written from, a port as
  its number, or "threw" if it is none (`Means`).  `ResolveIs` says what is
  attached in terms of each field's source alone, and `MovedSource` that moving a
  text to the environment leaves these as they are.
  `AttachAssumption` supposes of the words only that marks are none of them, that
  the names the parser compares with are, that the scheme in upper case is
  that in lower case, and that changing the case leaves these names alone; and of
  the strings that no field but the password is written empty.
* `StatementProofs`: `TypeCorrect`, `WhereNeverNarrows` (`NeverNarrows`),
  `StatementAnswers` (`QueryAnswered`) and `LimitReachesScan`
  (`DirectLimitPushed`), for every table, projection, plan, largest index, and
  filters nested to any depth.  `IInv` says that the clauses are the texts of the
  filters looked at so far (`ClausesOK`), that the limit is the smallest pushable
  one of the operators visited (`LimitOK`), and what comes after what
  (`OrderOK`).  The rest is about the operators.  A text is true iff all operands
  of some stretch between two ORs are (`Sat`).  So two true texts stay true when
  AND comes between them, which is why a join without parentheses loses no row
  (`SatAnd`), and two texts without OR are true together iff each is.  Level by
  level, a filter has no text, or one that is true of the values that pass it
  (`Says`).  Of the rows that pass, the first n give the result of the whole
  plan if n is count plus offset of a LIMIT with projections only below it
  (`LimitKept`).

A proof by induction over data cannot cite the library's induction theorems,
which take an operator; `ColumnProofs` has induction over the natural
numbers with a set in place of the predicate (`SetInduction`, from the fact that
a set of numbers has a least one), which is how the recursive function of the
community modules that puts a message together is reasoned about;
`StatementProofs` has it too, for the levels of the filters, the parts of a text
and the operators of a plan, and `AttachProofs` has the fact itself (`LeastOf`), on
which `Find` rests.

Only model-checked: every liveness property and all that rests on fairness
(which TLAPS cannot reason about here).

## Findings

Three runs end in a violation, each of what a comment in the code says:

1. `fetch_reads`: `parse_fetch_batch` takes every error of a row's parser for a
   truncated record (`client.rs:1083`).
2. `filter_exact`: `BuildWhereClause` does not put an OR clause in parentheses
   before it joins it with AND (`firebird_scanner.cpp:222`).
3. `decoding_blobs`: a blob of a user's (negative) sub type is bound as bytes and
   decoded as text (`wire.rs:698`, against `firebird_connection.cpp:55`).

More were seen while modelling; no run of their own shows them:

* Two tables whose names differ only in case meet under one key of a map that
  ignores case, and the one entry lists the columns of both
  (`firebird_connection.cpp:166`).  `FirebirdTransaction` has it, with the
  duplicate column it may throw for (`ColumnsClash`); `OneTablePerEntry` and
  `ViewSpec` promise less of such tables than of those with a distinct name.
* A NUMERIC that is stored in 128 bits is bound as DOUBLE
  (`firebird_connection.cpp:35`) and refused by `coerce` when the table is
  scanned (`xsqlda.rs:107`).  `FailsForCause` of `RowDecoding` counts it as a
  type that is not supported.
* A server that closes a batch of exactly `FETCH_BATCH` rows with a no-row record
  ("marked" in `WireFetch`) may stall the client: if that record arrives in a later
  read than the rows it is left over and stands at the head of the next batch,
  `parse_fetch_response` calls it an error (`wire.rs:554-557`), and that is taken
  for a truncated record (`client.rs:1083`), as in the first finding.  To see it,
  run `MCWireFetch` with `{"marked"}` as the one set of faults and `Completes`
  without `faults = {}` in its premise.
* A CHAR or VARCHAR of CHARACTER SET NONE or OCTETS is sent as stored and decoded
  in the connection's character set (`wire.rs:621`): under UTF8 bytes that are no
  text there make the row undecodable, and by the first finding the client waits
  for the timeout.  `FailsForCause` of `RowDecoding` counts it as a cause.
* NUMERIC and DECIMAL columns pass through a DOUBLE (`xsqlda.rs:81`), as
  `README.md:121` says, and a column that was altered after it was bound through
  the bound type as well (`lib.rs:520`, `firebird_scanner.cpp:303`); what these
  cannot express is rounded (`Lossless`, `Expressible`).
* `Arc4Stream::write` enciphers its whole buffer before it knows how much the
  socket takes, and the rest is enciphered again with later positions
  (`arc4.rs:98`).  The step is in `Write`; `InStep` holds until it happens
  (`cut`).
* A server that refuses `op_crypt` answers in the clear, and the client deciphers
  that answer: connecting fails as it should, but with the wrong error
  (`client.rs:1210`).  This is the second disjunct of `InStep`.
* `ParseDSN` ends the credentials at the first '@' (`firebird_settings.cpp:56`),
  also if that is in the path or if a second one follows in the same part; the
  comment above it says "use the last '@' before any path".  `Plain` of `Attach`
  leaves strings out that have an '@' in the path and no credentials, and its
  passwords have none.
* "A bare path/host is treated as the database" (`firebird_settings.hpp:34`), but
  a bare path with a slash in it is read as a host and the rest
  (`firebird_settings.cpp:108`); `/var/x.fdb` loses its first slash.  Bare
  databases (`Bare` of `Attach`) hold no slash, and neither '@' nor '?', which
  the parser looks for in every string.
* A host of one letter with a port is taken for a Windows drive
  (`firebird_settings.cpp:99`), and a port above 65535 wraps
  (`firebird_settings.cpp:85`): `Plain` and the last words of `AsWritten`.
* `README.md:85` gives the password the default `masterkey`; in the code it is
  empty (`Default` of `Attach`).

## What is not modelled, and the plan

Next: the requests of `client.rs` that the extension does not reach
(`exec_immediate`, `execute2`, creating and dropping a database) in
`WireConnection`.

Left out for good: the arithmetic of SRP and RC4, charset tables and the other
generated constants, the bytes of requests and of `xsqlda_to_blr`, the spelling
of values as text, logging, the build and the tests.  Every scan opens a
connection of its own, so that two scans of one query may see different states of
the database; nothing in the code says otherwise and no property is about it.  The
server, DuckDB and the core of rsfbclient are modelled only as this code sees
them.
