# TLA+ verification of php-clickhouse

`php-clickhouse` is a PHP extension (C++ and C) that gives coroutines of the
TrueAsync runtime a ClickHouse client. It wraps the `clickhouse-cpp` library,
moves the bytes of its sockets through the TrueAsync reactor and keeps one
hidden connection pool per `Client`. This directory holds a TLA+ model of the
parts whose correctness depends on interleaving, failure and order, TLC
configurations that check it on small instances, and TLAPS proofs of the core.

## 1. Inventory

| Component | State | Operations | Interacts with |
|---|---|---|---|
| Client (`clickhouse_async.cpp` 45-285, 643-891) | settings, endpoints, `conn_seq`, the pool, the `getPool()` wrapper, its reference count | `__construct`, `query`, `insert`, `insertBatch`, `getPool`, free | pool ABI, engine, Result, Batch |
| Pool callbacks (75-199) | the TrueAsync pool: idle and leased connections | factory, destructor, accept, before_release, ensure, acquire | factory calls `ch_client_connect` |
| Connection (`ch_client.cpp` 61-144) | a `clickhouse::Client`, `broken` | connect, free, is_broken | transport, library |
| One-block insert (449-551) | the insert session on the wire | `BeginInsert`, build, `SendInsertBlock`, `EndInsert`, catch | shared by `insert` and `Batch::flush` |
| Result (888-1090; object 309-536) | block, row cursor, `done`, `broken`, `released`, keepalive on the Client, iterator position | start, next, free; `fetch*`, iterator, `summary` | gives the connection back to the pool |
| Batch (1092-1196; object 540-639) | pending rows, `broken`, `released`, keepalive | start, append, flush, count, free | gives the connection back to the pool |
| Endpoints and strategy (75-107, 285-305, 658-756) | host list with ports, rotation cursor | parse, rotate, dial | library tries the list in order |
| Exceptions (`ch_client.cpp` 75-86, `ch_exceptions.cpp`) | none | classify, translate | decides whether a connection is reused |
| Transport, TLS (`ch_transport.cpp`) | a non-blocking socket, a poll event per wait | read, write, await, connect | suspends the coroutine |
| Conversion (`ch_client.cpp` 148-446, 554-858) | none | PHP value to column and back | may throw inside insert and fetch |
| Module start-up, stubs, build | none | | |

What is hard here: coroutines are suspended inside calls that look synchronous,
so each handler is a sequence of atomic pieces with other coroutines in
between; four owners in turn hold a connection (the pool, the frame of a method,
a Result, a Batch) and every early return and catch block must give it back
exactly once; the decision to reuse a connection rests on the class of an
exception; destructors run in any order, the Client's perhaps from inside
another one's; a flush may fail with the outcome on the server unknown; and
`acquire` may wait for a connection that its own coroutine holds.

The correctness properties per component: *pool and Client* — no leak, no double
hold, no connection after the Client, only clean connections idle, every
acquire ends. *Result, Batch* — one release each, before the keepalive is
dropped. *Batch rows* — no row lost, duplicated or reordered. *Endpoints* — each
host tried once, in the documented order, at its configured port; round-robin
spreads. *Transport* — a wait ends with its event released, no byte sent twice.
*Result stream and iterator* — each row is delivered once and in order, the end
is told only when nothing is left, the socket is read only under the lease.
*Conversions* — a value is read back as it was written, and the parts of a nested
column stay in step. `PROJECT.json` lists the hazards line by line.

## 2. Modules

| Module | Models |
|---|---|
| `ChErrors` | the classes of exception, `Poisons` (`ch_exception_poisons_connection`), what a failed call leaves on the wire |
| `ClientPool` | one Client, its pool, the coroutines that use it, the Results and Batches |
| `ConnectionLeases` | abstract: what the pool promises about each connection |
| `ClientPoolContract` | the refinement mapping from `ClientPool` to `ConnectionLeases` |
| `ClientPoolInv` | the inductive invariants: `IInv` (who holds what), `WireInv` (what is on each socket) |
| `ClientPool_proofs` | the ownership of connections, proved |
| `ClientPoolWire_proofs` | the state of each socket, and which connections are reused, proved |
| `ClientPoolContract_proofs` | that `ClientPool` implements `ConnectionLeases`, proved |
| `BatchInsert` | the rows of one Batch: buffer, block, server |
| `BatchInsert_proofs` | that no row is forgotten and what is stored is a prefix, proved |
| `Endpoints` | settings to endpoint list, rotation, dialling |
| `Endpoints_proofs` | rotation, spread and ports, proved |
| `ResultStream` | one Result: cursor, calls, iterator, Summary, the way back of the connection |
| `RowStream` | abstract: the rows of a query, delivered in order, and the lease under them |
| `ResultStream_proofs` | its invariant, and that `ResultStream` implements `RowStream` |
| `Transport` | one socket: the read and write loops, the wait, cancellation, the peer |
| `Transport_proofs` | the byte streams and the waits, proved |
| `CellValues` | PHP values, and the cells of scalar columns in both directions |
| `ColumnAppend` | the columns of a block built from PHP rows, call by call |
| `ColumnAppend_proofs` | that the block stays in step, and what scalar cells are read back as, proved |
| `Columns` | the columns of a block as PHP values: what a query gives for them |
| `MCClientPool`, `MCBatchInsert`, `MCEndpoints`, `MCResultStream`, `MCColumns` | instances for TLC |

The modules meet at the suspension points. A socket call of `ClientPool` (one
step) is a series of calls of `Transport`; `ResultStream` has the rows of one of
its Results, with the same flags and the same `Poisons`; `BatchInsert` and
`ColumnAppend` have the rows and the cells of its inserts. The refinements join
`ClientPool` to `ConnectionLeases` and `ResultStream` to `RowStream`.

### ClientPool

A step is the code between two suspension points. `pc[t]` names the call in
which coroutine `t` is suspended: `acquire`, `factory` (the connect and
handshake), or one of the socket calls of the library (`BeginExecute`,
`NextBlock`, `BeginInsert`, `SendInsertBlock`, `EndInsert`, and `closeInsert`
for the second `EndInsert` in the catch block of `ch_send_block`). `op[t]` is the
method, `at[t]` the connection in its frame, `hd[t]` the object it works on or
will return. `obj[h]` is a Result or a Batch: its connection, the rows still
buffered, and the three flags of the C++ structs. `refs` is the set of those who
keep the Client alive: the program, the frames, and the keepalives of Results
and Batches. `lease[c]` is the pool's view of a slot and `wire[c]` what is on
its socket: `ready` (between two queries), `query` or `insert` (an answer is
due), `dirty` (what comes next cannot be told).

`query` is `Call`, `Acquire*`/`Open*`, `QueryBegin` and one of `QueryBlock`,
`QueryNoRows`, `QueryFails`; `Result::fetch` and the iterator are `FetchRow` or
`Pull` followed by `PullBlock`, `PullEnd`, `PullFails`; `DecodeFails` is the same
catch block reached from a row that cannot be converted; `insert` and
`Batch::flush` are `BeginInsertOk`, `SendOk`, `EndOk` and the failures;
`Destroy` is either destructor; `DropClient` and the last keepalive run
`ch_client_object_free`. Each action contains the release that the code
performs in it.

External, from the use the code makes of it: the pool ABI (an idle connection
is preferred, the factory runs below `pool_max`, otherwise the caller waits; a
release asks `before_release` and a closed pool keeps nothing; close destroys
the idle connections) and `clickhouse-cpp` (a query ends with the end of its
stream or a server exception; any other exception stops in mid-packet).

Errors: a connection is given up when `ch_exception_poisons_connection` says so,
and when the second `EndInsert` in the catch block fails, with whatever exception
(`CloseFails`). There the code differs from the comment at `ch_client.cpp:75`, by
which a ServerException "leaves the connection intact": one that answers the second
`EndInsert` leaves the socket clean, and the connection is dropped all the same.
`OnlyUncleanDropped` names this as its one exception (`Closing`).

Abstractions: rows are counted, not valued; a Result or a Batch is used by one
coroutine, the one that created it. For a Result the comment at
`ch_client.cpp:888` says so ("single coroutine"); for a Batch it is an assumption
of this module, as nothing in the code says it. Conversion callbacks into PHP code
(`__toString` of a cell) are not modelled here (`Transport` has the exception they
leave pending).

### BatchInsert

The data of one Batch. `pending` is the PHP array, `block` what was built from it,
`session`, `staged` and `table` are the server. Five kinds of row exist: two plain
ones, one with a wrong number of values, one with a cell no column accepts, one
the server refuses at the end of the insert. With `Shared` other coroutines call
`append` while a flush is suspended. Each call may fail with each class of
exception that `ch_client.cpp` tells apart, and `Caught` is its catch block: a
poisoning one marks the Batch broken, any other leads to the second `EndInsert`
(`closeInsert`), whose own failure marks it broken too. What happens on the server
depends on the class: the connection is lost (`ConnectionLost`; the rows may have
been stored), the server refuses the insert (`ServerRefuses`, for rows it never
takes or for a reason of the moment, so that a repeated flush may succeed), or the
client stops in the middle of an answer (`OutOfStep`: protocol, compression and
assertion errors, and those outside the list). `flush` looks at none of this and can
be called again. After `OutOfStep` the socket is alive and the client takes the
rest of one answer for the next: `Drift` lets the server do in each exchange
anything it can do, and `doubtful` records it. It is the one case in which rows
may be stored twice.

### Endpoints

`Endpoints(c)` is the constructor's loop over `hosts`, `ParsePort` is
`ch_parse_host_port` after the last colon, `Starts`, `Rotation` and `DialList` are
`ch_pool_factory` and the options `ch_client_connect` fills, with their casts to
`uint16_t` and the 9000 that stands for port 0. `starts` and `opens` are history: the
connections that started at each endpoint, and in all. `Dial` is the library: an
endpoint that refuses is followed by the next one (`Refused`), one that accepts ends
the open, as a connection (`Connected`) or as a failure of the handshake or of TLS,
with the rest of the list untried (`HandshakeFails`).

### ResultStream

`ClientPool` counts the rows of a Result; this module has the rows themselves,
numbered as the server sends them. `block` and `row` are the cursor of
`ch_result`, `current`, `count` (`pos` + 1), `valid` and `started` the iterator
fields of the PHP object, `acc` the array that `fetchAll` builds. A call is
suspended in `BeginExecute` or `NextBlock`; `loop` is the head of the loop in
`ch_result_next`, where `TakeRow`, `TakeBadRow`, `AtEnd` and `Pull` are its four
exits. A foreach is `ForeachBegins` (rewind), `Body` (valid, current, key) and
`ForeachNext`; it can be left and entered again anywhere, and the fetch calls can
be made in between. `CallerGets`, `CallerIsTold` and `CallerCatches` are what each
call does with the three outcomes. `ProgressArrives` and `ProfileArrives` are the
callbacks that count for the Summary; `Stamped` is its `elapsed`. The server sends
at most `MaxPackets` packets, blocks of up to `MaxRows` rows with at most one row
that cannot be decoded, the empty header block included.

### Transport

One coroutine calls `DoRead` and `DoWrite`, one call at a time. `pc` is `syscall`
(about to call `recv` or `send`), `await` (after `EAGAIN`), the stages of
`ch_await_socket` (`event`: the poll event exists, `waker`: the waker too,
`suspended`, `queued`: woken, not yet running), `user` or `thrown`. `NewEvent`,
`NewWaker`, `ResumeWhen` and `SuspendFails` have its early returns, each with what it
releases: no event or an exception pending (line 92), an exception from the waker
(98) or from the registration of the callback (106), a suspension that fails (115).
Between any two steps the kernel,
the peer, the reactor and another coroutine that cancels may act; in particular
the socket may become ready between `EAGAIN` and the wait. `armed` are the socket
events that can wake the coroutine, `event` tells whether one was created and not
released, `pending` is a PHP exception, from a cancellation, a failed registration
or a conversion of the row being sent, and `entered` remembers that one was there
when the call was made. Bytes are numbered, `Chunk` is what one `send` takes of them.
The TLS transport waits inside `php_stream`, which is external: its system calls
never report `EAGAIN` and may fail at any time.

### CellValues, ColumnAppend and Columns

A PHP value is a pair of its type and its contents. `Encoded` is what
`ch_append_value` stores for a value in a scalar column, `Decoded` what
`ch_column_value_to_zval` makes of a cell. Widths are parameters: a PHP integer goes
up to `LongHalf`, the `int64_t` of ticks up to `TicksHalf`, a column as far as its
type says, a second has `MicrosPerSecond` microseconds. Doubles past the largest PHP
integer are `FloatStep` apart, and `ToDouble` rounds to them as the cast of a `UInt64`
does. A PHP float is a fraction `n / d`; `Rounded` is `llround`, and the product of two
doubles before it is taken as exact. `IsTrue` is `zend_is_true`, which a Bool is
stored by. Text is abstract except for UUIDs and decimals, whose digits are
modelled.

`ColumnAppend` is `ch_append_value` and the loop of `ch_send_block`, call by call. A
table is a tree of columns, each named by the path to it; a path is also the stack
of calls, since each column has at most one call under way. `top` is the running
call and `frames[n]` the locals of the call for column `n`: its value, whose
temporary it appends to (`into`), the entries still to be handed on and the part
that gets the next one. `AppendCell` is a call for a scalar column, `EnterColumn`
and `LeaveColumn` are the beginning and the end of any other. `cols[n]` is the
temporary of an Array or Map (`CloneEmpty`), `cols[<<>>]` the block: a Nullable or
Tuple is filled in place, a temporary is joined to its column at the end
(`AppendAsColumn`). `Throw` is every exception: it leaves the columns half-built,
as the code does, and gives them up. The loop over the cells of a row has the
checks of the Tuple case, so the block is the Tuple at the root. The steps of one
insert follow from its rows; no other coroutine can see them.

`Columns` reads the block back, row by row, with `ValueToZval`, or a block of one
cell that some other program has stored. The reading recurses over the type, so
this module is for TLC only.

## 3. Runs

| Run | Bounds | Shows |
|---|---|---|
| `pool` | 2 coroutines, 2 slots, 2 objects, 2 rows; transport failures, server exceptions, failed conversions | one holder per lease, one coroutine per socket, nothing after the Client, idle connections are clean, only unclean ones are dropped, unless closing an insert fails, the inductive invariants `IInv` (with the type) and `WireInv`, `ClientPool` implements `ConnectionLeases` |
| `progress` | 2 coroutines, 1 slot, no acquire while holding | every acquire ends |
| `stream` | 4 packets, 2 rows per block, 4 kinds of exception | rows once and in order through every mix of calls, end and exceptions final, one release, Summary frozen, every call returns, the inductive invariant `ResultInv`, `ResultStream` implements `RowStream` |
| `bytes` | buffers of 2 bytes, calls of up to 3, 4 bytes each way | bytes in order and once, every early return of a wait clean but one, no spurious or lost wake-up, a cancellation ends the call |
| `values` | 14 tables, inserts of up to 2 rows; 11 types filled by others | columns stay in step, the inductive invariant `BuildInv`, values are read back as written, shown as stored |
| `rows` | 5 rows, 4 flushes, every class of exception at each call | the Batch remembers each row until it was sent; what is stored is an initial part of what was appended, as long as the client has not stopped in the middle of an answer |
| `rotation` | 2 coroutines, 1 to 3 endpoints, 7 opens, cursor modulo 4, every form of port in a second entry | each endpoint once and in order, spread, configured ports, the inductive invariant `EndpointsInv` |

Two coroutines, slots and objects suffice for the interesting cases: one
coroutine finishing with a connection another has meanwhile leased, one waiting
for what the other holds, a Client freed by the last of two objects. Two rows in
a block distinguish a first, a last and no row; four packets leave room for an
empty header block, two blocks and a callback. A call of three bytes does not fit
a buffer of two, so that partial sends, full buffers and waits in the middle of a
call all happen, and four bytes allow a second call. PHP integers of 4 bits meet
columns of 3 (cut), 4 (the same) and an unsigned one past the largest PHP integer;
100 microseconds in a second meet precisions that divide it and that do not. Floats
are 4 apart past the largest PHP integer, so that a `UInt64` may be one of them, be
near one or lie halfway between two; ticks go up to 2048, which the largest time
tried at the finest precision exceeds.
Seven opens wrap a cursor modulo 4 with three endpoints, where 4 is not a multiple
of 3. In the safety runs of the pool coroutines, slots and objects are symmetric;
liveness runs use no symmetry. Every property has a mutant in `PROJECT.json`: a
variation of the code that makes TLC find it violated.

Five runs document disagreements between the code and what the repository says
of it (TLC finds the violation):

- `unread` — an exception that is not one of the four poisoning classes, raised
  in mid-stream, sends a half-read connection back to the idle list.
- `reflush` — after a flush that lost its connection, the next flush of the Batch
  uses it again; only the destructor drops it.
- `overlap` — a row appended while a flush is suspended is discarded unsent.
- `hostport` — a port in the first entry of `hosts` becomes the default of the
  other entries.
- `references` — a cell that is a reference to null is stored in a Nullable column
  as the nested type's zero, since the test for null does not look through the
  reference and the conversions do.

Two more are described and not repeated as runs. `acquire` is given a timeout of
0, so that a coroutine which holds every connection itself waits for ever
(`AcquireReturns` fails with `HoldAndWait = TRUE`), where the design document
(`docs/architecture.md:67`) has a timeout. And no `Cancel` packet is sent when a
coroutine is cancelled, as `docs/architecture.md:200` describes: the connection is
closed with the query still running on the server.

### Fairness

`progress`: `WF(Resume(t))`: a socket call ends, as the server answers or the
transport reports a failure. The reads have no timeout (`ch_transport.cpp`,
`ch_await_socket(..., 0)`), so this is an assumption on the network, not something
the code enforces. `SF(Acquire(t))`: the pool hands a free slot to each waiter in
the end; the ABI queues its waiters. `SF(Destroy)`: a coroutine that repeatedly is
between two calls eventually drops what it holds, as its frame ends.

`stream`: `WF(Answer)`, the same assumption on the server, and `WF(LoopStep)`, the
loop of `ch_result_next` runs.

`bytes`: `WF(Coroutine)`, a coroutine that can run does, and `WF(Wake)`, the
reactor reports an armed event that stays ready. `CancelEndsCall` needs nothing
else. `CallEnds` assumes in its own statement a peer that reads what arrives, and
sends or closes (`PeerWorks`): it says that no wake-up is lost on this side.

## 4. Proofs

`ClientPool_proofs` proves for every set of coroutines, slots and objects, every
bound and every set of exceptions satisfying the four named assumptions of
`ClientPool`:

| Theorem | States |
|---|---|
| `OwnershipInvariant` | `Spec => []IInv` |
| `TypeCorrect` | `Spec => []TypeOK` |
| `NoLeakNoDoubleHold` | `Spec => []LeaseHasOneHolder` |
| `SocketsAreExclusive` | `Spec => []ExclusiveUse` |
| `NothingOutlivesTheClient` | `Spec => []FreedClientLeavesNothing` |

None of the last three is inductive. `LeaseHasOneHolder` says nothing about a
frame that is suspended while its object is alive, so a second release could
follow; `IInv` adds what each frame holds at each suspension point (`FrameOf`,
`HandleOf`), that a Result gave its connection back exactly when it is done and
a Batch never before its end (`ObjectsOK`), that holders and leases correspond
one to one (`FrameLeases`, `ObjectLeases`, `LeasesHeld`), and that the pool lives
exactly as long as something refers to the Client (`PoolOK`). The proof has one
lemma per action; the actions that end alike share one (`GiveBackInv` for the
returns of query and insert, `FinishInv` for the ends of a Result,
`FlushReturnsInv`, `SuspendInv`). The assumptions are that the sets do not
overlap, `MaxRows` is positive and the exceptions are of the known classes.

`ClientPoolWire_proofs` goes on to what is on the sockets:

| Theorem | States |
|---|---|
| `WireInvariant` | `Spec => []WireInv` |
| `IdleConnectionsAreClean` | `RightErrors /\ Spec => []IdleIsClean` |
| `CleanConnectionsAreKept` | `Spec => OnlyUncleanDropped` |

`IdleIsClean` speaks of idle connections, and what makes one clean was decided
when it was given back, by a frame or an object that went by its flags.
`WireInv`, on top of `IInv`, ties the flags to the socket. For all exceptions
(`UsedOK`): a query that waits for a block, and a Result that still holds its
connection, have something left to read; so a Result that is abandoned is dropped
for a reason. A frame or a Batch drops its connection after an exception that leaves
something on the socket, or after a second `EndInsert` that failed, where the socket
may be clean (`Closing`). With `RightErrors` also the converse (`CleanOK`): who is
about to begin an exchange, and a Batch that is not marked, has a clean socket.
`RightErrors` says that the exceptions the library raises are those that
`ch_exception_poisons_connection` decides rightly: a server exception, or one of
the classes in its list. It cannot be dropped: the run `unread` has an exception
outside the list and finds the property false. `WireInv` itself and
`OnlyUncleanDropped` hold for all exceptions.

`ClientPoolContract_proofs` proves the refinement:

| Theorem | States |
|---|---|
| `PoolKeepsContract` | `RightErrors /\ Spec => KeepsContract` |

The mapping takes the holder of a connection from the frames and objects, and its
state from `lease`, `wire` and `poolState`. Seen from one connection a handler is a
`Take`, work by its holder, a `Return` or a `Drop`, and it leaves the others alone,
but for `close()` and the end of the Client, which destroy the idle ones. The
abstract end of the Client allows at most one leased connection, the one that
is given back in that very step; that no other is leased follows from `IInv`,
as each of them would have a holder that keeps the Client alive. That a
connection is returned clean, and taken clean, is where `WireInv` and
`RightErrors` come in.

`ResultStream_proofs` proves, for blocks of any size, any number of packets and
any exceptions:

| Theorem | States |
|---|---|
| `StreamTypeCorrect` | `Spec => []TypeOK` |
| `RowsComeInOrder` | `Spec => []RowsInOrder` |
| `LeaseIsReadAlone` | `Spec => []ReadsOnlyItsLease` |
| `EndComesLast` | `Spec => []EndMeansAll` |
| `EndIsFinal` | `Spec => NothingAfterTheEnd` |
| `ResultIsRowStream` | `Spec => KeepsPromise`, the refinement of `RowStream` |
| `ReaderInvariant` | `Spec => []ResultInv` |
| `EveryRowHasOneReader` | `Spec => []NoRowLost` |
| `IteratorShowsTheLatest` | `Spec => []CurrentIsLatest` |
| `ReuseAfterTheEnd` | `Spec => []ReusedOnlyWhenRead` |
| `QueryHasRun` | `Spec => []RunsBeforeReturn` |
| `SummaryStands` | `Spec => SummaryIsFinal` |

`RowsInOrder` speaks of history only; what makes the next row the right one is
that the block starts right after the rows of the blocks before it and that the
cursor has passed exactly the rows handed out (`CursorOK`). That no socket is
read after the release follows from the agreement of `done`, `released` and where
the call stands (`FlagsOK`). The refinement maps `sent`, `handed` and the flags;
each action is a step of `RowStream` or changes none of its variables, which
needs `CursorOK` once more: the abstract `End` requires that all rows are out.

The properties of the calls above the cursor need a second layer, `ReaderInv`.
`RowsKept` says where each row that was handed out is now: with the program, in
the array of a `fetchAll` under way, or with the iterator. `IteratorOK` says what
`current`, `valid`, `count` and `started` are worth inside and outside an advance,
and `ReuseOK` what the released connection had left. `ResultInv` is both layers.

`Transport_proofs` proves, for buffers, calls and totals of any size:

| Theorem | States |
|---|---|
| `TransportInvariant` | `Spec => []TransportInv` |
| `TransportTypeCorrect` | `Spec => []TypeOK` |
| `PeerGetsTheBytes` | `Spec => []WritesInOrder` |
| `CallerGetsTheBytes` | `Spec => []ReadsInOrder` |
| `NoEventOutlivesItsWait` | `Spec => []WaitLeavesNothing` |
| `NoSpuriousWake` | `Spec => []WokenWhenReady` |

`WritesInOrder` is not inductive: in the middle of a call nothing ties the bytes
on their way to `sent`. `CallOK` does (received + on the way = given before +
`sent`), and `WaitOK` says that a wait has armed its own event and no other, and at
which of its stages the event exists; the two properties of waits follow. The lemmas
on counting sequences (joined, cut, shortened, extended) carry the data part.

`BatchInsert_proofs` proves, for any rows, any of the classes of exception in
`ChErrors` at any call, and any number of flushes:

| Theorem | States |
|---|---|
| `BatchInvariant` | `~ Shared /\ Spec => []BatchInv` |
| `BatchTypeCorrect` | `~ Shared /\ Spec => []TypeOK` |
| `BatchRemembers` | `~ Shared /\ Spec => []NoRowForgotten` |
| `TableIsPrefix` | `~ Shared /\ Spec => []StoredInOrder` |

`~ Shared` says that no other coroutine appends while a flush is suspended; it
cannot be dropped, as the run `overlap` shows. `StoredInOrder` is not inductive:
a flush that returns stores the staged rows and forgets the buffer, so the two
have to be the same. `BufferOK` says that the block under way is the buffer,
`ServerOK` that the staged rows are the block and that the table is exactly what
was reported, until a connection is lost: the table may then be one block ahead,
and no later flush can store anything. Once the client has stopped in the middle of
an answer (`doubtful`) nothing of `ServerOK` is claimed, only that no row is stored
that was not appended. A server exception is taken to mean that the rows of its
insert were not stored.

`Endpoints_proofs` proves, for any number of coroutines and hosts, any settings, any
width of the cursor and any number of opens:

| Theorem | States |
|---|---|
| `EndpointsInvariant` | `Spec => []EndpointsInv` |
| `TriesEachOnce` | `Spec => []TriesEachEndpointOnce` |
| `RoundRobinSpreads` | `Spec => []SpreadsOverHosts` |
| `DialsThePort` | `OneDefault /\ Spec => []DialsConfiguredPort` |

`SpreadsOverHosts` compares two endpoints, and the next start depends on where the
cursor stands: `CursorOK` gives the starts of each endpoint in closed form, as the
`Turns` of the rounds of the cursor that are complete and of the one that is not.
A round gives two endpoints turns that differ by at most one, which is the bound.
`DiallingOK` says that what a coroutine has tried and what it has left is one
`DialList`; the rest is arithmetic modulo the number of endpoints. `OneDefault`
says of the settings that the first host does not change the default port of the
others (it has no port, the client's port, or all have one) and that the client
port is not 0; without it the run `hostport` finds the property false. The
settings of the run `rotation` satisfy it. The assumptions are the types of the
settings and that no port is no number.

`ColumnAppend_proofs` proves, for any tree of column types, any PHP values, any
widths and any number of rows:

| Theorem | States |
|---|---|
| `BlockIsBuiltInStep` | `BuildSpec => []BuildInv` |
| `BlockIsAlwaysAligned` | `BuildSpec => []BlockIsAligned` |
| `NumbersReadBack` | `SameCell` for a PHP integer in an integer or time column; its ticks are an `int64_t` |
| `TimesReadBack` | `SameCell` for a time in a `DateTime64` column; its ticks are an `int64_t` |
| `StoredCellsAreShown` | `ShownCell` for any cell of a `UInt` or `DateTime64` column |

`BlockIsAligned` speaks of the block between two cells, and in between its parts
are out of step: a Tuple has some members of a row and not others, a Map more keys
than values, an Array nothing yet of what its temporary holds. `PartsInStep` says
by how much, for the block and every temporary: part `k` of a column has one row
more exactly if the call for that column is under way in that buffer and has
passed `k` (`Ahead`), and the elements of a collected column go as far as its last
offset. Four more conjuncts make it inductive. `CallsNest`: the calls under way are
those on the path to `top`, all of composite columns, each waiting for the next one;
so what a call appends is what its caller counts. `OnlyBelow`: a temporary has rows
only below its own column, so a join disturbs no other. `RowLoop`: outside a row
nothing is under way, and the block has a mark for each row taken. `BuildTypeOK`:
each cell has the range of its type, also after the casts. The step that joins a
temporary is the hard one: the offsets that come from below are shifted by the end
of those that are there, and the lengths must agree for every part of every column
below at once (`LeaveAndJoinKeepsInv`). The assumptions say that a table is a tree
whose Nullables, Arrays and Maps have one, one and two parts, that the parts of PHP
values are PHP values, and that the widths are positive.

The last three theorems are about one cell. `ToTime` divides towards zero, as C++
does, and corrects the remainder; they rest on lemmas that this is the division
that rounds down, that quotient and rest are determined, and that the microseconds
stay in their second. `StoredCellsAreShown` says of a `UInt64` past `PHP_INT_MAX` that
the float is at most half of `FloatStep` away (`DoubleIsNear`), not that it is the
value. `TimesReadBack` assumes that the number of ticks of a second
divides, or is a multiple of, the number of its microseconds; in the program both
are powers of ten.

Model-checked only: all liveness (`AcquireReturns`, `CallReturns`,
`CancelEndsCall`, `CallEnds`), as liveness under fairness is out of the prover's
reach; and `ReadsBackWhatWasWritten` and `ShowsWhatIsStored`, as `ValueToZval` recurses
over the type of a column and the text of a decimal over its digits: what a
recursive definition gives for every input needs an induction that the prover
cannot make. The theorems on cells are their scalar cases, for all widths.

## 5. Not modelled

- Name resolution, `connect` and the TLS handshake in detail: one suspension
  point in `ClientPool`, one attempt in `Endpoints`. The inside of `php_stream`.
- Conversions that are the arithmetic of a library: floats, the parsing of a
  decimal, IP addresses; `FixedString`, `Date`, `Date32`, `Int128`,
  `LowCardinality`. The rounding of the product of two doubles.
- One Result used by two calls at once, and two flushes of one Batch at once: what
  the library, or freed memory, then gives is not decided by this code. The
  comment at `ch_client.cpp:888` excludes the first; nothing excludes the second.
- The wrapper object of `getPool()` and the idle statistics of the pool ABI.
- The PHP exception class and code of an error, statement text, parameters and
  settings: they change no state of the extension.
- Memory of the PHP engine (leaks of a partly filled row), module start-up,
  generated code, build and CI.

## 6. Plan

1. `ChErrors`, `ClientPool`, its contract, invariant and proofs; `BatchInsert`;
   `Endpoints`. (done)
2. `ResultStream` with `RowStream`, `Transport`, `Columns`, and the proofs of the
   first two and of `BatchInsert`. (done)
3. Proofs: `WireInv` and with it `IdleIsClean` and `OnlyUncleanDropped`; the step
   simulation of `ConnectionLeases`; the rest of the Result; `Endpoints`. (done)
4. Proofs: the building of a block, in a module without recursion (`ColumnAppend`),
   and the scalar conversions. (done)
5. The remaining column types; the wrapper of `getPool()`.
