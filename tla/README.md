# A TLA+ model of SOCI

SOCI is a C++ library through which a program talks to a relational database:
a `session` is a connection, a `statement` a query with output (`into`) and
input (`use`) elements, a `transaction` an object that rolls back unless it was
committed, a `connection_pool` a set of sessions shared by threads. A backend
(SQLite, PostgreSQL, MySQL, ODBC, Oracle, DB2, Firebird) implements sessions
and statements for one database and can be loaded at run time.

The project keeps, beside that code, models of the parts with an order of steps
that is hard to test, TLC runs that check them on small instances, and theorems
about the pool, the registry, sessions, transactions, statements, bulk operations and the
C interface that TLAPS has checked for every instance. Paths below are relative to the repository.

## 1. Inventory

| component | state it keeps | operations | interacts with |
|---|---|---|---|
| connection pool (`src/core/connection-pool.cpp`) | free flags, a mutex and a condition variable (POSIX) or a critical section and a semaphore (Windows) | `lease`, `try_lease`, `give_back`, `at` | client threads; pooled sessions |
| backend registry (`src/core/backend-loader.cpp`) | map from names to factory, library handle, use count, "unload later" flag | `register_backend` (library or factory), `get`, `unget`, `unload`, `unload_all` | connection parameters; the dynamic loader |
| connection parameters (`src/core/connection-parameters.cpp`) | factory, connect string, options, a counted reference to a backend | construct, copy, move, assign, destroy, parse and build strings | registry, sessions |
| session (`src/core/session.cpp`) | backend pointer, parameters of the last connection, pool position, `once` and `prepare`, settings | open, close, reconnect, move, settings, begin/commit/rollback | pool, backend, statements |
| transaction (`src/core/transaction.cpp`) | `handled_` | construct, commit, rollback, destroy | session, backend |
| statement (`src/core/statement.cpp`) | into and use elements, fetch sizes, "described" flag | alloc, bind, exchange, prepare, define and bind, execute, fetch, describe | statement backend, elements, session |
| statement backends (`src/backends/*/statement.cpp`) | cursor, cached rows, described flag, row counts | prepare, execute, fetch, describe | client library of the database |
| session backends (`src/backends/*/session.cpp`) | connection, transaction handle, autocommit | begin, commit, rollback, is_connected | client library |
| into and use elements (`src/backends/*/{standard,vector}-{into,use}-type.cpp`) | buffers, indicators and lengths that the client library reads and writes, the part of a vector that is used | define, bind, pre_use, post_use, pre_fetch, post_fetch, resize, size, clean_up | variables of the program, client library |
| `once`, `prepare`, `ddl` temporaries (`ref-counted-*.{h,cpp}`) | a count whose last decrement runs the statement | `<<`, `,` | statement, session's query stream |
| procedure | a statement with a prefix to its query | as a statement | statement |
| row, rowset, values | columns and values of a row; an iterator | get, iterate, copy | statement |
| C interface (`src/core/soci-simple.cpp`) | clean / defining / executing, kinds and values of elements, error text | about 200 functions on a statement wrapper | session, statement |
| logger, error, blob, rowid, unicode, type conversion, adapters | text, buffers, single values | formatting and conversion | the above |

The behaviours that are hard:

* **Threads** meet only in the pool and in the registry. In the pool a thread
  that waits releases the mutex, and everything may happen before it has the
  mutex again; on Windows the semaphore is taken outside the critical section.
* **Lifetimes**: sessions made from a pool cache a pointer into a pooled
  session; parameters keep shared libraries loaded by counting references of
  references; sessions are moved in all combinations of pooled and owned.
* **Failure in the middle**: `reconnect()` closes before it connects;
  registering a backend unloads before it loads; a commit is one or two driver
  calls, each of which may fail, and the connection may be lost before or after
  the commit took effect.
* **Protocols with the caller**: vectors are resized between fetches, a
  statement is executed again in the middle of a result, a backend says "no
  data" together with the last rows or after them, and describes a query by
  running it. The C interface takes its calls in any order.
* **Memory that is bound once** and read or written by the client library at
  every execution: buffers, lengths and indicators outlive the execution that
  set them, and `post_use()` does not run when an execution throws.
* **Bulk operations**: one row of many fails, the results of a pipeline are read
  after later rows were sent, the connection is lost in between, and a failover
  callback replaces it.
* **Queries seen as characters**: five backends find the parameters themselves.

What makes each component correct: the pool leases no position twice and strands
no waiter; the registry's counts balance and no code is unloaded under its
users; every connection and every lease has one owner and cached pointers are
current; a transaction is all or nothing and leaves the session clean unless its
end fails and nobody is told; a statement gives every row once, in order, and runs the query once; an element
sends what its variable says now and receives the row that was fetched; a bulk
operation ends, leaves the connection usable and names the row that failed; the
database sees the query with each parameter replaced by its element; the C
interface does nothing undefined as long as its calls come in an order that makes sense.

`PROJECT.json` lists every component, also the ones that are not modelled, and
the hazards, each at its line with the properties that would catch it.

## 2. The modules

| module | models | composes |
|---|---|---|
| `PoolSpec` | what the pool promises: requests, grants of the first unleased position, refusals, returns | |
| `ConnectionPool` | the POSIX pool | refines `PoolSpec` |
| `ConnectionPoolWin` | the Windows pool | refines `PoolSpec` |
| `ConnectionPoolProofs`, `ConnectionPoolWinProofs` | theorems about the two | extend them |
| `BackendRegistry` | backend-loader.cpp and the references in connection-parameters.cpp | |
| `SessionBackends` | sessions as users of backends | extends `BackendRegistry` |
| `SessionHandle` | sessions as owners of connections and lessees of the pool | |
| `Transaction` | transaction.cpp over begin/commit/rollback of all backends | |
| `Statement` | `statement_impl::execute()` and `fetch()` over all backends | |
| `ExchangeElement` | an element, its variable and its buffers | |
| `UseExchange`, `IntoExchange` | use and into elements of all backends | extend `ExchangeElement` |
| `Exchange` | a statement with one of them | extends both |
| `BulkUse` | executions with vectors of use elements; the pipeline and the failover of PostgreSQL | |
| `Parameters` | the scanners in `prepare()` of five backends, and binding by name and by position | |
| `SimpleApi` | the C interface of soci-simple.cpp | |
| `SessionBackendsProofs`, `SessionHandleProofs`, `TransactionProofs`, `StatementProofs`, `BulkUseProofs`, `SimpleApiProofs` | theorems about the registry and its users, sessions, transactions, statements, bulk operations and the C interface | extend the module of the name |

Each `MC...` module gives TLC its symmetry sets and definitions for constants;
the `.cfg` files give the values. Definitions whose comment begins "Mutation of"
are faulty forms of the definition that follows; with one of them in place of
that definition a property of the run fails, which shows that the property sees
the code it is about.

### ConnectionPool

State: `free` is the first member of the pairs in `sessions_`, `mtx` the owner of
`mtx_`, `waiters` the threads blocked on `cond_`; `pc`, `timed`, `expired`, `cc`
and `pos` are the locals of a call, and `leases` is a history variable: what each
thread was given and has not returned. A step is what happens between two
operations on the mutex: `TryLease` (the call), `LockForLease`, `FindFree` (the
loop's condition), `CondWait` or `CondWaitFails`, then `SpuriousWakeup`,
`CondTimeout` or another thread's signal followed by `Relock`, and `FinishLease`;
`GiveBack` (with the range check that throws before locking), `LockForGiveBack` and
`FinishGiveBack`, which signals one waiter. `DeadlinePasses` is time: the code
computes an absolute deadline once, so it is a flag. Two constants are the
environment: `WaitErrors` (the wait may fail) and `SignalLostOnTimeout` (a wait
that times out may also consume a signal, which POSIX does not exclude).
`Stray` are positions that clients give back without holding them.

### ConnectionPoolWin

The same interface over a semaphore that counts free positions (limited to the
pool size) and a critical section. The state "lost" stands for the exception
commented "this should be impossible".

### BackendRegistry and SessionBackends

All of backend-loader.cpp runs under one mutex, so each function is one action.
An entry has the factory, the use count and the flag "unload when unused"; a
library is the number of its loading, so that a reloaded library is a new one.
`refs` are the `dynamic_backend_ref` objects with their counts and `params` the
`connection_parameters`. In `SessionBackends` the `lastConnectParameters_` of a
session *is* one of those parameter objects, and `conn` is the factory whose code
its connection runs.

### SessionHandle

Session objects of the program and the pooled sessions are records of one kind:
backend pointer, pool membership and position, the session that `once` and
`prepare` refer to, and settings. The actions are the constructors, the moves,
the destructor, `open`, `close`, `reconnect` and its failure, and the settings.
The pool is used by one thread here.

### Transaction

The database is a record of durable and pending writes, the connection and the
switches the backends set; a call to it is a set of outcomes. A commit or a
rollback may succeed, be refused with the work pending, throw although it ended the
transaction, or lose the connection before or after it took effect; a change of
autocommit may be refused with the connection up and the attribute as it was. Each driver
call fails by itself: `commit()` of ODBC is `SQLEndTran` and then `reset_transaction()`,
and the second can fail when the first did not; DB2 turns autocommit on after a
`SQLEndTran` that failed, which commits what is pending. `threw` and `swallowed` record
which calls of an object failed, the destructor's rollback included, and `EndFailed` names
the objects whose end failed for good: the destructor swallowed a failure with the
connection up, or, with DB2, any call threw. The properties say what holds of all others
and of the session after them. Eight kinds of backend:
SQLite, PostgreSQL and MySQL (BEGIN, COMMIT, ROLLBACK), Oracle and Firebird
(implicit transactions), ODBC and DB2 (autocommit off and on) and DB2 with
`autocommit=off`. The program has one unhandled object at a time, and after a
`commit()` or `rollback()` that threw it retries or destroys the object.
Statements do not fail here; with PostgreSQL a COMMIT after a statement that
failed rolls back and is reported as success, which the code passes on.

### Statement

A shape is a statement: its backend, the kind of its into elements, the number of
rows of its use elements, whether its query has columns. Row *i* of the result
is the number *i*. `impl` are the fields of `statement_impl`, `be` those of the
backend. `Execute(exchange)` and `Fetch` are the two functions with everything
they call; `ResizeVector` is the program. The backends differ in how they find the
end: SQLite steps, PostgreSQL and MySQL count in a stored result, Firebird and
Oracle remember it in a flag, ODBC and DB2 ask the driver (ODBC row by row when a
column is very large).

### Exchange

A *shape* is an element and the way its program uses it: direction, backend, type,
single value or vector, a range of the vector (PostgreSQL, Oracle), which indicators
there are, whether the program resizes the vector and whether it goes on after a failure.
`data` and `inds` are the program's, `be` the fields of the element's backend object, and
`last` what the last call was asked and what the database got. A use element is bound
when the state starts; `Assign` is the program, `Execute` is `pre_use()`, the driver that
reads what was bound, and `post_use()`; `ExecuteFails` is one that throws after some rows,
so that `post_use()` does not run. With Oracle a procedure may write a value or NULL to the
parameter of a single value, also to one that was sent as a null. `Refused` is a `pre_use()` that throws. An into
element has `Fetch` (the client library fills what was bound, `resize()`,
`post_fetch()`) and `ResizeVector`. Which rows a result has is the subject of
`Statement`; here any rows come. Values are two abstract ones, and "NULL", "zero" (never
assigned) and "junk" (no defined content) are told apart.

### BulkUse

SQLite, Firebird and MySQL loop over the rows (`ExecuteLoop`), ODBC and Oracle give all of
them to the driver (`ExecuteBatch`), which executes some. PostgreSQL is modelled call by
call: `out[c]` are the results that `PQgetResult()` will return on connection `c`, a row
that is sent adds its result, a synchronization point its own, and the connection can be
cut at any time (`Cut`), noticed or not. The destructor of `pipeline_mode_guard` is
`GuardSync`, `GuardDrain` and `GuardGivesUp`. libpq is modelled from the calls made to it.
When an error leaves the backend, `Rethrow` asks for the row to show, as
`statement_impl::rethrow_current_exception_with_context()` does.

### Parameters

A query is a sequence of lexemes of the backend's SQL, each a sequence of characters; the
backend sees the characters only, which is what a scanner can get wrong. One character
stands for its class: a letter, a quote, a backslash, a colon. `Prepare` runs the scanner;
`DefineAndBind` binds the elements one after another and stops where the code throws;
`Execute` fills the buffers and puts the query together as the backend does;
`BindCleanUp` deletes the elements but not what the backend has noted of them.

### SimpleApi

The state is the `statement_wrapper`. The functions for the different types are alike and
are one action with the type as a parameter; "int", "date" (given as text, which may not
convert) and "blob" (a handle with an owner) stand for all. Blobs have a history of their own, `given` is what
the program has set and `row` what the last fetch gave. C++ statements behind the
interface succeed, fail or give any rows. `ub` is set where the code reads past a vector or
uses a blob that is gone. `AnswersAreRows` asks for both directions: a cell that is there is
found, and one that is not, or is null, or of another type, is refused.

## 3. The runs

| run | what it shows | bounds |
|---|---|---|
| `pool_posix` | leases are exclusive, no waiter is stranded beside a free position, the POSIX pool implements `PoolSpec`; a call with a timeout returns and a free position is taken by a waiting thread | 3 threads, 2 positions; timeouts, spurious wakeups, failing waits |
| `pool_win` | the same promise for Windows; the semaphore accounts for the free flags; the impossible exception is impossible | 3 threads, 2 positions |
| `session_backends` | no parameters and no session outlive their library, deferred unloads happen, a session reconnects with the factory it was made by | 2 names, 2 libraries, 2 sessions, 2 parameters, 2 references |
| `session` | each connection has one owner, each lease one lessee, cached pointers are current | 2 sessions, 2 positions, 2 connections |
| `transaction` | all or nothing; what `commit()` reported is durable; the session is left clean and work outside stays unless an object's end failed for good | 2 objects, 3 writes, 8 kinds of backend |
| `statement` | rows arrive once and in order, the end comes after all of them, nothing is written past the vector, "data" means rows, the query runs once | results up to 4 rows, vectors up to 3 |
| `exchange` | what is sent is what the variables say now, nulls are kept, what a procedure wrote comes back, a row arrives where it belongs and nowhere else | 2 values, vectors up to 2 or ranges in 3, all backends and types |
| `bulk` | `execute()` ends, the connection is usable after it, affected rows are counted and the row of an error is the one that failed | 4 rows, pipelines of 2, two connections |
| `parameters` | the database sees the query with each parameter replaced by its element; elements that fit are not refused | queries of 3 lexemes, 3 elements, 5 backends |
| `simple` | without the habits of section 5: no undefined behaviour, blobs are destroyed once, by their owner; answers are the row fetched last, what is sent is what was set, a call that fails changes no element | 2 names, 2 blobs, 2 elements, vectors up to 2 |
| `simple_get_use`, `bulk_failover` | findings 1 and 2 of section 5 | as `simple` and `bulk` |

Why the bounds are enough to be interesting: with three threads two can compete
for what a third gives back, and one can be woken in vain; with two positions a signal
can go to one waiter while another takes the position, and the order of positions
matters. Two sessions and two parameters give every combination of moves and copies,
including onto themselves, and two libraries a replaced one. Two objects one after
the other are enough for one that failed and one that inherits what it left; three
writes give one of them two and leave one for outside. (Three objects were checked too: 2.9 million states, no more to see.)
Vectors of up to three elements and four rows give full, partial and empty last
batches, and the sizes 0 and 1 that the code treats apart. The cursor of a stored result
grows with every fetch past the end and is bounded by `MaxCursor`. Four rows and a
pipeline of two give two chunks, an error in each place of each, and a last chunk of
one. Three lexemes put everything that a scanner tells apart before, between and
after parameters. Two values tell an old one from a new one in an element.

The passing runs leave out what does not work; the definitions that do it are
`GoodShapes` of `MCStatement` and `MCExchange`, `GoodPrograms` of `MCBulkUse`,
`UsualHabits` of `MCParameters`, an empty `Habits` in `SimpleApi.cfg` and
`FailsThroughPool = FALSE` in `Session.cfg`. The first of them is `Regular` of `Statement`
and the third `Usual` of `BulkUse`, which the theorems use as well; of the habits, each
theorem about the C interface excludes only those that break it. Each definition says what
it leaves out, and they are not small: `SimpleApi.cfg`, for one, has no program that
executes a statement whose preparation failed, and `MCParameters` no query with a quote
directly after a parameter, both of which the code lets through and gets wrong. Section 5 says what happens then, and the model contains that behaviour: with
other values of these constants TLC shows it.

Deadlock is checked except in `transaction`, where objects and writes are used up, and in
`exchange`, where some programs use a statement once.

**Fairness.** In `pool_posix`: a thread that can run eventually runs (weak fairness of
the steps outside a lock request), time passes, and a thread that asks for a mutex which is
free again and again gets it (strong fairness of the lock requests): that is what the
scheduler and the mutex of the operating system give in practice and the code relies
on. Nothing is assumed of clients (they need not call, nor give back), of spurious
wakeups, or of failing waits. In `bulk`: a thread inside `execute()` goes on (weak
fairness of its steps); libpq returns when the server has answered or the connection is
known to be lost. Nothing is assumed of the program.

Further invariants are defined in the modules and hold, but are not in a run, since those
that are say more: every `TypeOK`; `UseCountsRefs` and `NoHandleLost` of
`BackendRegistry` (`NoDanglingFactory` and `DeferredUnload` rest on them),
`AutocommitOffUntilHandled` of `Transaction`, and `ExclusiveLeases` of
`ConnectionPoolWin` (it follows from `ImplementsPoolSpec`). They are proved.

## 4. The theorems

Each theorem holds for every value of the constants that meets the assumption of its
module: finite sets of any size, any number of rows. Four things are asked of constants
beyond their types: the names of session objects are not positions of the pool
(`SessionAssumption`), a use count can count at least one use (`RegistryAssumption`: the
bound `MaxCount` is the model's), a pipeline is at least two rows deep
(`BulkAssumption`, as `PIPELINE_DEPTH` is), and values, handles of blobs and the three
marks for "no entry", "nothing assigned" and NULL are told apart (`SimpleAssumption`: in the
code they have different types). Where a theorem needs more it says so as an
implication.

In every proof an inductive invariant `IInv` (or a conjunction of the same kind) was first
checked with TLC, then the initial states are shown to satisfy it, one lemma for each action
shows that the action preserves it, and the properties follow.

### The pool

* `TypeCorrect`: the POSIX pool keeps its types; a position never leaves the vector.
* `LeasesExclusive`, in both modules: if clients give back only what they hold
  (`Disciplined`), `ExclusiveLeases` holds.
* `NoLostWakeup`: unless a timed-out wait can swallow a signal, `NoStrandedWaiter`
  holds, whatever clients give back. (POSIX does not exclude that a wait which times out
  consumes a signal; the run assumes it does not. The other theorems hold either way.)
* `Refinement`, in both modules: for disciplined clients the pool implements `PoolSpec`.
* `DeadlineExact`: the deadline that `try_lease()` computes is a valid `timespec` and lies
  exactly the timeout after the time of the call, whatever both are (for integers without
  overflow): one carry into the seconds is enough.
* `SemaphoreAccounts` and `NoImpossibleThrow`: on Windows the semaphore plus the
  threads past it account for the free flags, and the exception is never thrown,
  whatever clients give back. (The run checks it for clients that hold what they
  give back.)

`IInv` of `ConnectionPoolProofs` is the types and four facts that tie
program counters to the shared state: `MutexInv` (who is in a critical section is
the owner), `WaitersInv` (the blocked threads are those at "wait"), `ResultInv`
(what the local `cc` says about timeouts) and `FoundInv` (a thread about to mark a
position has found it free). Neither `ExclusiveLeases` nor `NoStrandedWaiter` is
inductive without it: marking a position is safe only because nobody else can have
taken it since `find_free()`, which is the mutex. `LeasesExclusive` adds that a
thread inside `give_back()` holds what it gives back. `NoStrandedWaiter` counts: if
anyone waits, there are at most as many free positions as threads on their way to look
for one; a give-back adds one to both sides, a spurious wakeup or an impatient
newcomer only to the right one. The refinement maps a call in progress to a request
and uses the same facts to show that the position granted is the first unleased one.
On Windows types and the count are inductive together, and a position that is not free
is leased or on its way to be given back, by one thread.

### The registry and its users (`SessionBackendsProofs`)

`UsesAreReferences`, `FactoryNeverDangles`, `UnloadIsNotForgotten`, `HandlesAreKept`,
`CodeStaysLoaded` and `ReconnectsToTheSame`, without a further condition. The invariant
says of each entry that its library is loaded and is that of no other entry (`EntryInv`),
that the use count is the number of references to the entry (`UseInv`), that a reference has
at least as many counts as holders (`HoldInv`), and that parameters with a reference have the
factory that is registered under its name, and those without one none that has to be kept
loaded (`ParamInv`). `HoldInv` is an inequality since
`operator=(&&)` between two parameters that share a reference counts down for neither.
`ConnInv` ties the connection of a session to its parameters.

### Sessions (`SessionHandleProofs`)

`PositionsHaveOneLessee` holds without a condition: moving, assigning and destroying
sessions in any order leaves each leased position with one session. `BackendsHaveOneOwner`
and `CachedPointerValid` hold if `reconnect()` of a session made from a pool does not fail
(`~ FailsThroughPool`). The condition is needed for both: after such a failure the session
keeps a pointer to a deleted backend, and a backend made later can have that address; then
two sessions own it, as TLC shows with `FailsThroughPool = TRUE`.

### Transactions (`TransactionProofs`)

`DurableAsAWhole`, `CommitIsKept`, `LeavesConnectionClean`, `PriorWorkIsKept` and
`AutocommitStaysOff`, for all eight kinds of backend, with every driver call refused,
throwing after it took effect, or losing the connection. An object whose end failed for
good (`EndFailed`) is named in three of them: its work may become durable without a
`commit()`, though still as a whole; the session after it need not be clean; and once there
is one, work outside is no longer promised to stay. The invariant relates the flags of the
connection and of the backend, what is pending, and the one object that is not handled:
`PendingInv` (with no transaction open nothing is pending), `ScopeInv` (at most one object
is unhandled, and what is pending was executed under it, outside every object or under
one whose end failed for good), `OpenInv` (as long as no call of
that object has thrown and the connection is up, its transaction is open and holds its work)
and `WholeInv` (the work of an object is pending, durable or undone as a whole).

### Statements (`StatementProofs`)

`RowsComeInOrder`, `EndMeansAllRead`, `VectorNotOverrun`, `TrueMeansRows` and
`QueryRunsOnce` for results and vectors of any size, if all shapes are `Regular`: those of
section 5 are left out. The eight backends share no state, so the proof has two layers. A
contract says what `statement_impl` needs of a backend that has given *c* rows (`Ready`):
asked for *n*, it gives all that are left of these, a failure is the end, and the number of
rows that it tells is right unless it is left over from before the end (`Gives`, `Stale`);
executed without data exchange it gives none (`Performs`). Each backend is shown to keep the
contract. `execute()` and `fetch()` of `statement_impl` are then proved from the contract
alone (`Deliver`): rows that were asked for are handed over, the vector is resized to their
number, and what remains is still promised (`Promises`).

### Bulk operations (`BulkUseProofs`)

`ConnectionStaysUsable`, `CountIsRight` and `FailedRowIsShown`, for vectors of any size and
pipelines of any depth, if all programs are `Usual`: vectors do not shrink, the program does
not go on after an error with ODBC and Oracle, and no failover callback asks for a retry
within a transaction; section 5 says what happens otherwise. The centre of the invariant is
`QueueOf`: the results that are still to be read are those of the rows from `at.row` on, two
for each row, each the answer that the database gave for that row (`Answer`), then the
synchronization point; a cut connection replaces a tail of them by "lost". Sending appends to
this queue, reading takes from it, and so what `execute_bulk()` has counted and noted agrees
with what the database did (`AnswersInv`) however rows, errors and losses are interleaved.
`GuardInv` says that the guard knows the connection that is in the pipeline mode, and
`BrokenInv` that a call in which nothing broke has a connection that works.

### The C interface (`SimpleApiProofs`)

For any number of names, values, blobs and elements and any size of the vectors. A theorem
excludes the habits of section 5 that its guarantee does not survive, and no program of the
others; all of them exclude `readsVector` as well, since the common invariant does not survive
it: a single element without an indicator then stands beside the vector of its name.

| theorem | property | besides `readsVector` it excludes |
|---|---|---|
| `TypeCorrect` | `TypeOK` | |
| `AnswersCorrect` | `AnswersAreRows` | |
| `FailuresLeaveElements` | `FailureLeavesElements` | |
| `BlobsAccountedFor`, `OneHolderOfBlobs` | `BlobsAccounted`, `BlobsHeldOnce` | `blobState` |
| `SentIsSet` | `SentAsSet` | `prepareAgain`, `blobLate` |
| `NothingUndefined` | `NoUndefined` | `blobState`, `blobLate`, `otherKind`, `blobFails`, `unprepared` |

The maps and vectors of `statement_wrapper` are separate fields that each function has to
keep in step, and the invariant says what in step means. `IntoInv`: there is one indicator
for each into element, in the vector of the elements' kind and in no other; a single value
or a vector with its indicators is the column of the rows got last. `UseInv`: a use element
has an indicator, is of the one kind that all have, and holds what was given for its name.
`BoundInv`: every element was bound as often as the statement was prepared. These are
inductive together (`BaseInv`): a resized vector stays a column only because its vector of
indicators is resized with it, and a name is never in the maps of single values and in those
of vectors only because of the kind. Blobs need more, under the habits named above: `BlobInv` (the statement's own
blobs are those that an element holds as null, each in one element; an element that is not
null borrows the program's), `BoundBlobs` (what is bound is what the element has) and
`BlobsMade` (no handle is null). `Kept` states for a step that it keeps the base, and each of
these if the habit that breaks it is absent; there is one lemma of that form for each function.
What the rows do to the elements is in `Refetched`, which `execute()` and `fetch()` share.

### Only model-checked

Liveness under fairness (`bulk` and `pool_posix`) is out of the prover's reach. The elements
of the backends (`exchange`) and the parameters have no theorems. The scanners of
`Parameters` and its binding of elements are folds over sequences, and what a fold computes for
every sequence needs an induction over data that the provers cannot do: they stay with TLC.
Of the elements no theorem has been attempted; seven backends with single values and vectors
of six types make an invariant of many cases, which the run goes through for small vectors.

## 5. Findings

Two runs end in a counterexample to something the repository says; `PROJECT.json` quotes
the lines.

1. `simple_get_use`: the functions `soci_get_use_*()` look for a vector of the name
   although they read a single value, and so always fail for one.
2. `bulk_failover`: when the connection is lost while rows of a bulk operation are in the
   pipeline and the failover callback asks for a retry, `execute()` reads from the new
   connection, which has nothing to give, for ever.

Further configurations, to be run by hand, each show a violation of one property:

| configuration | module | property | what it shows |
|---|---|---|---|
| `SessionReconnect.cfg` | `MCSessionHandle` | `CachedBackEndValid` | when `reconnect()` of a session made from a pool fails, the session keeps a pointer to the backend that the pooled session has deleted (`session.cpp:321`) |
| `SessionMove.cfg` | `MCSessionHandle` | `StatementsUseOwnSession` | a session from a pool that is assigned one that is not keeps `once` and `prepare` referring to the pooled session it has just given back |
| `StatementVectorUse.cfg` | `MCStatement` | `DataHasRows` | SQLite: a query with a use element into a vector of one element reports data and leaves the vector empty |
| `StatementFirebird.cfg` | `MCStatement` | `RowsInOrder` | Firebird: when `execute(true)` has filled only a part of the vector, `fetch()` presents the same rows again; Oracle is alike if `OCI_ATTR_ROWS_FETCHED` keeps its value |
| `StatementRow.cfg` | `MCStatement` | `RunsOnce` | PostgreSQL and MySQL: a statement with `into(row)` whose query returns no columns is run twice by one `execute()` |
| `ExchangeOdbc.cfg` | `MCExchange` | `NullsKept` | ODBC: `post_use()` sets the indicator of a null use element to `i_ok`, so that the next execution sends a value |
| `ExchangeDb2.cfg` | `MCExchange` | `FetchedIsRow` | DB2: strings and nulls of a vector that was made smaller and larger again between fetches are lost |

Shown by other values of `Shapes`, `Programs` or `Habits`:

* Use elements. PostgreSQL and MySQL send the first values of a vector again when the
  statement is executed again, and PostgreSQL sends as many as there were when the vector was bound.
  PostgreSQL sends the old value for an element that is null after a failed execution.
  Oracle keeps the lengths of the first strings of a vector, ignores the range for
  long strings and does not copy a 64-bit integer back that a procedure wrote. With
  DB2 a date points to freed memory after the first execution. ODBC does not set a
  64-bit integer that is fetched as text.
* Bulk operations. ODBC and Oracle keep the row of an earlier error, so that the next
  error may show that row or, if the vectors have shrunk, become `std::out_of_range`.
  MySQL reports -1 affected rows when the first row fails.
* Parameters. MySQL compares the number of values with the number of pieces of the
  query, which is one more unless the query ends with a parameter, and so accepts one
  value too few or too many (habit `otherNumber`). The flags and the buffers that say
  how elements were bound are not reset by `bind_clean_up()`, so that other elements bound
  after it are refused or read with deleted ones (`rebinds`; PostgreSQL, MySQL, ODBC,
  Firebird). DB2 does not see a cast that follows a parameter (`casts`). The character that
  ends a name is copied without another look, in every backend: when a literal or a quoted
  identifier starts directly after a parameter, as in `:a"x:b"` (PostgreSQL) or `:a':b'`, a
  colon inside it is taken for a parameter, or what follows it for a literal; when another
  parameter does, it is missed (`abuts`). An assignment directly after one is right.
* The C interface. `soci_set_use_state()` for a blob loses or destroys a blob
  (`blobState`); a blob set after `soci_prepare()` is not the one that is sent (`blobLate`);
  a second `soci_prepare()` binds each element twice (`prepareAgain`); the vector functions
  used on single into elements, and the reverse, read past a vector (`otherKind`);
  `soci_get_use_*()` on a vector makes a single element of its name (`readsVector`); a backend
  without blobs leaves a null handle among the elements (`blobFails`). `soci_execute()` and
  `soci_fetch()` do not look whether the statement was prepared (`unprepared`): after a
  `soci_prepare()` that failed its elements have no backends and a null pointer is used;
  before any, MySQL takes the first piece of a query that it does not have; and a fetch
  before the first execution that went well has PostgreSQL and MySQL read `numberOfRows_`,
  `currentRow_` and `rowsToConsume_`, which their constructors do not set.

Met while modelling, without a run: SQLite's `clean_up()` of a date looks at the first row
of the use data whatever its position; the DB2 backend turns autocommit on even if
`SQLEndTran` failed, so that a rollback that was refused makes the work durable and a
retried call does nothing; when the destructor of a transaction swallows a failed rollback
with the connection up, the transaction stays open, later statements are in it, and the
next object's `begin()` or `commit()` or the end of a Firebird session makes the work
durable (with ODBC, a refused `reset_transaction()` leaves autocommit off);
`soci_set_use_uint8()` looks for and sets an element of the type uint32;
move assignment between parameters that share a reference keeps one count too many
(the backend is then never unloaded); `set_query_context_logging_mode()` is not
forwarded to the pooled session; `execute(true)` of an insert returns true with ODBC,
DB2 and Oracle and false with the others; `failover_callback::failed()` is called before
the first attempt to reconnect and not after one that failed; a range of a vector with
`*end` equal to 0 is taken for no range; `initialFetchSize_` is not
initialised in the statement of a `prepare` expression (`statement.cpp:51`) until it is
executed (statements made from a session, those of the C interface among them, do set it).

## 6. Not modelled, and the plan

Not modelled:

* Connecting, the text of connection strings, and the SQL dialect helpers of the session
  backends: calls to the client library and pure functions over text.
* The contents of blobs and row identifiers: buffers whose operations forward.
* Conversions of single values, unicode, the templates and adapters around them: no state
  and no order of steps; the repository's tests go through tables of them.
* Who deletes an element when `bind()` or `exchange()` throws, `bind(values)`, and the
  counted temporaries of `once`, `prepare` and `ddl`: used within one expression of one thread.
* `row`, `rowset` and `values` (containers over a statement), `procedure` (a statement with a
  prefix), the logger and the texts of errors.
* The single row mode of PostgreSQL.
* In `Parameters`: comments; identifiers in double quotes except in PostgreSQL; a second
  `prepare()`. The scanners know no comments, and those of MySQL, ODBC, DB2 and
  Firebird no such identifiers: a colon there is taken for a parameter.
* The empty backend, the Ada binding, tests and build files.

In order:

1. **Proofs**: `SentIsCurrent` and `FetchedIsRow` of elements. For `SentIsCurrent` the
   invariant is what a backend's buffers hold between two executions; it is empty for most
   (they are refilled by `pre_use()`) and `buf = <<>>` for those that append.
2. **Elements**: every element is deleted once whatever throws, and a `once` expression runs
   once, at its end.
3. **Pure functions** against reference definitions: UTF conversions, splitting and
   building connection strings.
