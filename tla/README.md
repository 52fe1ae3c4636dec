# TLA+ models of HighLoad-Systems

The repository holds eight small programs that share no code and do not talk to
one another. This directory models all of them, checks the models with TLC on
small instances, and proves with TLAPS, for instances of any size, every invariant
that a passing run checks and the three refinements.

| program | where | modelled in |
|---|---|---|
| in-memory cache | `src/cache` | `ShardedCache`, promise: `AsyncStore`, proofs: `ShardedCacheProof` |
| HTTP server, thread pool | `src/HTTP-server-cpp` | `ThreadPool`, promise: `TaskPool`, proofs: `ThreadPoolProof` |
| HTTP server, loop, handler, parser, response cache | `src/HTTP-server-cpp` | `HttpServer` (on top of `TaskPool`), proofs: `HttpServerProof` |
| messager | `src/messager-cpp` | `Messager`, promise: `ChatRoom`, proofs: `MessagerProof` |
| account manager | `src/account-manager-py` | `AccountManager`, proofs: `AccountManagerProof` |
| image processor | `src/image_processor` | `ImageProcessor` on `BmpFile` (the bytes), proofs: `ImageProcessorProof` |
| metro maps server | `src/metro-maps-cpp` | `MetroMaps`, proofs: `MetroMapsProof` |
| echo servers in C++ and in Python | `src/echo-server-cpp`, `src/echo-server-py` | `EchoServer`, proofs: `EchoServerProof` |

`tlc -config X.cfg MCY.tla` runs a configuration, `tlapm YProof.tla` checks the
proofs. `PROJECT.json` lists the runs, the lines that every definition
translates, the hazards of the code with the properties about them, and for
every property a plausible bug that breaks it.

## Inventory

### In-memory cache (`src/cache/cache.h`)

- **State.** A `Cache` is a vector of `Shard`s. A shard has a map behind a
  `shared_mutex`, a queue of tasks (`std::function`) behind `tasks_mutex`, a
  condition variable, an atomic `stop`, and one worker thread.
- **Operations.** `set_async`, `remove_async` and `get_async` hash the key to a
  shard and push a task, then notify; `get_sync` reads the map at once. The
  worker waits, takes a task under the mutex and runs it outside; the task locks
  the map. `get_async` gives the caller a future, which the task keeps.
  The destructor raises `stop`, notifies and joins, shard after shard.
- **Interaction.** Clients and worker share the queue, the map and the promises;
  the tasks refer to the shard through the cache.
- **Hard.** The notify comes after the unlock; `stop` is raised without the
  mutex; the task is in nobody's queue while it runs; a task left at shutdown has
  a promise to break; the iterator of `get` is used after the search.
- **Correct if** each shard acts as a log of requests that takes effect in the order
  of the pushes, each request once; an asynchronous read is exact; no worker sleeps
  on work; every future settles; the destructor returns.

### Thread pool of the HTTP server (`thread_pool.cpp`)

- **State.** Queue of jobs, one mutex, one condition variable, `stop`, n workers.
- **Operations.** Constructor, worker loop, `enqueue`, destructor, which drains
  the queue.
- **Hard.** One notify per job after the unlock, with several workers; shutdown
  with jobs queued.
- **Correct if** every job starts once, in order, no worker sleeps while a job could use
  it, and the destructor returns after the last job.

### HTTP server (`server.cpp`, `http_parser.cpp`, `cache.cpp`)

- **State.** The loop's `master_set`, `read_set`, `max_fd`; the pool; the response
  cache with entries that expire after 60 seconds; and in the system, the sockets, whose
  numbers are used again.
- **Operations.** `init_socket`; `select`, accept, dispatch to a worker (which takes the socket
  out of `master_set`), `Cache::cleanup`; in a worker one `recv`, the parser,
  `Cache::get`/`put`, `send` until all is out, `closesocket`.
- **Hard.** A number is closed by a worker and given out again while the loop
  goes through an older `read_set`; requests and responses that travel in parts; a cache that
  all workers ask and fill in two critical sections; clients that vanish at any moment; a full `fd_set`.
- **Correct if** a socket has one owner, the whole answer to what was asked goes to who asked, also
  from the cache, and every connection is closed in the end.

### Messager (`server.cpp`, `connection.cpp`, `client/client.cpp`)

- **State.** `connects`, one pending `async_read_until` per connection, the
  writes that asio has in progress, the buffers of the sockets.
- **Operations.** Accept and wait for the next, read a line and broadcast it to
  all the others, the composed writes of asio, which may be done in parts, and
  the signal that stops the `io_context`.
- **Hard.** `broadcast` builds a temporary string and starts asynchronous writes
  over it; several writes to one socket may be in progress.
- **Correct if** every line arrives at every other client once, whole, and in its sender's
  order.

### Account manager (`main.py`, `src/*.py`)

- **State.** The table `users`, one cursor shared by every request, sessions in
  Redis that expire, and the local variables of each handler.
- **Operations.** register, login, logout, me and active. FastAPI runs them in a
  pool of threads, as they are plain functions.
- **Hard.** `execute` and `fetchone` of different requests alternate on the one
  cursor; the check for a free login and the insertion are two statements; the
  handlers fail with an exception after they changed the tables; an `INSERT` may be refused; the one connection to
  PostgreSQL may break, a Redis command may fail with or without effect, and the
  process may be restarted in the middle of its requests.
- **Correct if** there is no session without a right password, and a session names its own
  user.

### Image processor

- **State.** The arguments, the filters made of them, the headers and pixels of
  the image and a static buffer of the same shape; two files.
- **Operations.** Parsing, reading, seven filters, writing, and their exceptions.
- **Hard.** The shape of three things (header, pixels, buffer) under any
  sequence of crops, swaps and rotations; mirrored indices at the borders;
  numbers narrowed to `int16_t`; rows of the file that are padded and come from the bottom
  up; files that end too early, and writes that fail without a word.
- **Correct if** the parser accepts exactly the options that are right, no filter
  leaves the rows, and every pixel is read from and written to its place.

### Metro maps server (`metro-maps-cpp/src/main.cpp`)

- **State.** One `io_context`, run by half as many threads as there are cores; the
  acceptor and its next socket; a `Connection` per client with its buffer, request and
  response, kept alive by the handlers that refer to it.
- **Operations.** Accept and go on accepting, read one request, answer with one of three
  pages or an error, shut the socket down; stop on a signal and join the threads.
- **Hard.** Handlers of one connection and of the acceptor run on any thread, with no
  strand and no mutex; `async_write` refers to a member of the connection; accepts and reads fail.
- **Correct if** the handlers that share an object never run at once, each whole request is
  answered with its own page, and `main` returns when, and only when, it is asked to.

### Echo servers (`echo-server-cpp/server.cpp`, `echo-server-py/server.py`)

- **State.** One thread, one client at a time, one buffer.
- **Operations.** Accept, one `recv`, one `send` of the same bytes, close.
- **Hard.** A silent client holds everybody up; TCP cuts a message anywhere, also inside
  a character that Python wants to decode; the buffer keeps what earlier clients said.
- **Correct if** an echo is the beginning of what its client said, and every client that
  connects is served unless another one stays silent or the server ended for a reason.

## How the modules correspond to the code

Variables and operators have the names of the code where TLA+ allows it. `Init`
is the state after construction. Actions are not handlers as a whole but what a
thread does between two points at which another can interfere, in the order of
the code. Each specification has:

- `Bug` operators (`UnlockedPushBug`, `NoClearBug`, ...): a mistake the code could
  have made in the definition right after it. No specification uses one; with
  one in the place of its definition a property fails, which shows that the
  property depends on that line of code.
- history variables, marked as such, that no action reads to decide anything.

**ShardedCache.** A client is at `pc[t]`: before a `push`, between the unlock and
the `notify`, inside `get` (`find`, `copy`), or blocked on a future (`await`). A
worker is at `worker[s]`: `loop` (the test of `stop`), `lock`, `pred` (holds
`tasks_mutex`, tests the predicate), `block` (predicate false, mutex still
held), `sleep`, `run`, `done`. `block` and `sleep` are separate because `stop`
may be raised in between. A push is one step, since nothing else is seen while it
holds the mutex. `log[s]` and `applied[s]` are history: all tasks pushed and how
many have run. A spurious wake-up is possible at any time. While a shard is being
destroyed, tasks of later shards still use it through the `unique_ptr` of the
vector; the model assumes, as libstdc++ does, that the pointers of later
shards stay valid while an earlier one is destroyed.

**AsyncStore** is the promise without threads: per partition a log, the number of
requests applied, the promises and which partitions are closed. `ImplementsAsyncStore`
maps partitions to shards and closed partitions to those below `closing`.

**ThreadPool** has the same structure with one mutex and n workers; **TaskPool** is
its promise. **HttpServer** is composed with `TaskPool` (`INSTANCE`), so the order
in which workers take jobs is what `ThreadPool` is shown to ensure. In `HttpServer`
`pending` is what is left of `read_set` in the scan; `sock[fd]` is the connection
behind a number. What the parser finds in a text is abstracted to method, path and
JSON of pairs (`Texts`), a response to its status and what it says. A request is the sequence
of what is found in its first part, its first two parts, and so on, so that it may be cut
anywhere: inside the method (501), inside the path (an answer to another path), after it
(answered and cached as if it were whole), before the body (400). `Recv` takes any number of
the parts that were sent, as one `recv` returns what has arrived and 4096 bytes at most.
`entry[p]` is the cached response with its age; a worker keeps what it found or made in
`response[w]` and sends that. A response goes out in up to two parts
(`SendFirst`, `SendRest`), as `send` may take less than it is given. A socket that
is closed with a part of the request unread is reset, so that the client may lose the
answer (`Close`). `SetSize` is `FD_SETSIZE`, chosen among `SetSizes` at the start; a socket
accepted when `master` is full becomes `"lost"`, as Winsock's `FD_SET` does nothing and
the code keeps the number nowhere else.

**Messager.** One thread runs `io_context`, so a handler is one step. A line is two
segments, because that is enough for a write to be cut; a `Garbage` segment is what is
read from the string that is gone, a nondeterministic choice next to the right
bytes. asio tries a write at once unless another one waits for the same socket;
otherwise the write waits in the reactor (`waiting`) and what is left of a cut
one is posted to be tried again (`posted`). asio is external: its behaviour is modelled from
how `async_write` is documented and used here. `Stop` is `io.stop()` on a signal;
after it no handler runs and the clients are on their own.

**ChatRoom** is the promise without buffers and writes: a line is relayed in one step
to everybody else in the room, and clients that fall behind are in `behind`, of whom it promises
nothing. `ImplementsChatRoom` maps `heard` to what was written to a client (`Stream`), which it has received or will.

**AccountManager.** `pc[r]` is the statement a handler is at. `cursor` is the set
of rows left of the last statement, `NoResult` after an `INSERT`; a fetch takes
any row, as no query has an `ORDER BY`. A token is a function of the row and has
no time in it, so the user's id stands for it. `LogInfo` is the call
`logging.log.info`, which always raises `AttributeError`. Requests with a token may bring any
token, though the current code never delivers one to a client. `connected` is whether
the connection made by `connect()` works. A `register` whose values do not fit their columns (`fits`)
finds its `INSERT` refused, which is a 500 without a row; with `autocommit` the next statement works as before.
A user is known by the place of the row, which stands for the id: the ids that refused insertions use up
are left out. When the connection breaks, an `INSERT` in progress may have
taken effect, and every later statement fails until `Restart`, which ends the
handlers in progress and keeps the tables and sessions. `RedisFails` is a command that
raises, with or without effect.

**ImageProcessor.** The words of an option are model values with the numbers they
stand for (`IntOf`, `TenthsOf`), and `options` groups the words of `argv` by the flags they
follow (`OptionsAssumption`); the parser sees only the flat list. `pixels` and `buffer` are the lengths of their
rows. `Int16` narrows as `Crop` does. `Source` is the index arithmetic of
`Multiply`, line by line. `BmpFile` holds what `Reader` and `Writer` do with the bytes after the
headers: `ReadPixels` takes from a file that is too short what the code takes, i.e. the
line before, since an `ifstream` throws nothing. `output` is the file written: as an `ofstream`
throws nothing either, `WriteFile` leaves all of the bytes or any beginning of them, and ends in
`done` as `main` does. `input` also says that fewer than two paths were given, upon which the program
shows its help and exits, or throws.

**MetroMaps.** A chain of handlers is a sequence of links, each of which is in progress
(`pending`), complete and waiting for a thread (`ready`), or run by a thread
(`thread[i]`). The handler of an accept is two steps, `OnAccept` (the new `Connection`
begins to read) and `accept_conn` (the next accept), since other threads may
run the new connection's handlers in between. `WriteDone` takes the
response as it is when the system sends it, since `async_write` refers to the member. The number of
threads is half of any number in `CoreCounts`, none included.

**EchoServer.** `program` says which of the two programs runs; they have the same
steps and differ in `Raises`, what ends the program instead of the client. Bytes are model values, of which
`Lead` and `Cont` make one character together, so that `Decodable` is what `str(txt,
'utf-8')` accepts. The buffer keeps what is behind the bytes received.

## Runs

All runs check deadlock off, because clients stop and programs end: the end is a
legal state. That nothing gets stuck half-way is the liveness properties' subject.

| run | instance | checks |
|---|---|---|
| `cache_contention` | 1 shard, 1 key, 2 values, 2 clients with 2 calls each, destruction at any time; symmetric clients | `TypeOK`, `NoTaskLost`, `NoLostWakeup`, `StorageIsReplay`, `AsyncReadsExact`, `IteratorStaysValid`, `NoPromiseForgotten` |
| `cache_shards` | 2 shards, a key in each, 2 clients with 1 call, fairness | `ImplementsAsyncStore`, `FuturesSettle`, `TasksRun` |
| `cache_shutdown` | 1 client, 1 call, fairness | **violates** `ShutdownCompletes` |
| `pool` | 2 producers with 2 jobs each, 3 workers, destruction, fairness | `TypeOK`, `WorkConserving`, `ImplementsTaskPool`, `EveryJobStarts`, `ShutdownCompletes` |
| `http` | 2 connections, a whole GET, one cut inside and after its path, a POST cut inside its method and before its body, another method, 2 workers, 3 paths, 2 socket numbers on both sides of the listening one, an `fd_set` of 2 (one client) or 3, fairness | `TypeOK`, `OneOwner`, `AnswerIsOwn`, `EveryConnectionEnds` |
| `messager` | 3 clients, of which one says two lines, one says one, one only reads; room for a line and a half per connection; a signal at any time; fairness | `TypeOK`, `LinesArriveWhole`, `NoSegmentLost`, `ImplementsChatRoom`, `EveryLineArrives` |
| `messager_slow_reader` | 2 clients with 3 lines and 1 line | **violates** `LinesArriveWholeAtAll` |
| `account` | 3 requests of any kind, registers that the table refuses among them, 2 logins, 2 passwords, one user registered; a lost connection, failing Redis commands and restarts at any time; symmetric requests | `TypeOK`, `PasswordWasGiven`, `AloneIsRight` |
| `account_owner` | 2 requests, two users registered | **violates** `SessionNamesOwner` |
| `image` | any sequence of at most 3 of 18 options, right and wrong; no path, one or both; images of 1, 3 or 4 rows and columns, whole or cut short; output files that may end anywhere | `TypeOK`, `ParseIsExact`, `AccessesInBounds`, `SequentialFilters`, `PixelsInPlace` |
| `metro` | 2 clients with sound and broken requests, no thread, 1 or 2, one accept that fails, a signal, fairness | `TypeOK`, `OneLinkPerChain`, `AnswerIsOwn`, `EveryRequestAnswered`, `ReturnsWhenAsked` |
| `echo` | both programs, 2 clients with up to 3 bytes, a buffer of 2, fairness | `TypeOK`, `EchoIsOwn`, `EveryClientServed` |

### What they show

- **Cache.** Whatever the interleaving, a shard is an asynchronous store: nothing
  is lost, run twice or overtaken, reads are exact, promises are kept or broken.
  The notify after the unlock is harmless, since the sleeper then has a notify
  to come. The destructor is not safe: `stop` is raised without the mutex, so
  the wake-up can fall between the predicate and the sleep, and `join` waits for
  ever.
- **Pool.** The same design with `stop` under the mutex does not have that flaw, for
  three workers at once; every job is started also during destruction, and the pool is a
  `TaskPool`.
- **HTTP.** A socket is watched, queued or handled, one of the three, although its
  number is used again while an older scan goes on; an answer is the response to what was received on the
  connection it is sent on, whether it was made or found in the cache, and a client that sent its request at once and stays has all of it
  when the socket is closed. `EveryConnectionEnds` excepts the connections that were
  accepted while the `fd_set` was full, which are neither served nor closed, and
  shows that there are none where the set has room for all of them. As the code takes one `recv` for the
  whole request, a cut one is answered as what arrived of it: a POST without its body gets a 400, a GET
  cut in its path the page of another path. `AnswerIsOwn` allows that and no other answer.
- **Messager.** While there is room a client gets every line whole and in order,
  from the first one after it was accepted; no segment is lost or repeated however slow it is.
  For those who keep up the server is a `ChatRoom`: the writes that make a broadcast are one relay.
  A slow client may get freed memory or a line inside another.
- **Accounts.** Whatever rows the threads take from each other, a session exists
  only if somebody gave the right password, and a request that ran alone did what it
  should: a register alone adds its row exactly if the login is new and the table takes the row. Lost
  connections, failing Redis commands and restarts change nothing of that: a session that cannot be read is none. But a token may be built of another user's row.
- **Images.** The parser is exact although it reads one flat list; no filter
  leaves the rows that really exist, narrowed and negative crops included; padding and the
  order of the rows are right for every width modulo four that the sizes and crops give, as far as the
  writes went. That a file is whole is not claimed, as the code does not see a failed write.
- **Metro maps.** The chains of handlers do the work of a lock: each has one link at a
  time, also while accepts fail and connections go. A whole request is answered on one
  thread as on two; with no thread at all `main` returns at once, which the properties except.
- **Echo.** No byte of one client reaches another, though all share a buffer. Both servers serve
  everybody if nobody stays silent; the one in Python ends on a reset and on bytes
  that do not decode, also on a character that the network has cut, and on nothing else.

### Bounds and why they are enough

Every bound is a constant: `MaxOps`, `MaxJobs`, `MaxLines`, `Room`, `MaxOptions`,
`MaxErrors`, `BufferSize`, `Asks`, `Messages`, `CoreCounts`, `SetSizes`
and the sets of clients, workers, requests and sizes.

- Cache: an anomaly of a shard needs two clients (or one and the owner) and the worker;
  two calls each give a task in hand, one in the queue and a push with its notify
  still to come, and the owner at any point of these. Two shards are needed for
  the order of destruction only, and shards share nothing else. That run has one call per client, so that no
  client reads behind its own queued set in it; what `get_sync` then returns is left to `CacheIsAsyncStore` below.
- Pool: three workers and up to four jobs, so that two notifies can be pending with
  workers asleep, running and between lock and predicate.
- HTTP: two connections that use the same number one after the other, and two
  numbers around the listening one, for the scan goes through numbers in order. What a
  client may ask is fixed per connection (`Asks`), so that each method and each way
  to be cut occurs on one of the two; one of the paths is the beginning of the other, and both are asked for,
  so that the cache holds two responses and a wrong one would be seen. An `fd_set` of two is full with one client, one of
  three never is; the sizes of the real ones change no more than the number of clients it takes.
- Messager: a line is two segments and a buffer holds three, so the second line
  is cut and the third has to wait; the only other case is a write that finds
  no room at all, which occurs too.
- Accounts: the interference is pairwise (one request selects, another
  fetches); the third request is there to have a login race with two others. Ids are
  bounded by the requests.
- Images: three filters are two that change the shape and one that uses it; sizes 1, 3 and 4 are
  below, at and above the reach of the matrices (1 and 2), so that both borders are crossed, and
  their rows have one, three and no bytes of padding, to which crops to 2 add two.
- Metro maps: a failure of one chain can only disturb another one, so two clients, one accept that
  fails and two threads are enough; a `Connection` takes one request.
- Echo: one client whose message is longer than the buffer, may be cut in a character and leaves
  a second byte in the buffer for the other client, who says one.

The theorems below need none of these bounds; they hold for every value of the constants
that the named assumptions allow.

### Fairness

Fair steps are those of threads that the system schedules: a worker in its loop, a client
within a call, the destructor once begun, the event loop, the handlers that
`io.run()` finds ready, the threads of `MetroMaps` and the completion of an
operation whose cause has happened, the one thread of an echo server. Weak fairness is enough where the step stays enabled;
strong fairness is assumed only for taking a mutex that others keep taking
(`PushTask`, `PushJob`, `Lock`, `RaiseStop`), i.e. a mutex does not starve one thread for ever.
Never fair: that a client calls, connects, sends, leaves, that the cache is destroyed, that a
wake-up is spurious, that an entry expires, that a signal comes, that anything
fails. `EveryClientServed` of the echo servers is conditional on `Talkative`, that every client that
is connected says something or goes, because the code has no timeout. In `Messager` the client's reader
thread is fair, since `client.cpp` reads in a loop as long as it is connected.
Since clients make finitely many calls, a reader-preferring `shared_mutex` that
keeps a worker out for ever does not appear.

## Proofs

Proved for every number of clients, workers, keys, shards, calls, lines, options and every
size, from the named assumptions on the constants only:

| module | theorem | says |
|---|---|---|
| `ShardedCacheProof` | `TypeCorrect` | `Spec => []TypeOK` |
| | `WorkersAreWoken` | `NoLostWakeup`: no worker sleeps on a non-empty queue unless a notify is to come |
| | `TasksAreKept` | `NoTaskLost`: a task pushed is applied, in hand or queued, in the order of the pushes |
| | `StorageFollowsLog` | `StorageIsReplay`: a map is what the tasks run so far made of the empty one |
| | `IteratorsStayValid` | `IteratorStaysValid`: nobody erases the node of an iterator in use |
| | `AsyncGetsAreExact` | `AsyncReadsExact`: a future has the value of its place in the log |
| | `PromisesAreKept` | `NoPromiseForgotten`: a promise is kept, or its task is to come or dropped |
| | `CallsKeepTheirOrder` | `ProgramOrder`: requests of one client to one shard take effect in the order of its calls |
| | `OwnWritesAreSeen` | `OwnWritesSeen`: a `get_async` after an own write to the key sees it, or a later one |
| | `CacheIsAsyncStore` | `Spec => ImplementsAsyncStore`: every step is one of `AsyncStore` or a stutter |
| `ThreadPoolProof` | `TypeCorrect` | `Spec => []TypeOK` |
| | `PoolConservesWork` | `WorkConserving`: no worker sleeps while a job could use it |
| | `PoolIsATaskPool` | `Spec => ImplementsTaskPool`: every step is one of `TaskPool` or a stutter |
| `HttpServerProof` | `TypeCorrect` | `Spec => []TypeOK` |
| | `SocketsHaveOneOwner` | `OneOwner`: a socket is with the loop or with one worker |
| | `AnswersAreOwn` | `AnswerIsOwn`: an answer, made or from the shared cache, is the response to what was received on its connection |
| `MessagerProof` | `TypeCorrect` | `Spec => []TypeOK` |
| | `LinesAreWhole` | `LinesArriveWhole`: while there is room, lines arrive whole and in order |
| | `SegmentsAreKept` | `NoSegmentLost`: however slow the client, no segment is lost or repeated |
| | `ConversationIsOne` | `OneConversation`: clients that keep up agree on the order of what both hear |
| | `MessagerIsChatRoom` | `Spec => ImplementsChatRoom`: every step is one of `ChatRoom` or a stutter |
| `AccountManagerProof` | `TypeCorrect` | `Spec => []TypeOK` |
| | `PasswordsWereGiven` | `PasswordWasGiven`: no session without a right password |
| | `AloneRequestsAreRight` | `AloneIsRight`: a request that nobody disturbs does what it should |
| `ImageProcessorProof` | `TypeCorrect` | `Spec => []TypeOK`, with the range of `int16_t` |
| | `ParserIsExact` | `ParseIsExact`: the flat list is accepted exactly if the paths and each option are right, and gives their filters |
| | `AccessesAreInBounds` | `AccessesInBounds`: no filter and no writer leaves the rows |
| | `FiltersAreSequential` | `SequentialFilters`: each filter works on the image that those before it left |
| | `PixelsAreInPlace` | `PixelsInPlace`: every byte of a pixel that is read or written is at its place |
| `MetroMapsProof` | `TypeCorrect` | `Spec => []TypeOK` |
| | `ChainsHaveOneLink` | `OneLinkPerChain`: handlers that share an object never run at once |
| | `AnswersAreToOwnRequests` | `AnswerIsOwn`: a whole request gets its own page |
| | `ReturnsOnlyWhenAsked` | `[]NotBefore`, the first half of `ReturnsWhenAsked`: `main` returns only after a signal, or without threads |
| `EchoServerProof` | `TypeCorrect` | `Spec => []TypeOK` |
| | `EchoesAreOwn` | `EchoIsOwn`: an echo is the beginning of what its client said |

In each module the theorems follow from one inductive invariant or a few, proved with one step
per action.

**Cache.** `TypeOK` is not inductive: one has to know that a client inside a call
has a request (`RequestsMade`), that a running worker has a task (`TaskInHand`)
and where the destruction is (`DestroyedInOrder`). Together they are `TypeInv`.
`OrderInv`, proved relative to it, adds to `NoTaskLost` and `NoLostWakeup` that
a worker about to block has seen an empty queue and holds the mutex, so nobody pushed
since (`BlockEmpty`; without it the step from `block` to `sleep` breaks
`NoLostWakeup`), that tasks are in the log of their own shard (`LogOnShard`), and
that the map is the replay of the log (`Replay`). The replay is stated
without `CHOOSE` in the induction: `HoldsValue` connects it with `ValueAt`,
`HoldsAppend` says that pushing does not change the past, `HoldsStep` what one
more task does. `AnswerInv` is about the promises: no request is logged twice
(`LogFresh`, `LogUnique`), one neither kept nor broken has a task to come (`PendingLogged`), and what
a future got is what `Replay` has at its place. From these three the step simulation follows:
`PushTask` is `Accept`, the run of a task `Apply`, the end of a shard `Close`, and waiting,
locking and notifying are stutters. `ProgramOrder` follows from `LogFresh`, as a push logs the
highest number of its client so far; `OwnWritesSeen` from it and `AnswersExact`, as an earlier write to the same
key is in the same log and before the get. Nothing of that holds for `get_sync`. The assumptions are that `NoValue` is no value, that there is at
least one shard (`hash % 0` otherwise) and that hashes are natural numbers.

**Pool.** `PoolInv` says who has a job in hand, that a worker about to sleep has seen the
queue empty, and in which order the destruction drains it. `WorkConserving` compares numbers: the
jobs queued with the workers about to look (`Awake`) and the notifies to come (`Notifiers`).
That there is a worker is assumed, as `Server` makes four.

**HTTP.** `OneOwner` counts owners, which no induction can use; `OnePlace` says where each
descriptor is and `OneSocket` that a connection has one descriptor at a time, and the count follows. `WorkerKnows`
is what a worker has received and sent of the connection behind its descriptor; `EntriesAreTrue`, that what is
cached for a path is the response to it whoever left it there, and `ResponseIsTrue`, that what a worker made or found is
the response to its text, go through the two critical sections together; since `OnePlace`
gives it that descriptor alone, nobody closes it and opens another under the same number
meanwhile. The scan over an older `read_set` is harmless as a descriptor still to be scanned is
still watched: a dispatch takes it out of `master` and `pending` in one step.

**Messager.** Each step either begins the stream of a client, keeps it, or makes
one more line due and writes it (`Begun`, `Kept`, `Grown`); `NoSegmentLost` counts the segments written, waiting
and posted together, and `LinesArriveWhole` places the lines of each sender in the stream. `PlaceInv` is
who is open, that only a delayed client has writes left (`WrittenAtOnce`), and that the
lines read when a client joined stay read (`JoinedBefore`). Lines are counted by the cardinality of
the set of lines due, which is finite at any time (`DueFinite`).
That clients agree on an order (`ConversationStep`) rests on two facts: all streams that grow in a step grow by the
same two segments (`StreamMayGrow`), and a line just read is in no stream yet (`NewInStream`, from `LinesArriveWhole`).
The simulation of `ChatRoom` uses the same facts: `ReadLine` is `Relay` (`ReadIsRelay`), `Leave` and `ReadEnds` are `Leave` and
`Forget`, and what a client receives only moves from `wire` to `got` (`StreamsKept`).

**Accounts.** `Stage` has for each statement of each handler what its local variables mean, the main part
being that a `user_id` is only set by a login to a row whose password was given. `RowsOnce`
says that a request inserts one row at most, also when the answer of an `INSERT` is lost, which bounds the ids.
`AloneStage` is the same for a request that ran alone so far: the cursor and the table are as it left
them. Whatever another request leaves in the cursor is only assumed to be a row of the
table.

**Images.** `ShapeInv` says that from `ReadFile` on both `pixels` and
`buffer` have `height` rows of `width` pixels. `CutUniform` is why a crop keeps it,
for any integers, negative ones too, compared as the code compares them; a matrix only swaps the two; a
rotation makes a new image of the header's size. `SourceInImage` shows that the index arithmetic of
`Multiply` cannot leave the image at any distance, as what it leaves is replaced by the pixel itself.
`FilterInv` has that `height` and `width` are the least of the sizes met so far (`Least`, which `MinIsLeast` connects with
`Min`). For the bytes of the files, `LineIs` is that padding makes a line a multiple of four bytes, `DivMod` that a
line and an offset can be found again in the place, `LastRow` which row a file of N bytes reaches last.
`ParserInv` says that the parser is between two options or inside one with words too many; `AtAnOption`, that
an option too short would need the next flag for a number. Both rest on `UptoWords`: where the words of an
option are in the flat list. `FlattenSeq` is a recursive function, so its lemmas go by induction; `SetInduction` is
that principle for a set of numbers, from the library's theorem that `<` is well-founded on the natural numbers.
Words stand for natural numbers (`WordsAssumption`) and no flag is one, since the parser accepts digits only
and flags begin with `-`; an option begins with a flag and has no other behind its arguments
(`OptionsAssumption`), since a flag there is what begins the next option.

**Metro maps.** `AcceptChain` and `ClientChains` say that of each chain there is one link at
most in `pending`, `ready` and the threads together, and where it comes from; everything a
handler shares with others of its chain is then its own. `ReadsAreSound` and `AnswersAreOwn` follow the request through
the links to the response. `AskedInv` goes from the end back to the signal: a thread has ended only if the context was
stopped, which only the handler of the signal does.

**Echo.** `EchoInv` has that while the thread is at a client, the beginning of the buffer is what `recv` took from
this client, though what is behind it may be of others (`BufferIsCurrent`). Messages are assumed
to be finite.

**Only model-checked:** the properties that need fairness (`FuturesSettle`, `TasksRun`, `EveryJobStarts`,
`ShutdownCompletes` of the pool, `EveryConnectionEnds`, `EveryLineArrives`, `EveryRequestAnswered`, the
second half of `ReturnsWhenAsked`, `EveryClientServed`), as TLAPS proves neither liveness under fairness nor `ENABLED`; and the three properties that a run
violates. `ImplementsAsyncStore`, `ImplementsTaskPool` and `ImplementsChatRoom` are about steps, so the simulations prove all of
them. `ProgramOrder`, `OwnWritesSeen` and `OneConversation` are proved and checked by no run.

## Divergences seen that have no run

- `HTTP-server-cpp/src/http_parser.cpp:65`: the 501 response has no line end
  after its `Content-Length`.
- `image_processor/include/parser.h:13` says that `-crop` takes the height first; the
  parser takes the width first (`parser.cpp:46`, `fabrics.cpp:45`); the same for
  the centre of `-tunnel`, the other way round.
- `image_processor/include/filter.h:30`: a crop by more than 32767 is narrowed; one
  by 65536 makes an image without rows. `Crop::Apply` writes `image_size` from the
  crop even when the image is smaller; the model leaves that field out.
- `account-manager-py`: login never sets its cookie, because the log call before
  it fails (README.md:115), and logout deletes the cookie on a response that is
  not the one returned (README.md:128).
- `image_processor/test.cpp` passes `test1` to `REQUIRE_NOTHROW` without calling it, so that the test never runs.
- `cache/tests/test.cpp:12` expects `get_sync` right after `set_async` to see the value, while the
  worker may not have run the task; `cache/README.md:12` promises no strong consistency.
- `HTTP-server-cpp/README.md:62` proposes a hundred connections at once; Winsock's `FD_SETSIZE` is 64,
  and a connection accepted when the set is full is neither served nor closed.
- `image_processor/src/io.cpp:70`: the `catch` around the reads is never reached, as
  nothing enables exceptions on the stream; a truncated file is accepted without a word. The same goes for
  the writes (`io.cpp:136`, `147`, `164`): a full disk leaves a file that ends anywhere, and the program returns as if it were whole.
  The offset of the pixels in the header is not used when reading, and it and the size of the file are written
  as they were read also after a crop.
- `metro-maps-cpp/src/main.cpp:345`: on a machine with one core, or when the number is
  unknown, no thread runs the `io_context` and `main` returns at once.
- `echo-server-py/server.py:18`: a chunk that is not UTF-8, or a client's reset, raises what
  nothing catches, and the server ends.
- `messager-cpp/test/test.py`: a client waits for a line of somebody else, and the
  last ones wait for ever.

## Not modelled, and why

- **Data:** the arithmetic of the filters on colours, the headers of BMP files beyond width and
  height, the text of HTTP and JSON, hashes of passwords. The `image_size` that `Crop`
  writes is left out, as no code reads it.
- **Metro maps:** the class `PostgreSQL`, which nothing constructs and whose `connect()` is
  empty, and the empty `DataHandler`.
- **Messager's console client:** its reader and its input are modelled, with lines that reach
  the server whole. Its `send_message` has the flaw of `broadcast` (a temporary
  string under `async_write`, `client.cpp:64`), which bites when the server reads more slowly than it
  writes, and its destructor drops the writes still in progress; neither is modelled, since `Messager`
  shows the same mechanism on the side of the server.
- **Loggers:** no state that others read. What their calls raise is modelled (`LogInfo`).
- **Load tests and unit tests:** their clients are among those of the models.
- **Static buffer across images:** `main` reads one image. In a process that reads several
  after a crop the buffer keeps short rows.
- **More sockets than the system has:** there are always enough numbers to accept.
- **Starvation by readers:** calls are finite, so a `shared_mutex` that lets readers pass a
  waiting worker for ever does not appear; and the queue of a shard, which the code does not
  bound, is bounded by the calls. A cache of no shards (`hash % 0`) is excluded by assumption.

## Plan

Done, in this order, the most concurrent and most reused part first:

1. `AsyncStore`, `ShardedCache` and its proofs.
2. `TaskPool`, `ThreadPool`; `HttpServer` on top of `TaskPool`.
3. `Messager`, `AccountManager`, `ImageProcessor` and its proof.
4. `MetroMaps`, `EchoServer`, `BmpFile`; `init_socket`, sends in parts and full sets in
   `HttpServer`; failures and restarts in `AccountManager`; the signal in `Messager`.
5. The proofs of every invariant and of both refinements, and of what needs no fairness in
   `ReturnsWhenAsked`.
6. `ChatRoom`, its simulation by `Messager`, and what clients may rely on: one conversation, and
   their own writes in the cache.

Next:

1. Action properties worth a run and a theorem: that no task of a shard runs twice or out of
   order, as a step; that a session is only ever removed by its own token or by time.
