# QuarkCache in TLA+

TLA+ models of QuarkCache, checked with TLC and, where that is possible, proved
with TLAPS. The code is the reference: each definition is translated from the
source lines that `PROJECT.json` ("map") gives for it.

## The system

QuarkCache has three layers. A C++ server keeps the data and speaks a line
protocol over TCP; a Python (FastAPI) backend turns HTTP requests into commands,
one TCP connection per command; a Next.js frontend polls the backend.

| Component | State | Operations | Talks to |
|---|---|---|---|
| `LruCache` | recency list, hash map of entries (value, deadline, list iterator), byte count | set, get, del, evict_expired, all_entries | the clock |
| `KVStore` | the cache, a mutex, four atomic counters | set, get, del, evict_expired, get_stats, access to the mutex and the cache for KEYS | `LruCache` |
| expiry thread (`main`) | asleep, waiting for the mutex, sweeping | every 5 s `evict_expired` | `KVStore` |
| `TcpServer` | listening and client sockets, epoll set, one read buffer per descriptor, `running_` | accept, read, cut into lines, run, answer, stop | `KVStore`, kernel |
| `main` | store, threads, signal handler | start, stop on SIGINT or SIGTERM | all of the above |
| cache client (backend) | a connection per command | SET, GET, DEL, STATS, KEYS, with 5 s timeouts | `TcpServer` |
| metrics service | `_last_total`, 60 deltas | get_metrics | cache client |
| benchmark service | latencies, errors | run, in batches of 64 | cache client |
| AI service | none | analyse, chat | metrics, cache client, OpenAI |
| shell (frontend) | the path | navigate: unmount one page, mount another | all pages |
| key explorer | the table, two forms, three loading flags | fetch, delete, SET, GET, leave | key routes |
| dashboard, metrics, clients | last figures, histories of bounded length, an interval | poll every 1.5 or 2 s, leave | metrics service |
| console | log of 200 entries, loading flag | SET, GET, DEL, STATS, KEYS, and lines answered locally | key and metrics routes |
| AI page | messages, insights, loading flags | send, with the messages so far | AI service |
| benchmarks page | form, loading flag, result | run | benchmark service |
| settings page | a message and its timers | save (nothing is stored) | none |

What is hard in it:

* the recency list, the map and the byte count change together in seven places;
* two threads share the store, and KEYS takes the store's mutex by hand;
* the clock advances inside a command and inside the expiry sweep;
* client sockets are edge-triggered: an edge consumed without reading until
  `EAGAIN` is input lost for ever; descriptors are numbers that are reused;
* TCP cuts commands anywhere; clients hang up at any point; answers may not fit;
* between the layers: timeouts, commands that outlive their calls, restarts,
  overlapping polls;
* signals during startup and during exit, with a detached thread still running;
* pages: polls and fetches overlap and are answered in any order; a page is left
  with requests under way; axios gives a request up after 30 s and the backend
  goes on with it.

What must hold of each component:

* `LruCache`: list and map hold the same keys; the size respects the capacity;
  the byte count is the sum of the sizes; it answers as a TTL map with
  least-recently-used eviction.
* `KVStore`: the threads' calls are serialized; KEYS is a snapshot; expired
  entries go away without being asked for; every command is answered.
* `TcpServer`: no stale event, no lost edge, no byte lost or given to another
  connection; lines run once and in order; answers in order; the gauge of
  connections is exact; every client that stays is served, whatever the others do.
* `main`: the loop ends when it was asked to and not otherwise; nothing is used
  after it has been destroyed.
* cache client: an answer is the result of the command at one moment of the call,
  and whole; a failed call may have taken effect, but at most once; each call ends.
* metrics service: a rate counts each request between two answers once, whatever
  answers overlap or come from an earlier run of the server in between.
* benchmark service: a response accounts for each operation once; percentiles
  are percentiles.
* key explorer: once nothing is being fetched, the table shows every change that
  was reported as done; a form's message is about the request sent last.
* polling pages: the page on the screen polls and no other does; spinner and alert
  go; cards and charts are of the same poll.
* console: what the log says of a key, the answers below it do not contradict.
* AI page: questions and answers alternate; the prompt starts with a question and
  ends with the new one.
* benchmarks page: it runs one benchmark at a time, but for those it has given up.

`PROJECT.json` lists the hazards of the code line by line with the properties
that cover them.

## Modules

| Module | What it is |
|---|---|
| `CacheSpec` | The abstract cache: a bounded map from keys to entries and a recency relation. |
| `LruCache` | `lru_cache.cpp`: list, map, byte count; implements `CacheSpec`. |
| `LruHistory` | `LruCache` with a history variable: the keys used since each stored key's last use. |
| `KVStore` | `kv_store.cpp`, KEYS and STATS of `process_command`, the expiry thread of `main.cpp`. Extends `LruCache`. |
| `LineStream` | What a client may rely on: its bytes are cut into lines, which are run whole, once and in order until the connection closes. |
| `TcpServer` | `server.cpp`: event loop, `accept_client`, `handle_read`, with kernel, clients and restart as environment; implements `LineStream`. |
| `ServerLifecycle` | `main.cpp`, `run` and `stop`: startup, signals, exit. |
| `CacheService` | What a caller of the cache client may rely on: the abstract specification. |
| `CacheClient` | `cache_client.py` with a server that may be slow, cut answers, die and restart; implements `CacheService`. |
| `MetricsService` | `metrics_service.py`: overlapping polls and the module state they share. |
| `BenchmarkService` | `benchmark_service.py`: batches, errors, percentiles. |
| `KeysPage` | The key explorer, its two forms, its table, and the key routes behind them. |
| `PollingPage` | The dashboard, metrics and clients pages: polls, intervals, histories. |
| `CommandsPage` | The console and the store behind it. |
| `ChatPage` | The AI page and `ai_service.chat` with its three awaits. |
| `BenchmarksPage` | The benchmark form and what the backend runs for it. |
| `SettingsPage` | The "saved" message and its timers. |
| `AppShell` | The shell: which page is mounted; composes the five modules above it. |
| `MCLruCache`, `MCKVStore`, `MCTcpServer`, `MCCacheClient`, `MCMetricsService` | Instances for TLC: constants, symmetry, reference definitions. |
| `KVStoreProofs` (with `LruCache` and `LruHistory`), `TcpServerProofs`, `CacheClientProofs`, `ServerLifecycleProofs`, `BackendProofs` (`BenchmarkService`, `MetricsService`), `KeysPageProofs`, `AppShellProofs` (all pages but the key explorer) | The theorems. |
| `SetSums` | Lemmas on sums over finite sets. |

Operators marked "Fault" are deliberate errors (a dropped guard, a missing
erase). They are used by no specification; each is substituted for the operation
it distorts to show that a property can fail.

### LruCache

`order` is `order_`, most recent first; `map` is `map_` as a total function with
`Absent` for missing keys; `bytes_used` is `bytes_used_`. An entry's list iterator
is represented by the key itself: a dangling iterator is a stored key that is
missing from `order`. Each member function is one action that splits into the
branches of the code (`SetUpdate`/`SetInsert`, `GetMiss`/`GetExpired`/`GetHit`,
`DelMiss`/`DelHit`). `evict_expired` reads the clock for each entry, so its loop is
`SweepBegin` and one `SweepVisit` per entry, and `Tick` may come in between. The
`while` of `set` is one conditional eviction: `CapacityBound` and `OrderMatchesMap`,
both proved, are why it cannot run twice. A value is a model value with a size.

`CacheSpec` states the promise without a list: `newer` holds the pairs of keys of
which the first was used after the second; a put of a new key into a full map
removes the key that all others are newer than; an expired key is never answered
and may be purged at any time. The refinement mapping reads `newer` off the list.

`LruHistory` adds `usedSince`, a variable that only looks on: for each stored key, the
keys used since its own last use. `WorkingSetKept` compares an eviction with it, and
so says of the calls, without list or recency relation, what LRU is for.

The header says that callers must hold a lock. `Next` states this as
`unvisited = {} /\ Call`; `KVStore` uses the same actions without that guard and
has to establish it.

### KVStore

`mu` is the mutex; `server` and `expiry` are the places of the two threads. Taking
the lock is a step, the locked body and the release the next one, except for the
loops that read the clock: the sweep, and KEYS, which copies the live entries
(`KeysScan`), then prints each copy with the time left at a later clock
(`KeysPrint`). `ttl_remaining` truncates to whole seconds, so the instance has two
ticks to a second. The 5 s sleep is a step (`Wake`) that may take any time.
`active_connections_` is modelled in `TcpServer`.

### TcpServer

One event loop (`pc`) and, as environment, the clients and the kernel. Client `c`
sends the bytes of `Script[c]` one by one, `sent[c]` and `got[c]` count them, and a
byte in a buffer is `<<c, n>>`, so that a byte of the wrong connection or position
is visible. `ready` is the set of descriptors with an unreported edge; `epoll_wait`
takes it into `batch`, with the connection behind each descriptor at that time, and
adds the level-triggered listener while the backlog is not empty. Accepting gives
the lowest free descriptor and raises an edge if there is input already.
`handle_read` is `ReadData` (at most `ReadSize` bytes), then `ReadAgain` (EAGAIN) or
`ReadClose` (end of file and error do the same), then `ProcessLine` for each
newline in the buffer, with the trailing CR removed and empty lines skipped.

A client may end its input and stay (`half`), close, or reset. A `write` sends what
fits into the socket and loses the rest, as the code's comment accepts. A client
that has closed may answer it with a reset; a write after that raises SIGPIPE,
which kills a process that does not handle it, and `main` handles only SIGINT and
SIGTERM; only process 1 of a container is spared, since the kernel ignores its
default signal actions. A supervisor then starts the server again (`Restart`).

`LineStream` states the promise without descriptors, buffers and reads: a connection has
bytes sent, bytes done with, and lines run; the next line is the text up to the next
newline; a connection that closes takes along what was not run. The refinement mapping
computes `done` (the bytes read and no longer held in a buffer) and `closed`.

`Lines` is a second reference, taken from the whole script at once: each newline ends a
line that starts after the newline before it, and the lines with a text are
numbered from the front. `LinesRunInOrder` compares what was run with that list.

`buffers_mu_` is taken by the event loop's thread only and is left out. The kqueue
branch is the same loop. An `epoll_wait` that times out does nothing.

### ServerLifecycle

`main` is the place of the main thread in `main()`, `run()` and `event_loop()`;
`expiry` is the detached thread. `store` and `server` say whether the locals exist,
`g_server` whether the global pointer is set. `Signal` may come between any two
steps: before the handlers are installed it kills the process, otherwise it calls
`stop()` if the pointer is set. `asked` and `failed` are history: the reasons for
which `run` may return. On return, the locals are destroyed in the reverse of their
order, then the process exits; the expiry thread may be at work all the while.
Setting up the socket is one step, or an exception, since no signal acts on what
it does. What the loop does with events is in `TcpServer`.

### CacheClient and CacheService

All calls share one asyncio event loop, so a step is what a call does between two
awaits. Connecting and reading have a timeout; `drain()` and `wait_closed()`, which wait
for the command to leave the transport's buffer, have none. `wire` follows a command:
a SET of a long value (`Large`) may at first fit neither the socket nor the buffer that
`drain()` tolerates (`full`: the call is `draining`), then only not the socket (`buffered`:
`wait_closed()` would still wait), until the server or its kernel takes the rest (`Flow`).
`Connect` goes up to the `drain()`, `Drained` is its return, `Finish` is what the call
will tell and the `writer.close()` of its `finally`, and `Close` the return of `wait_closed()`.

The server is reduced to what `TcpServer` and `KVStore` establish about it: a command
whose connection is open is run at once (`Execute`); if the client has gone it is run, or
discarded with the end of file (`Discard`); an answer is sent whole or without its end, as
`AnswersInOrder` allows (`Send`). The end may be missing from inside a line. `inbox` holds
the whole lines the client has not read, `tail` what it makes of a line that was cut.
asyncio's `readline()` returns such a line at the end of the file, so `ReadEof` tells the
caller of GET the beginning of the value (`Cut`), the whole answer if only the line end is
missing, or an error; `ReadGarbled` is a cut inside a character, at which `decode()` raises.
KEYS goes on reading for END whatever it is given, for ever at the end of the file
(`spinning`). `Crash` loses all entries and resets the connections with commands that were
not read, or ends them, if the command had not even been delivered; the others it ends.
`Restart` brings an empty server. Entries may go at any time (`Lose`, one key; a TTL appears
only as that), and the server may hold any at the start. The lines of KEYS arrive in the
map's order, which is any order.

`CacheService` is the promise: a command takes effect at most once, after its call, and an
answer is the result at that moment; a failed call says nothing about its command,
which may take effect even later. A value is whole, unless the server died while the
call was under way (`AnswerCut`, only for a call in `broken`). The refinement mapping is
`effect <- response`, and `broken` is the calls without an answer whose connection was
ended by the server's death. A listing is whole without exception. `KeysPage` and
`CommandsPage`, which use the operators of `CacheService`, take its answers whole: that a
page may show the beginning of a value is said here and not again there.

### MetricsService

`Poll` is `get_metrics` up to its await, `Stats` the moment the server reads its
counters, `Resume` the rest, which has no await and hence is one step. Only
`total_requests` is modelled; the other figures are passed on as they are.
`arrivals`, `known` and `applied` are history: when each request was counted, which
requests the server's answer to a poll counts (those of its present run), and which
answers were applied when.

The deltas do not add up to the requests there were: what a run of the server counted
after the last answer from it is left out, and a delta is negative when an answer from
before, or from a server that has just started, is applied. What holds is
`OpsCountEachOnce`: such errors cancel out within a rate. If the poll's own answer and the
last one that is older than a second are of the same run and in order, `ops_per_sec` is
exactly the number of requests between the two, those of the last second among them.
That needs every delta in between, so the window must hold them.

### BenchmarkService

A batch is gathered as a whole; `OpEnds` is `_timed_op`'s return, with any latency
and outcome, `OpRaises` an exception other than `CacheClientError`, which ends the
benchmark while the rest of the batch runs on. Keys and values do not matter.
Latencies are whole nanoseconds. `pct` computes `int(p / 100.0 * n)`, here exactly, and
rounds the latency found there to whole microseconds, halves to the even one (`Rounded`);
`PercentilesRight` compares it with the latencies rounded in the same way. `sorted` is
defined by the place of each element (the number of those that come before it, equal
ones in their order).

### KeysPage

A request is a slot of `request`, with what was asked and, once the backend has run
it, what it answers; `Execute` takes effect on the store with the operators of
`CacheService`, and `Other` is anybody else's change to it. The promise of axios then
resolves (`...Answered`) or rejects (`...Failed`); a rejected request may take effect
later all the same. A handler up to its await is one action, what follows the await
another. `Leave` unmounts the page: requests under way change it no more, but their
commands run. `since`, `reported`, `newest` and `inOrder` are history: the contents
the store has had since a change took effect, and since the last change the user was
told of; the fetch that was made last, until it is settled; and that no other has
been settled after it.

`TableShowsChanges` says that a table which no fetch will still replace is the store
as it was at some moment after every reported change. It needs `inOrder`: the page
has no guard against a listing that is overtaken.

### AppShell and the pages

`pathname` decides which page is mounted. `Navigate` runs the cleanup of the page that
is left (`Exit`, or `Cleanup` of its interval) and initialises the next (`Show`). What
a page that was left has set going in the backend is frozen until the user comes
back, since nothing on another page depends on it. The composition is a product of
the pages in which only the mounted one moves; `KeysPage` is checked by itself,
because its store is its own and its state space is the largest.

* `PollingPage` is one module for three pages, which differ in what they do with an
  answer (`DashboardAnswered`, `MetricsAnswered`, `ClientsAnswered`) and in what they
  render (`Screen`). `timers` holds the intervals that run; a tick sends a poll
  without waiting for the last. `recovered` turns on when the backend answers every
  poll from then on.
* `CommandsPage` keeps what the log says of each key: `known`. It is forgotten when
  another client, the clock or a late command touches the key (`disturbed`, if that is
  during a command); `late` holds the changes that were reported as failed and may
  still happen.
* `ChatPage`: `ask` is the one call of `chat` that may be under way, in the stage it
  awaits; `prompt` is what was sent to OpenAI. `Window` stands for the 10 of
  `history[-10:]`. It must be even, as 10 is: an odd window would start the prompt
  with an answer.
* `BenchmarksPage`: `running` counts the runs of the backend, `givenUp` those the page
  does not wait for any more.
* `SettingsPage`: `timeouts` are the timers under way, in seconds.

## Runs

| Run | Instance | Shows |
|---|---|---|
| `lru` | 3 keys, 2 values of sizes 1 and 3, TTLs 0, 1 and none, capacity 2, clock to 2 | `OrderMatchesMap`, `CapacityBound`, `BytesExact`, `WorkingSetKept`, and that `LruCache` implements `CacheSpec` |
| `kvstore` | 2 keys, TTL 1 s of two ticks, clock to 3, 2 counted requests, fairness | `CallsSerialized` (it implements `LruCache`), `KeysListing`, `ExpiredRemoved`, `CommandsAnswered` |
| `tcp` | 2 clients, one with two lines and an empty one, 2 descriptors, reads of 2 bytes, 3 bytes of send buffer, fairness | `EventsNotStale`, `BuffersMatchStream`, `NoLostWakeup`, `ActiveConnectionsExact`, `AnswersInOrder`, `LinesRunInOrder`, `LinesRun`, and that `TcpServer` implements `LineStream` |
| `tcp_live` | 2 clients, 1 descriptor, reads of 1 byte, fairness | `BacklogServed` |
| `client` | 2 calls of any of 4 commands on any store with 2 keys, 2 values, one of them too long for `readline` and for the socket, fairness | `ImplementsService`, `CallsEndServed` |
| `lifecycle` | 3 signals, fairness | `ReturnsOnlyIfStopped`, `StopsOnceServing` |
| `metrics` | 4 polls, a window of 3, 3 requests, a second of one tick, clock to 2 | `MetricsTypeOK`, `OpsCountEachOnce` |
| `benchmark` | 5 operations, batches of 2, 3 latencies, two of which round to the same | `BenchTypeOK`, `ResponseComplete`, `PercentilesRight` |
| `keys_page` | 3 requests under way, 1 key, 1 value, fairness | `TableShowsChanges`, `FormsShowLatest`, `SpinnerStops` |
| `frontend` | all pages but the key explorer: 2 polls under way, histories of 2, a log of 2, 6 messages with a window of 2, 2 benchmarks, fairness | `AppTypeOK`, `CardsMatchCharts`, `TimersMatchPage`, `PageShown`, `AlertClears`, `LogConsistent`, `Conversation`, `PromptWhole`, `OverlapsGivenUp`, `WaitingEnds` |
| `tcp_eof`, `client_keys` | as `tcp` and `client` | the findings below |

The type invariants of `LruCache`, `KVStore`, `TcpServer`, `CacheClient`,
`ServerLifecycle` and `KeysPage`, and `IteratorsValid`, are proved for every instance and are not run
again.

Why the bounds are enough. Three keys in a cache of two is the least in which an
insert can evict the wrong key; sizes that differ make overwrites visible in the
byte count; a TTL of 0 meets its deadline at once and a TTL of 1 lets a clock of 2
pass before, at and after it. In `kvstore` the clock can pass a deadline between the
copy and the print of KEYS, with half a second left as well as none. Counted
requests are bounded (`MaxRequests`), but STATS and KEYS are not counted, so the
server thread never has to leave the mutex alone. Two clients and two descriptors
include a batch in which the first client's event closes a descriptor and the
listener's event gives its number to the second; one descriptor makes the second
client wait for it. Reads of two bytes cut `x CR LF LF x LF` inside a line, between
CR and LF and between lines. A send buffer of three bytes cuts the second answer. The
first client has two lines because it takes two answers to a client that has gone to
kill the server, which has a connection of the second at that time only with two
descriptors: `LinesRun` is checked where that happens, and excuses it.

Two calls let a command that outlives its call take effect, or be lost, between the
effect and the answer of the other; what earlier calls have left in the store is any
initial store (DEL and STATS are in `client_keys` only; the proofs cover any number of
calls and any menu of commands). Two keys make a listing of two lines, which can be cut
after the first or inside either. The long value makes a SET that waits in `drain()` or
`wait_closed()`, an answer and a line of a listing that `readline` refuses. Three signals cover one before, one during and
one after the loop. Four polls overflow a window of three;
three requests and two ticks put some before, inside and after the second that counts. Five operations make
two full batches and a partial one, and lists in which the 50th percentile is in
the middle and the 95th and 99th at the end.

In `keys_page` three requests include a change between two fetches, a change answered
by another client's, and a fetch from before a page was left, so that every pair may
overtake each other; more requests are more of the same pairs, and the proofs hold
for any number, with any keys and values. In `frontend` two polls are the least that
overlap, histories and log of two overflow, six messages exceed a window of two
(the proofs hold for every even one), one late command is enough to contradict the log, and a delay of three seconds lets
two messages of the settings overlap.

`metrics` allows deadlock because each poll is made once; `keys_page` and `frontend`
because the user may stop and the numbers of requests and messages are bounded.
`tcp` and `tcp_live` allow deadlock, because clients may stop sending and the
server then waits for ever.

**Fairness.** `kvstore`: each thread keeps taking steps (weak fairness), and a
thread that waits for the mutex and finds it free again and again gets it (strong
fairness). The latter is needed, since the server thread may take and release the
mutex for ever; `std::mutex` does not promise it, but the server thread does I/O
between any two commands, and the scheduler does run a thread that was woken by an
unlock. No client has to send anything. `tcp` and `tcp_live`: the event loop
keeps running and a killed server is started again; clients owe nothing. `client`: asyncio resumes each call
that can go on, a timeout among the ways where there is one; the server owes nothing. `lifecycle`:
`main`'s thread is scheduled; failures, signals and sweeps are not owed. `keys_page`:
every request is settled, since axios gives up after 30 s; the backend owes nothing.
`frontend`: timers fire, requests are settled, and the backend owes answers to polls
only once it has recovered, which it need never do (`AlertClears` starts there).

## Findings

Each has a run that ends in the counterexample:

* `tcp_eof`: a client that sends a line and ends its input (`printf 'GET a\n' | nc`)
  gets no answer if the end of file is read in the same `handle_read` as the line:
  the function returns before the bytes reach the line loop. The README says
  that complete lines are extracted and dispatched.
* `client_keys`: a server that dies before END leaves `list_keys` reading an empty
  line for ever. Python 3.12's `wait_for` does not yield when the line is there at
  once, so the whole backend stops.

Seen while modelling; each has a property and a configuration to run by hand
(`tlc -config X.cfg M`), which are not among the regular runs:

| Configuration, module | Property | What happens |
|---|---|---|
| `MCTcpPipe`, `MCTcpServer` | `RunsUntilStopped` | The server ends by SIGPIPE when it answers a client that has gone, although `run` is to block until `stop()` or SIGINT. As process 1 of a container it survives. |
| `MetricsNegative`, `MetricsService` | `OpsNotNegative` | `ops_per_sec`, "Requests in the last second", is negative after a restart of the server, or when two answers are applied in the other order. |
| `KeysOvertaken`, `KeysPage` | `TableAlwaysShowsChanges` | Two fetches overlap and the older listing is answered last: it stays, without the change that was reported since. |
| `ChatUnreachable`, `AppShell` | `RulesAnswer` | `ai_service.chat` reads `raw` in its rules, which is unbound when STATS failed: an exception instead of the rule-based answer. |
| `BenchmarksOverlap`, `AppShell` | `OneBenchmark` | A benchmark that axios has given up after 30 s runs on while the enabled button starts a second. |
| `MCKVStats`, `MCKVStore` | `StatsNeverWaits` | STATS "Atomic reads, no lock" takes the mutex and waits for the whole expiry sweep. |
| `MCClientReset`, `MCCacheClient` | `ErrorsReported` | Only timeouts are caught once a connection is made; a reset raises `ConnectionResetError`, not `CacheClientError`. |
| `MCClientCut`, `MCCacheClient` | `ValuesWhole` | `readline` returns a cut line at the end of the file: if the socket's send buffer takes only a part of a GET's answer (a long value, a small buffer) and the server then dies, `get_key` returns the beginning of the value. |
| `MCClientDrain`, `MCCacheClient` | `CallsEndWhileUp` | `drain()` and `wait_closed()` have no timeout: a large SET to a server that is up and does not read never ends. |
| `MCClientLong`, `MCCacheClient` | `ValuesReadable` | A value whose line exceeds 64 KiB is stored and cannot be read. |
| `LifeStop`, `ServerLifecycle` | `StopHonoured` | A signal between `g_server = &server` and `running_ = true` is lost. |
| `LifeSweep`, `ServerLifecycle` | `SweepsLiveStore` | The expiry thread does not share ownership of the store; `main` destroys it under a sweep. |
| `LifeHandler`, `ServerLifecycle` | `HandlerFindsServer` | A second signal calls `stop()` on a server that is gone. |
| `MetricsRecent`, `MetricsService` | `OpsAreRecent` | The requests since the last poll, however long ago, count as those of the last second. |

Also seen, with no property: GET without a key in the console asks the list route and
prints `undefined`; SET in the console keeps only the first word of a value
(`commands/page.tsx:50`); the button of a running benchmark shows the slider's current
value, not the run's; the card "Total Keys" shows `total_requests`
(`dashboard/page.tsx:91`); settings are not stored although the message says so, and
the message of a second save is taken down by the first one's timer; `ai_enhanced`
reports that a key for OpenAI is configured, not that it was used
(`routers/ai.py:36`); the chip "Live" is a constant.

## Proofs

`KVStoreProofs`, first about `LruCache`, for all keys, values, TTLs, sizes, capacities and
clocks, from the assumptions named in `LruCache` (`ConstAssumption`, `CapacityAssumption`: the
constructor rejects a capacity of 0, `AbsentAssumption`):

* The inductive invariant is `IInv`: types, `OrderMatchesMap`, `CapacityBound` and
  `IteratorsValid` together. None of the first three is inductive alone: the
  eviction takes the last key of the list, so the bound needs that this key is in
  the map, and that needs a list without duplicates. The bound itself follows
  from the length of the list, since a list without duplicates that holds the
  map's keys is as long as the map is large (`StoredCount`).
* The lemmas before it say what removing a position (`RemoveAtIndices`,
  `RemoveAtDistinct`) and putting a key in front (`PrependDistinct`) do to the
  elements and to the order of a list without duplicates; `EraseFacts`,
  `TouchFacts` and `MakeRoomFacts` are their use for the code's operations.
* `BytesCounted`: `BytesInv` says that the byte count is `Bytes(map)`, the sum of the
  sizes of the entries; removing an entry takes its size out (`DropBytes`), putting one
  adds it (`PutBytes`), and an overwrite is both. That this sum is the fold of
  `BytesExact` is `BytesAreExact`. The lemmas on sums are in `SetSums`, see below.
* `TypeCorrect`, `OrderMatches`, `CapacityRespected` follow. `Refinement` shows that
  each step is a step of `CacheSpec` or leaves its variables alone; its core is that
  `CacheSpec`'s victim is unique and is the back of the list.
* `WorkingSetStays`, for every capacity: the LRU promise in terms of past calls. The
  invariant (`HistoryInv`) is `ListTellsHistory`: of two stored keys the one nearer the
  front has been used since the other, and none after the key last used. So
  when the key at the back of a full list is evicted, the `Capacity - 1` others have been
  used since, and the new key makes `Capacity`. `StepHasShape` sums up, from the
  refinement, the ways in which a step can change the recency relation: one key comes
  to the front, or keys are forgotten.

Then about `KVStore`, in addition from `MaxRequestsAssumption`:

* `KVIInv` adds to `IInv` who holds the mutex where (`MutexInv`) and how far KEYS has
  come (`KeysInv`: each live key is still to be scanned, copied, or printed).
* `Serialized` (KVStore implements `LruCache`), `KVImplementsCache` (hence the
  abstract cache), `KVBytesCounted`, `KVTypeCorrect`, `KeysSnapshot`.

`SetSums`: the library's induction theorems cannot be used here, as they take an operator
as a parameter. But a set of subsets of a finite set has a minimal member
(`MinimalSet`, from the theorem on well-founded relations, which takes none), and that
is enough to argue by a smallest counterexample: the equation of a fold has a solution
(`SumExists`), it is unique and depends on the weights only (`SumAgree`), and any element
may be taken out first (`SumRemove`).

`TcpServerProofs`, for any set of connections, finite set of descriptors, scripts, read size
and send buffer, from the assumptions named in `TcpServer` (`BufferAssumption`: no
buffer is not a buffer):

* The inductive invariant `TcpInv` has the parts `TcpTypeOK`, `LoopInv`, `OwnerInv`,
  `CountsInv`, `BuffersMatchStream`, `WakeInv`, `AnswersInOrder` and
  `ActiveConnectionsExact`. `OwnerInv` is why events are not stale: an event in the batch
  names the connection that owns its descriptor still. That outlasts a close because
  `LoopInv` says that a descriptor is closed only after its one event has left the
  batch, so that the listener's event may hand its number on. `WakeInv` is
  `NoLostWakeup` at every point of the loop: input without an edge is about to be
  read, and only the running `handle_read` holds a complete line. The buffers match the
  stream because a read appends what `got` counts (`CountsInv`) and a line takes a
  prefix.
* `TcpTypeCorrect`, `TcpEventsNotStale`, `TcpBuffersMatchStream`, `TcpNoLostWakeup`,
  `TcpActiveConnections`, `TcpAnswersInOrder` follow.
* `TcpImplementsStream`: each step is a step of `LineStream` or leaves its variables
  alone. Its core is that a buffer is the stretch of the script between `Done(c)` and
  `got[c]`, so that the first newline in the one is the first in the other.
* `TcpLinesRunInOrder`: what was run is a prefix of `Lines`. `LinesInv` says that it
  is exactly the lines with a text that end at or before some place, each where
  the number of lines up to it puts it; while the connection is open the place is `Done(c)`. Lines end at different places and so have
  different numbers (`LineNumbersDiffer`), and running the next one raises the
  number by one or, if it is empty, leaves it (`OneLineMore`, `RanNext`). The steps are
  those of `LineStream`, so descriptors and buffers do not come up again.

`CacheClientProofs`, for any calls, commands, keys and values, from `MenuAssumption` and
`ModelValues`:

* The inductive invariant `ClientInv` has, besides types, three parts for each call.
  `CallInv` ties the places a command passes through together: it is on the wire
  only after its call, and `response` is set exactly when it was read. `InboxInv`: what
  has been read or waits to be read is part of the response, all of it when END is
  still there. That is why a listing that is answered is the whole snapshot: `ReadEnd`
  finds only END in `inbox`, so `lines` is the rest. `TailInv`: what
  a cut line reads as is an error, the response, or begins like the value GET answers
  with. An END that lacks only its line end counts as END in `InboxInv`.
* `ClientTypeCorrect`, `ClientRefinement` (each step is a step of `CacheService` or
  leaves its variables alone; the beginning of a value is told only at the end of a file
  that the server's death has ended).

`ServerLifecycleProofs`, for any number of signals: `ReturnsOnlyWhenStopped`. The
invariant adds that the pointer is set exactly from publishing on, that the server
is alive inside `run`, and that the loop finds `running_` false only after a stop.

`BackendProofs`, for any number of operations, batch size and latencies
(`BenchmarkAssumption`):

* `Gathered` says that, unless an exception has ended the benchmark, the latencies and
  the errors are those of the operations in the batches gathered, in order, and that
  only operations of the present batch are under way. The errors of a batch are
  counted by their place in it; `ShiftedErrors` counts them by operation.
* For the percentiles, `PlacesDiffer` and `PlaceTaken` (by the pigeonhole principle) show
  that sorting is a permutation, `SortedPlace` how many elements are not above and how
  many are below the n-th, and `PercentileIndex` that `int(p / 100 * n)`, capped, is the
  right one. Rounding keeps the order of latencies (`RoundedOrder`), so that what is not
  above, or below, stays so.
* `BenchTypeCorrect`, `ResponseRight`, `PercentilesCorrect`.

and for any polls, window, clock and number of requests (`MetricsAssumption`):

* `MetricsInv` says, besides types, what the window holds (`WindowInv`): entry by entry
  the differences between successive totals in the history of applied answers, its last
  `MaxLen` ones. `KnownInv` says that a total is the number of requests it counts, and
  `AppliedInv` that answers are applied later than what they count, one after the
  other. `PushKeepsWindow` is `append` with and without an oldest entry to drop.
* `OlderFirst`: the answers older than a second are the first ones applied, so those
  after them are the end of the window. Their differences telescope (`WindowSum`), so
  that the rate is the difference of two totals (`ResumeOps`), which for two answers of
  one run is the number of requests between them.
* `MetricsTypeCorrect`, `OpsCountRight` (an action property).
`KeysPageProofs`, for any number of requests under way, any keys and any values, from
`KeysAssumption`, `KeysNone` and `KeysAbsent` (the markers for nothing are no values):

* The inductive invariant `KeysInv` is `PageType` and `Flags` (what the variables
  hold), `CallInv` for each request (what is awaited was asked for, results are of
  their kind, and while a change that is in effect waits to be reported, the store's
  contents are recorded for it), `FetchInv` and `FormInv`. `FetchInv` is the heart:
  what the newest fetch has read is among the contents since the last reported
  change, and while `inOrder` holds so is the table. This outlasts a further report
  because the page fetches again in the same continuation, so that the newest fetch
  has read nothing yet; and it is lost when an older listing arrives later, which
  `inOrder` rules out. Each action has a lemma.
* `KeysTypeCorrect`, `TableRight`, `FormsRight`.

`AppShellProofs`, for any number of polls, benchmarks and messages, every even window
(`ChatAssumption`), any figures, keys and values (`PollingAssumption`, `ConsoleAssumption`)
and a `None` that is nothing else (`NoneAssumption`; likewise for `Absent`):

* `TimersRight`: `TimersMatchPage` is inductive as it stands, since `Navigate` runs the
  cleanup and the next page's effect in one step.
* `OverlapsRight`: `BenchInv` says that what runs is exactly what was given up and what
  the form waits for, and that a waiting form's button is disabled.
* `ConversationRight`, `PromptRight`: `ChatInv` says that a conversation alternates, that
  it ends with a question while one is under way, and that the service got what was
  said before, which ends with an answer. `LastTalk` then shows that an even window cuts
  it before a question.
* `CardsRight`: `PollInv` says that only a page on the screen awaits polls, and that what
  the dashboard's cards show is the last sample of its history.
* `LogRight`, an action property: `ConsoleInv` says that what is known of a key is what the
  store holds, unless the command under way has just changed it (`KnownRight`), and
  that the result of a command agrees with what is known and tells the store's contents
  of each key that nobody has changed since (`EffectRight`). The second is needed as
  the first is suspended between the effect and the answer.
* `AppTypeCorrect`: these invariants, and that a question is sent only if its answer will
  fit, too (`ChatFits`).

Every safety property that a passing run checks is so stated by a theorem. Only
model-checked: liveness, as the prover has neither fairness nor ENABLED (`ExpiredRemoved`,
`CommandsAnswered`, `BacklogServed`, `LinesRun`, `CallsEndServed`, `StopsOnceServing`,
`SpinnerStops`, `PageShown`, `AlertClears`, `WaitingEnds`), and the two findings, which are
counterexamples.

## Not modelled, and the plan

Next would be `Protocol`: a command's round trip through the client's formatting and
the server's tokens (values with spaces, KEYS lines cut at spaces); TTL parsing and
64-bit deadlines.

The rest of the frontend (charts, theme, static pages, the drawer of the mobile
layout) keeps no state worth a model. Of the AI service, the wording of rules and
insights and what OpenAI answers are left out: an answer is an answer or a failure.
Health and schemas are stateless.
