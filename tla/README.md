# CPP_Server: a TLA+ verification project

TLA+ models of the programs in this repository, with TLC runs on small instances
and TLAPS proofs for all instances: of the concurrent core of `ocean_http`, its event loop,
accounts and log, and of the database proxy of `ocean_im`.

- [The system and its parts](#the-system-and-its-parts)
- [Modules and how they correspond to the code](#modules-and-how-they-correspond-to-the-code)
- [Runs](#runs)
- [Bounds](#bounds) and [fairness](#fairness)
- [Proofs](#proofs)
- [Where the code and its comments disagree](#where-the-code-and-its-comments-disagree)
- [What is not modelled](#what-is-not-modelled) and the [plan](#plan)

`PROJECT.json` lists the components, the runs, the lines every definition
models, the hazards and the theorems.

## The system and its parts

The repository holds three programs. `ocean_http` is a complete multi-threaded web
server; of `ocean_im` (an instant-messaging back end on brpc) the database proxy is
written, and `ocean_net` (a network library) has the beginnings of a logger.

**ocean_http.** One event-loop thread and a pool of workers.

| part | state | operations | meets whom |
|---|---|---|---|
| `lock/` sem, locker, cond | a count, a holder, a set of waiters | wait, post, lock, unlock, wait, timewait, broadcast | everybody |
| `cgimysql/` connection pool | `connList`, `m_CurConn`, `m_FreeConn`, a semaphore, a mutex | `init`, `GetConnection`, `ReleaseConnection`, `DestroyPool`, the RAII guard | workers, start-up, exit |
| `threadpool/` | `m_workqueue`, mutex, semaphore | constructor, `append`, `append_p`, `run` | event loop (producer), workers (consumers) |
| `log/block_queue.h` | a ring (`m_array`, `m_front`, `m_back`, `m_size`), mutex, condition | `push`, `pop`, timed `pop`, `clear`, `back` | log writers and the log thread |
| `log/log.cpp` | `m_fp`, `m_count`, `m_today`, `m_buf`, the queue | `init`, `write_log`, `flush`, `async_write_log` | every thread |
| `timer/` list | doubly linked list of `util_timer` | `add_timer`, `adjust_timer`, `del_timer`, `tick` | event loop |
| `webserver.cpp` | `users[]`, `users_timer[]`, epoll, the signal pipe | `eventLoop` and its handlers | workers, kernel, clients |
| `http/http_conn.cpp` | one connection: the read buffer and the position in it, the request | `read_once`, `process` (`process_read`, `do_request`, `process_write`), `close_conn` | event loop and one worker at a time |
| accounts in `do_request` | the map `users`, the table `user` | registration, login, `initmysql_result` | all workers, MySQL |
| `config.cpp`, `main.cpp` | options | parse, then call the parts in order | |

The behaviours that are hard to get right there: handles and requests are passed
between threads by a semaphore *and* a mutex taken in a certain order; the event
loop and a worker share a connection without a lock and rely on `EPOLLONESHOT`;
descriptor numbers and heap addresses are reused while old timers still name them;
the log takes its mutex three times for one line and closes its file in one of them;
the parser keeps its position across arbitrary cuts of the stream; look-ups of
accounts run beside insertions; and timeouts depend on an alarm that only the event
loop sets again.

**ocean_im.** `dbproxy` serves twelve RPCs in front of Redis (each user's session; a
record of the last message sent) and MySQL (the table `messages`, with one row for
every user who has a copy). Each call runs in a thread of brpc; calls meet in a pool
of ten soci sessions and on one Redis connection, whose commands may be late, lost or
repeated. `consistent_hash` is a ring of virtual nodes nobody uses yet, and nobody could: its
`find` asserts that the ring is empty. `logic` answers
`SendMsg` without doing anything with it; the rest are stubs.

**ocean_net.** A logger with appenders and formatters, and the parser of its patterns.
No program links it. `fiber` and `mutex` are declarations.

## Modules and how they correspond to the code

| module | models | abstraction |
|---|---|---|
| `LockWrappers` | `sem`, `locker` | a count; a holder |
| `SqlConnectionPool` | `sql_connection_pool.cpp` | one action per statement that touches shared state |
| `ThreadPool`, `MCThreadPool` | `threadpool.h` | likewise; uninitialised members are chosen by `Init` |
| `BoundedFifo` | what a blocking bounded queue promises | abstract specification |
| `BlockQueue` | `block_queue.h` | each call is atomic (it holds its mutex) up to a wait |
| `TimerQueue` | what the timer list promises: a tick runs exactly the due callbacks | abstract specification |
| `SortTimerList` | `sort_timer_lst` | pointers `head`, `tail`, `prev`, `next` over a set of addresses |
| `WebServer`, `MCWebServer` | event loop, signals, alarm, connection timers, the workers' side of a connection | composes the parts: the list through `TimerQueue`'s promise (a set of timers: the order of callbacks of one tick does not matter to the server), the queue through `ThreadPool`'s |
| `HttpConn`, `MCHttpConn` | `read_once`, `process_read`, `do_request`, `process_write` | a symbol stands for the text of a line, CR, LF or a body byte |
| `Accounts` | registration, login, `initmysql_result` | names and passwords are values, the table a set of rows |
| `Log` | `log.cpp` | a line is its writer and number, a file its day and part |
| `DbProxy`, `MCDbProxy` | all RPCs of `dbproxy_service.cpp` | a request is a record, a row is its user and the save that wrote it; one step per call that leaves the process |
| `NetLogger` | appenders, formatters, levels of `ocean_net/src/log.cpp` | text is left out: `format` returns an empty string |
| `LogPattern` | the loops of `LogFormatter::init` | only the positions of the loops |
| `MCLibraries` | composes the two parts of the logging library for one run | one of them moves per behaviour |
| `SqlConnectionPoolProofs`, `ThreadPoolProofs`, `BlockQueueProofs`, `SortTimerListProofs`, `WebServerProofs`, `AccountsProofs`, `LogProofs`, `DbProxyProofs` | theorems about the module in the name | |

*SqlConnectionPool.* `pc[t]` is the statement a thread is at, `con[t]` its local
handle. `GetConnection` tests `connList.size()` without the lock and returns NULL
when it is 0; then `GetWait`, `GetLock`, `GetFront`, `GetPop`, `GetUnlock`.
`DestroyPool` may come at any time after start-up: `main` returns while the detached
workers run. `closed` is the set of handles given to `mysql_close`.

*ThreadPool.* The constructor checks two of its arguments and stores none, so
`m_thread_number` and `m_max_requests` come from the set `Garbage`, `m_actor_model` is 1 or
something else, and `m_connPool` is the pool's address or any other (`wild`). The
comparison of `size()` with a negative limit is an unsigned one (`Full`). `append` takes any
connection at any time, also one that is queued or in a worker's hands: the number of a
closed socket, and with it the object `users + sockfd`, is used again at once. `RunBorrow`,
`RunReserve` are the `connectionRAII` of `run`: it gets NULL, or waits for a handle; with a wild
pointer it ends the process (`RunWild`), and so may `process` with a NULL handle
(`ProcessNull`).

*BlockQueue.* `waiting` threads are in `cond::wait`; a broadcast, a timeout or a
spurious wake-up lets them run on. The refinement mapping reads the ring from
`m_front + 1` on.

*SortTimerList.* Freed addresses come back from `new`, so a stale pointer would be
seen. `tick` does not update `tail`, as in the code; `WellLinked` says what is
nevertheless true. The loops are stated by where they stop: `Chain` is the path from
`head` along `next` to the null pointer, `Slot` the node behind which the private
`add_timer` links its timer, `Due` the number of timers `tick` runs through.

*WebServer.* A handler of the event loop is one action up to the loop on `improv`,
where it waits for a worker; a worker's handler is cut wherever the event loop can
see the difference (`improv` before `timer_flag`, the three steps of `close_conn`, the
load and the store of `m_user_count--`). `main = "undefined"` marks that the loop
followed a pointer to a deleted timer. `config` is the combination of options and of
the members of the pool the constructor leaves uninitialised (the actor model, the limit
and the connection pool). `ProcessDies` is the end of the process by the latter, or by a
worker without a handle (`main = "crashed"`). `write()` has no
return statement: it returns anything. `eventListen` calls neither `bind` nor
`listen`; that clients arrive is an assumption of the model.

*HttpConn.* `ReadOnce`/`ReadClose` are the two results of `read_once`; each iteration
of the loop in `process_read` is an action, `parse_line` an operator that gives the
status, the new `m_checked_idx` and the bytes it overwrites. The reference
(`RequestLength`, `WellFormed`) describes the same streams without a parser. An announced
length is what `atol` makes of it: it may be negative, and larger than the buffer.
`parse_content` compares `m_read_idx` with the length counted from `m_checked_idx`, which
`parse_line` may have moved into the body, and writes its NUL behind the text it takes for the
body; the history variable `short` counts how often it missed bytes.
`parse_content` ends without a `return` when the body is incomplete; the constant
`FallOff` says what the caller may see. The build of `CMakeLists.txt` has no
optimisation flags: the register still holds the sum just compared, which is above
`GET_REQUEST`, so the runs use "some other value".

*Accounts.* `users.find` runs outside `m_lock`: beside an insertion it may miss a key
that is there. `InsertRow` succeeds, is refused (a unique key), fails, or is carried
out with the answer lost. `Restart` may happen at any point.

*Log.* `m_fp` is the open file, `Closed` between `fclose` and `fopen`, or `Null`.
`out` is everything written, in order, and `flushed` how much of it has left the
stdio buffer. Any call on a closed FILE, `fflush` and `fclose` included, and a write to a
null one end the process (`dead`); `fflush` of a null one flushes every stream.

*DbProxy.* The callers send one of several sets of requests, in any order and
concurrently. `pc[r]` is where the handler of `r` waits: for a session of the pool
(`lease`), for MySQL (`sql`), for Redis (`redis`). `wire` holds the commands on the Redis
connection. `RedisExecutes` takes the oldest; its reply arrives, or is lost and the
command is sent again, or the handler has given up (`RedisFails`, the timeout) and the
command takes effect all the same. Redis may also refuse a command (no memory, a
read-only replica): the stores stay as they are, and since the handlers ask only whether
the call failed, the caller is told of success. `SqlFails` may leave the rows of the INSERT
behind. `Die` is a crash or the `CHECK_EQ` in `GetSessions`, which fails for every reply but
that of a single user's session, a refusal and an empty list included; brpc's flag
`crash_on_fatal_log` decides whether that ends the process or only logs. After the end of a process the
commands on its connection are `stray`: Redis may read them at any later time, also beside
those of the restarted process, or never. The script that should keep the record
of the last message lacks a quote after `GET`; Redis answers with an error the handler
takes for success, so `Eval` changes nothing. `seen` and `gone` are history variables
for the properties.

*NetLogger, LogPattern.* `m_hasFormatter` is never set, so `setLogFormatter` replaces every
appender's formatter. It takes a null pointer as well, which the next event would follow; the
history variable `nulled` has the appenders that were given one.

## Runs

| run | module, cfg | what it checks |
|---|---|---|
| `sql_pool` | `SqlConnectionPool`, `SqlPool.cfg` | `ExclusiveBorrow`, `NoHandleLost`, `FrontNonEmpty`, `CountersExact`, `NoQueryOnClosed`; a blocked borrower is followed by a borrow (`WaitersServed`) |
| `thread_pool` | `MCThreadPool`, `ThreadPool.cfg` | `SemaphoreCountsQueue`, `NoEmptyWakeup`, `EachRequestOnce`; a listed request is taken (`ListedIsTaken`) |
| `block_queue` | `BlockQueue`, `BlockQueue.cfg` | `BlockedOnlyWhenEmpty`, `BackIsNewest`; the ring implements `BoundedFifo` (`RingIsFifo`) |
| `timer_list` | `SortTimerList`, `TimerList.cfg` | `WellLinked`; the list implements `TimerQueue` (`ListIsQueue`) |
| `server_safety` | `MCWebServer`, `ServerSafety.cfg` | `NoDanglingTimer`, `OpenHasTimer`, in all configurations |
| `server_progress` | `MCWebServer`, `ServerProgress.cfg` | `IdleIsClosed`, `AlarmKeepsComing`, in all configurations, a stalled event loop and a dead process excepted |
| `http_conn` | `MCHttpConn`, `HttpConn.cfg` | `NeverEarly`, `WaitsOnlyForMore`, `HeadAsSent`, `BodyExact` for every cut of the streams |
| `accounts` | `Accounts`, `Accounts.cfg` | `AckedIsDurable`, `AckedCanLogin`, `LoginSound` |
| `log` | `Log`, `Log.cfg` | `OwnText`, `LineOnce`, `NoUseAfterClose`, `SyncIsDurable`, `QueuedIsWritten` |
| `db_proxy` | `MCDbProxy`, `DbProxy.cfg` | `StoredInOrder`, `AckedIsStored`, `LastSendTruthful`, `SessionsFresh`; every call is answered (`CallAnswered`) |
| `libraries` | `MCLibraries`, `Libraries.cfg` | `FormatterForAll`; `EndsUnlessItHangs` |
| `server_user_count` | `MCWebServer`, `ServerUserCount.cfg` | violated: `UserCountExact` |

The modules of `ocean_http` state the types of their variables as `TypeOK`. It holds on the
same instances (add `INVARIANT TypeOK` to a cfg to see it) and is proved for the two
pools, the block queue, the timer list, the event loop, the accounts and the log; the runs leave it out in favour of
properties that say more.
To repeat a run:
`tlc -workers 2 -config ServerSafety.cfg MCWebServer`.

Every property of a passing run has a mutant, a changed copy of one definition that
a plausible mistake in the code would amount to (`PROJECT.json`, "mutants"; the
mutated forms stand in front of the definitions, marked *Mutant*). TLC finds the
property violated for each of them.

Some results deserve a sentence.

- `EachRequestOnce` counts: a connection appended twice has two places. It promises nothing
  about two workers with the same connection, which the pool cannot prevent.
- `ListedIsTaken` ends with the worker that takes the request. That it is also served is
  not claimed: the worker may wait for a connection while others overtake it, and with
  the pointer the constructor did not store the process ends.
- `FrontNonEmpty` holds although the size test is unlocked, because the semaphore,
  not the test, protects `front()`. After `DestroyPool` it no longer holds: the list is
  cleared and the semaphore keeps its count.
- `NoDanglingTimer` holds although `deal_timer` and `tick` leave
  `users_timer[fd].timer` dangling: a descriptor is reported by epoll only while it is
  registered, and then its latest timer is in the list.
- `OpenHasTimer` holds although a worker may close a descriptor whose timer stays in
  the list, and the number may be given to another client: `timer()` always installs
  a new timer.
- `WaitsOnlyForMore` holds for a CR and LF in different chunks because `parse_line`
  stays on the CR. Its other provision for that case (an LF whose predecessor is a CR)
  is never needed.
- `AckedCanLogin` needs unique names in the table and queries that fail for no other
  reason. Without them two clients can be told of success for one name, or a failed
  INSERT leaves an entry in the map that shadows a later row.
- `IdleIsClosed` and `AlarmKeepsComing` hold in proactor mode also when a full queue drops
  requests. In reactor mode they need the exception `Stalled`: the event loop has handed
  an event to a pool whose uninitialised members make it reject the request or
  process it without setting `improv`, and spins for ever.
- `WaitsOnlyForMore` and `BodyExact` speak of a body that was cut as far as they can. After
  one cut `parse_line` has moved on, so the request waits although it is complete, until
  further bytes follow; then its body is right. After a second cut also `m_start_line`
  has moved: the text handed to the account check may begin too late, and only its
  being within the received bytes behind the head is left.
- `StoredInOrder` allows a group list to name somebody twice (nothing in `SaveGroupMsg` forbids
  it): a member behind the last executed statement then has a row if an earlier entry
  gave one. It rests on `ChooseDatabase` returning the same pool for
  everybody: the mutant that spreads users over databases tears private messages.
- `LastSendTruthful` makes "ask, then send again" safe for a sender whose save failed or
  was lost, for private messages and for groups whose list begins with the sender: no copy of
  such a message is stored unless the query reports it. For another group it is not claimed:
  a save torn before the sender's row is not reported, and sending again stores the message twice for
  the members in front. It holds because the broken script never stores a record and the query
  always falls back to the table. With a script that works it would fail: while a row
  is stored and its record is not (yet, or never, after an error), the query prefers
  the older record in Redis to the table.
- `SessionsFresh` is about changes that Redis carried out and the proxy acknowledged: a refused SET
  or DEL is acknowledged as well, and the old address is reported from then on. It needs one
  connection per process, on which Redis executes commands in the order they were sent. A sign-in
  left over from an ended process may come late, so it counts as ended only when
  Redis has read it. What does *not* hold, and is not claimed: that an acknowledged sign-in
  stays until it expires (a late `DEL` of an earlier `ClearSession` removes it).
- `EndsUnlessItHangs`: `init` would not return for any pattern with an ordinary item such as
  `%d`. Nothing calls it.

## Bounds

- `SqlPool.cfg`: 4 threads, 2 handles: two borrowers wait while two hold, and a release
  can meet a waiter, a newcomer and the destruction.
- `ThreadPool.cfg`: 2 workers, 2 connections, each appended any number of times while fewer
  than two are listed (`MaxListed`), one database handle (`MaxConn`), so that workers compete
  for it. Members -1, 0, 1 and 2: no limit at all, one always reached, one reached at times, one
  out of reach.
- `BlockQueue.cfg`: capacity 3, 3 threads, 2 values: wrap-around, full and empty, two
  consumers woken for one element.
- `TimerList.cfg`: 3 timers, times 0 to 2, spans up to 2: head, middle and tail cases of
  every list operation, ties included. The clock bound ends behaviours, so deadlock is
  not at issue there.
- `ServerSafety.cfg`: 2 descriptors, 3 clients (a number is reused while the other
  descriptor stays open), 3 timer addresses, 1 worker, lifetime 1, edge-triggered
  listening. `ServerProgress.cfg`: 2 clients, 2 timers, lifetime 2, level-triggered
  listening. `MAX_FD` 2 makes the server turn clients away. The five configurations are
  proactor with a queue that rejects at times, reactor as intended, the two reactor servers whose
  loop gets stuck, and a pool with a wild pointer. `ServerUserCount.cfg`: one
  client, one descriptor, proactor: the shortest way to a wrong count is then the one described below.
- `HttpConn.cfg`: 17 streams, a buffer of 16 symbols; streams of 16 and of 18 symbols
  fill and overrun it; bodies of 0 to 4 symbols, with and without bytes behind them, with line
  ends and with what looks like a header in them; the lengths -1 and 99. Lengths below -1, for
  which `parse_content` may write in front of the buffer, and sums that overflow are left out.
- `Accounts.cfg`: 2 workers, 2 names, 2 passwords; requests and restarts are unbounded.
- `Log.cfg`: 2 writers of 2 lines, a queue of 1 (so that `full` and `push` race), rotation
  every 2 lines, 2 days. `LinesPerWriter` and `MaxDay` are the bounds; when they are
  used up the model stops, so deadlock is not checked.

- `DbProxy.cfg`: seven workloads of four requests with two sessions in the pool, so that
  requests wait for a session: repeated and newer sign-ins with a clear, a query whose check fails,
  a message sent twice with an empty query, a private message with a group that begins with its
  sender, a group of three members (one of them named twice, the sender not first) with an
  empty group and a message to oneself, the direct setting of the record, the reads. Each request is sent once (a retry is a second request); crashes,
  restarts, losses, repetitions and refusals are unbounded. Deadlock is not checked: the system
  rests when all are answered.
- `Libraries.cfg`: two loggers, two appenders, two formatters, lists of at most two entries
  (`MaxEntries`), two levels; all patterns of up to five of the characters `%`, `{`, `}`,
  space and a letter. Behaviours end with a null formatter that was followed or with the pattern.

Deadlock is checked in the other passing runs, except where a cfg says otherwise
because the system may stop: in `HttpConn.cfg` a connection ends when it is answered or
closed.

## Fairness

Weak fairness of every thread's next step: threads that can run are scheduled. A
blocked thread (a semaphore at zero, a mutex that is held) is not enabled, so fairness
never breaks a wait. `SqlConnectionPool` and `ThreadPool` state the exact formulas with
their reasons. In `WebServer` also time passes (the kernel's alarm); clients, signals
other than the alarm, and the outcomes of reads are not fair. In `Log` the number of
calls is bounded, so weak fairness is enough for the flusher to get the mutex. In
`DbProxy` some handler that can go on does: a statement ends with a result or an error, and
`redis_timeout_ms` ends every wait for Redis; no order among handlers waiting for a
session is assumed, and neither Redis' replies nor crashes are fair. `LogPattern` is a
plain loop that runs.

## Proofs

Checked by `tlapm` from nothing. The theorems hold for any sets of threads, handles,
requests, descriptors, clients, timers, names and workloads, any capacity, limit and pool
size, and any garbage in the uninitialised members. The assumptions are the named
`ASSUME`s of the modules, which every run evaluates: the sets that are counted are
finite, the special values are not among the ordinary ones, capacities are positive, and in
`DbProxy` a time is an `int32` and a list of users is a list (`messages.proto`). Every
inductive invariant was also checked by TLC on the instance of the run.

| module | theorem | property |
|---|---|---|
| `SqlConnectionPoolProofs` | `TypeCorrect`, `Exclusive`, `NothingLost`, `FrontSafe`, `Counters`, `NotClosed` | `TypeOK`, `ExclusiveBorrow`, `NoHandleLost`, `FrontNonEmpty`, `CountersExact`, `NoQueryOnClosed` |
| `ThreadPoolProofs` | `TypeCorrect`, `SemaphoreExact`, `WakeupFindsRequest`, `RequestsOnce` | `TypeOK`, `SemaphoreCountsQueue`, `NoEmptyWakeup`, `EachRequestOnce` |
| `BlockQueueProofs` | `TypeCorrect`, `NoLostWakeup`, `BackCorrect`, `Refinement` | `TypeOK`, `BlockedOnlyWhenEmpty`, `BackIsNewest`, `RingIsFifo` |
| `SortTimerListProofs` | `ListInvariant`, `ListWellLinked`, `TimerListRefines` | `IInv` (with `TypeOK`), `WellLinked`, `ListIsQueue` |
| `WebServerProofs` | `ServerTypes`, `TimersNeverDangle`, `ConnectionsAreTimed` | `TypeOK`, `NoDanglingTimer`, `OpenHasTimer` |
| `AccountsProofs` | `AccountTypes`, `RegistrationDurable`, `RegisteredCanLogin`, `LoginIsSound` | `TypeOK`, `AckedIsDurable`, `AckedCanLogin`, `LoginSound` |
| `LogProofs` | `LogTypes`, `TextIsOwn`, `ClosedFileUnused`, `EveryLineOnce`, `SyncLogDurable` | `TypeOK`, `OwnText`, `NoUseAfterClose`, `LineOnce`, `SyncIsDurable` |
| `DbProxyProofs` | `SaveOrder`, `SavedIsStored`, `LastSendIsTruthful`, `SessionsAreFresh` | `StoredInOrder`, `AckedIsStored`, `LastSendTruthful`, `SessionsFresh` |

*Connection pool.* `FrontNonEmpty` and `CountersExact` are not inductive. The invariant has
three layers: `Inv1` (types, and who holds the mutex is in a critical section and
conversely), `Inv2` (a handle is in one place: the list has no repetitions, owners are
disjoint from it and from each other), and `Inv3`, which counts: in a live pool the
length of the list is the semaphore's count plus the number of threads that hold a
unit for a listed handle (`Taking`: past `wait` and not popped yet, or past `push_back`
and not posted yet).

*Thread pool.* The same shape: `Inv1` (control and mutex), `EachRequestOnce` (as many places as
accepted appends, by lemmas that count the occurrences in a sequence) and `SemaphoreCountsQueue` itself, which is inductive together with them.
The unit `append` still owes (`Owed`) is what makes the order "push, unlock, post" right.
`WakeupFindsRequest` says the `empty()` test in `run` is never true.

*Block queue.* `Inv` ties the ring to the abstract queue: element `i` of the queue is in the
slot `(m_front + i) % m_max_size`, `m_back` is the slot of the last one, and nobody waits
while there is an element. `Refinement` then maps every step to a step of
`BoundedFifo` or to a stutter; the two arithmetic lemmas about `%` at the seam of the
array are proved once and cited.

*Timer list.* The refinement needs more than `WellLinked`: without the order of deadlines
`add_timer` would stop at a wrong place and `tick` too early. The invariant `IInv` adds it
(`Sorted`), and says that the nodes of the chain are linked both ways (`Linked`) and are exactly the
allocated timers. `next` leads along one path only (`ChainUnique`), so once a sequence is
shown to be linked it *is* the `Chain` of the new list. Three lemmas are about the pointer
assignments alone: `InsertLinked`, `RemoveLinked` and `DropLinked` (the front of the list is
dropped and `tail` stays). The loops are two more: `SlotSplits` and `DueSplits` show that in
a sorted list the place where the loop stops separates the earlier from the later
deadlines. Each method is then one step (`AddStep`, `AdjustStep`, `DelStep`, `TickStep`) that keeps
`IInv` and is a step of `TimerQueue`, from which both theorems follow: a tick runs exactly
the due callbacks although it looks at no timer behind the first one that is not due.
`AdjustStep` needs that a deadline only moves later, which the caller guarantees
(`adjust_timer` never looks to the left). `now` and the deadlines are bounded by `MaxTime`
and `MaxSpan`, which are arbitrary.

*Event loop.* `ServerTypes` strengthens `TypeOK` to `Types`: the queue is a sequence, `m_sokcfd` a
function, and the timer list finite (a tick subtracts the number of due timers from the
user count). Neither safety property is inductive: what a handler does to a timer
depends on events reported earlier. `Reported` says that as long as an event of a descriptor is
unhandled, `users_timer[fd].timer` is in the list and will close `fd` (`Guarded`), also when a
worker has closed the connection meanwhile or another client got the number, and that
`epoll_wait` reports a descriptor once; `Spinning` says the same of the descriptor whose
`improv` the loop waits for. With `Registered` (epoll knows only open descriptors) they
are inductive. The proof needs nothing of the workers but that they leave the timers
alone: it holds for any interleaving of their steps.

*Accounts.* `MapFollows` is the heart: as long as queries fail only for a taken name, a row
is missing in the map only while its worker is between INSERT and `users.insert` (and
holds the lock), every entry of the map is a row, and a worker whose INSERT was refused
finds the name in the map. That the table and the map start equal (`initmysql_result`) is
what a restart re-establishes. The table may hold anything at the start.

*Log.* `Inv1` has the mutex and the file: `m_fp` is closed only while a writer is between `fclose`
and `fopen` and holds the mutex, and `m_buf` is the text of the thread that will copy it.
`LineOnce` becomes inductive as `Inv2`, which says also that a line not handed on yet is in
*no* place; counting places in the file and in the queue uses the lemmas on `PlacesOf`.
`Inv3` (a synchronous call that returned is flushed) uses that the file only grows.

*DbProxy.* `Inv` has three independent parts. `Saves`: the rows of a save are those of its first
`done` statements, or of one more if it failed (a statement that threw may have been
carried out). `LastSend`: no record is ever cached, so a query that is answered has
looked at the table, and rows are never removed; a copy of a message whose list begins with
its sender implies the sender's own row (`SentIsOwn`), since the statements run in order. `Sessions`: a sign-in that has ended stays
*ahead on the wire* of every command called later to replace it (`Ahead`; the lemmas `Later...`
show that sending, executing, losing and sending again keep that order, because only a
handler that is still waiting sends), so when the replacement is acknowledged the old
command can no longer take effect. It also says that a waiting handler's sign-in is not among the
`stray` commands, and one that has ended is neither there nor on the wire; a refusal changes no store and so
preserves all of it. Two statements had to be corrected for the proofs:
`StoredInOrder` said less than it should about lists that repeat a user (and was false for
them), and `SelectLastSend` took 0 for the newest of negative times.

Only model-checked, and why:

- all liveness properties (`WaitersServed`, `ListedIsTaken`, `IdleIsClosed`, `AlarmKeepsComing`,
  `QueuedIsWritten`, `CallAnswered`, `EndsUnlessItHangs`): they need fairness, which is outside the
  prover's reach;
- `NeverEarly`, `WaitsOnlyForMore`, `HeadAsSent`, `BodyExact` of `HttpConn`: the reference
  definitions and the parser are compared symbol by symbol along a stream, an induction too;
- `FormatterForAll`, in `MCLibraries`, whose run bounds the appender lists.

## Where the code and its comments disagree

One disagreement is a run of its own, `server_user_count`: closing a connection takes one off
the number of clients (`http_conn.cpp:108`), but one that is closed by its timer while its
request is queued is counted out again by the worker's `close_conn`, since `cb_func`
leaves `m_sokcfd` alone (`lst_timer.cpp:226`); the run ends with -1 and nothing open. With two
clients TLC finds a shorter way, the update of `m_user_count` that is lost between a worker and the
event loop.

Two are exceptions written into properties that otherwise hold, so that the runs check
there is no third way:

1. `Stalled` in `WebServer`: `dealwithread` ignores that `append` rejected the request and
   spins on `improv`, which nobody will set (`webserver.cpp:359`), although the timer is meant
   to trigger SIGALRM continuously (`lst_timer.cpp:205`).
2. `short` in `HttpConn`: a body that arrives in two chunks is complete only once further
   bytes follow it, because `parse_line` has moved `m_checked_idx` into it (`http_conn.cpp:483`,
   `487`), and may be shifted if it arrives in more.

Met while modelling, visible in the modules, without a run: the thread pool's limits
and its connection pool are never stored (`threadpool.h:46`, `77`, `140`); `front()` of the queue returns the slot before the
first element (`block_queue.h:116`); `GetConnection` returns NULL instead of waiting
when the list is momentarily empty; `users.insert` runs also after a failed INSERT, so a
login can succeed with an account the table does not have (`http_conn.cpp:549`, the
comment at 567 speaks of the table); at midnight a slow thread turns the log back to
the old day (`log.cpp:134`); `log::init` builds its first file name from the whole
`file_name`, and returns `false` on success (`log.cpp:88`, `94`). In `ocean_im`: `GetSessions` for
any list but one user fails its check (`dbproxy_service.cpp:354`, `377`); a SET or DEL that Redis
refuses is acknowledged (`76`, `105`); `GetFriends` and `GetGroups`
always fail, because their SELECTs run words together (`478`, `518`); the script of
`SetUserLastSendData_` does not compile (`587`); `ConsistentHash::find` asserts that the
ring is empty (`consistent_hash.h:72`), and `Describe` prints one key too few for the first node
and follows `begin()` of an empty map (`88`).

## What is not modelled

- `thirds/`: vendored libraries (yaml-cpp and others). They are nearly all of the lines under
  `src/`: about 5,000 of some 110,000 belong to this repository's own programs. The map
  covers about half of these 5,000; the rest is headers with declarations, start-up code,
  text and stubs, as listed here. There is no further state or control in them to model.
- `trig_mode`, `config`, `main` of `ocean_http`, and the single system calls of `eventListen`:
  straight-line start-up, whose results are initial states.
- The text of requests, urls, responses and log lines; the SQL and the keys beyond what the
  properties tell apart. HTML. MySQL, Redis, soci and brpc are environments, modelled by
  what the callers can see of them.
- `http_conn::write`, which is empty, and `unmap`, which nobody calls. A consequence that
  `HttpConn` shows: after a response nothing arms `EPOLLIN` again.
- `dbproxy`: start-up failures (they exit), and the second database, which is opened and
  never used.
- `consistent_hash.h`: no program uses it, and with assertions on, as every build here has them, `find`
  ends the process on each ring it could search. What is left, insertion into and removal from
  a map, has no behaviour worth a property.
- The logic service: no state; only `SendMsg` and `Test` answer at all, the other bodies are
  empty and never run `done`. `idgen`, `access` and the client are an empty `main` each.
- `ocean_net`: format items, YAML output, `LogEvent`, `FileLogAppender::reopen`, and declarations
  without definitions (`clearAppenders`, `LoggerManager`, `fiber`, `mutex`). The library does
  not compile as it stands; the models follow its text.

## Plan

`NetLogger`: `FormatterForAll` for any loggers, appenders and formatters.
