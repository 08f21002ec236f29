# Verification of the c-cpp-sandbox libraries

TLA+ models of the parts of `src/lib` and `src/etimeout` that keep state or
convert data, TLC configurations that check them on small instances, and TLAPS
proofs about most of those that keep state. Paths are relative to the repository;
`etasker.cpp` is `src/lib/threads/etasker.cpp`, and so on.

    tlc -workers 2 -config MCETaskerPool.cfg MCETasker      # one run
    tlapm ETaskerProofs.tla                                 # one module's proofs

## 1. The system

The repository is one person's C and C++ library (`src/lib`), the applications
that exercise it (`src/http_test`, `src/etimeout`, ...) and small experiments. Its
core is a web server: `Server` accepts sockets, wraps each in an `ETask` and
gives it to a thread pool, `ETasker`; the task reads requests through streams and
parsers, calls controllers and writes responses; files are read through a file
manager, watched for changes by a watcher thread, and identified by keys from a
persistent generator. Shared pointers, arrays and, optionally, an allocator over
a static array carry the data.

| component | state | operations | interacts with | what makes it correct |
|---|---|---|---|---|
| ETasker (`threads/etasker.*`) | mutex, `num_threads`, `thread_pool`, `thread_pool_queue`, handler map with its own mutex, timer thread | `run`, `setThreadTimeout`, worker loop, `threadTeardown`, `timerProcess`, `~ETasker` | the application's SIGTERM handler, every connection task | exact thread count, no task lost or run twice, `onExit` for every task, no signal to a dead thread, destructor waits and ends |
| Server, HTTP connections (`web/`) | open descriptors, per connection request and response | accept, parse, static file, upgrade, dispatch, respond, close | ETasker, streams, FileManager | every accepted descriptor closed once; every request answered once, to the right peer |
| ConnectionTimer (`web/server_connection_timer.h`) | linked list of nodes, mutex, `start` | add, remove, set, get, tick | connection threads | the list stays a list; due connections are closed |
| FileWatcher (`file/file_watcher.cpp`) | watch map, inotify fd, mutex, thread | construct, `initialize`, start, stop, loop, `handle`, destroy | HttpFileWatcher, controllers' caches | events reach the handler; no handler of a freed watcher; the mutex is released |
| FileManager, StreamFactory (`file/`) | list of open writers with a lock | reader, writer, removeWriter, list, remove, move | key generator, controllers | a write leaves what was written; writes end |
| Key generators (`key_generator.h`) | counter, mutex, file | constructor, `next`, `nextAsInteger`, destructor | HttpServer, file writes | keys unique, also across restarts |
| emalloc (`memory/emalloc.c`, `heap.c`, `enew.cpp`) | freed and used lists over a static array | `emalloc`, `efree`, `new`, `delete` | everything, when it is built in | no byte with two owners, none lost |
| Shared and weak pointers (`memory/pointers.h`) | control block with two counts | copy, move, cast, assign, lock, release | everything | freed once, and only after the last use |
| Streams (`estream/`) | cursor, buffer, unget flag, reader tasks | get, peek, unget, read, readUntil, numbers | connections, parsers | no element skipped or read twice; calls end |
| Parsers (`parser/`) | position in a stream | JSON, CSV, key-value, multipart | connections, controllers | what was written is read back; what is malformed is refused |
| Arrays, matrices (`datastructures/`) | buffer, size, capacity, sorted flag | append, insert, remove, sort | everything | behaves as a sequence; writes stay in the buffers |
| etimeout (`src/etimeout`) | child pid, deadline, SIGCHLD flag | spawn, wait, kill | the child | its exit code tells what happened; it ends |
| Calendar, formatting, base64 (`ecal.cpp`, `string_format.cpp`, ...) | none | pure conversions | everything | conversion correctness |

Components call one another: `Server::listen()` gives tasks to `ETasker::run()`,
whose handler ends them by calling `onExit()`, which closes a descriptor the
kernel may give to the next `accept()` at once; a connection reads through
`EStream` and the parsers; `FileManager::write()` goes through `StreamFactory`; the
key generator writes its counter with it; the file watcher calls handlers through
the weak pointers of `pointers.h`.

The hard behaviours: ETasker combines several threads, two mutexes, an unlocked
read of the queue, asynchronous SIGTERM whose handler locks those same mutexes
and leaves through an exception, a member that is never initialised, 64-bit time
arithmetic, failing thread creation and a destructor that polls against a
deadline. SIGTERM reaches a connection between any two steps of it. The timer of
connections, the watcher and the stream factory each leave a mutex locked on some
path. The key generator must survive being killed between truncating and writing
its file. Counts of shared pointers are plain integers. A peer is slow, silent or
gone in the middle of a read. The full list, each entry at its line, is `hazards`
in `PROJECT.json`.

## 2. Modules

| module | models | state and actions |
|---|---|---|
| `ETasker` | `threads/etasker.{h,cpp}` and the SIGTERM handler of `http_test/main.cpp` | one variable per member; one action per step of `run`, `threadContext`, `processThread`, `threadTeardown`, `threadSigAction`, `timerProcess`, `~ETasker` |
| `TaskPool` | what ETasker promises its users | tasks fresh, queued, active; `Accept`, `Enqueue`, `Refuse`, `Dispatch`, `GiveUp` |
| `HttpRouting`, `HttpServer` | `server.cpp`, `http_connection_etask.cpp`, `http_types.h` | routing of one request as operators; descriptors, the listener and one program counter per connection |
| `ConnectionTimer` | `server_connection_timer.h` | the linked list, cell by cell; the steps outside the mutex are actions |
| `FileWatcher` | `file_watcher.cpp` | registrations, counts, one program counter per watcher thread, the events of the kernel |
| `FileManager` | `FileManager::write` over `stream_factory.cpp` | the file, the list of writers and its lock; the process may be killed |
| `SharedPointer` | `pointers.h` | slots, control blocks, counters, objects; the destructor in three steps |
| `ETimeout` | `etimeout/main.cpp` | parent, child, signal, clock |
| `EMalloc` | `emalloc.c`, `heap.c`, `enew.cpp` | two sequences of nodes; `emalloc`, `efree`, `operatorNew` |
| `KeyGenerator` | `UniqueKeyGenerator` and its store | file content, counter, life phase, callers; crash and restart |
| `Array`, `List` | `Array<T>` of `datastructures/array.h`, and what it promises | buffer, size, `e_sorted`; a sequence |
| `Criteria`, `EStream`, `Cursor` | `estream.h`, `estream_types.h`, and what a stream promises | the peer, the buffer, one call at a time; a position in the input |
| `Characters`, `ByteStream` | `string_utils.h`, `reader_task.h`, `byteestream.cpp` | operators on a text |
| `Json` | `json_parser.cpp`, `json_mapper.cpp` and the values they build | operators on a text |
| `Format`, `Calendar`, `Records` | `string_format.cpp`; `ecal.cpp`, `etime.*`; `csv.h`, `keyvalue/parse.cpp`, `base64.h` | operators on a text |
| `EpochTime` | the dates and seconds of `ecal.cpp`, `etime.*` | operators on numbers |
| `Reading`, `Conversions`, `Formats` | one step per call, and the reference definitions: reader tasks and numbers; JSON; the rest | `subject`, `outcome` |
| `ETaskerProofs`, `HttpServerProofs`, `EStreamProofs`, `ArrayProofs`, `ReadingProofs` | theorems about the module of the name | |
| `ServicesProofs`, `LibraryProofs` | theorems about ETimeout, FileManager, FileWatcher and ConnectionTimer; about EMalloc, KeyGenerator, SharedPointer and EpochTime | |
| `Induction` | lemmas on induction, recursive functions, folds and integer division | |
| `MCETasker`, `MCLibrary`, `MCServices`, `MCHttpServer`, `MCText`, `MCArray` | instances | |

`MCText` puts the streams and the conversions into one instance, `MCLibrary` adds
the allocator, the keys and the array to it, and `MCServices` has the components of
its own. They do not call one another. A variable says which of them a behaviour is
about; the others stay in one initial state, so the state spaces add up.

### ETasker

*Grain of atomicity.* SIGTERM may start its handler between any two
instructions of a registered thread. Every critical section a signal can
interrupt is therefore two steps, taking the mutex and doing the work before the
unlock, so that a thread can be interrupted while it owns the mutex. `run()` and
the destructor execute in the owner's thread, which no code registers or
signals: their sections are one step. The unlocked test of the queue
(`etasker.cpp:158`) is a step of its own, and so is every place where a worker
waits for a lock.

*Signals.* `pending` holds the threads with a SIGTERM under way. Delivery
(`threadSigAction`) pushes `frame`, what was interrupted, blocks SIGTERM
(`masked`, as `sigaction` without `SA_NODEFER` does) and enters
`threadTeardown(false)`. One frame is enough because a thread stays masked from
its first handler to its exit. `Unwind` is the `throw ETaskerUnWind`: it resumes
at the innermost `catch` around the interrupted point (`CatchPoints`: the catch
around `onExit`, a catch inside the task's own `run()`, the loop of
`threadContext`) or terminates the process (`aborted`) when there is none. The
handler is never left through `sigreturn`, so `masked` is not cleared. Mutexes an
interrupted section held stay held.

*Nondeterminism.* `fixed` is assigned to itself in the constructor
(`etasker.h:288`), so the member has either value; `run()` and `onExit()` return
or throw at any time; `pthread_create` and `setThreadAttributes` may fail, also
for the timer, whose result is ignored.

*Abstracted.* Tasks and thread ids are model values, seconds are a counter up to
`MaxTime`, `uint64_t` is arithmetic modulo `WordSize`. `getThreadTimeout` and
`threads()` only read. The `WYLESLIBS_ETASKER_LONGJMP` build and thread attributes
other than their failure are left out. Reading the handler map without its mutex
(`http_test/main.cpp:65`) is a data race inside `std::map`; the model reads the
map in one step.

*TaskPool* has three places for a task and the moves between them, without
threads. In the refinement (`Pool` in `ETasker`) `fresh` is the complement of
`submitted`, `queue` is the queue, and `active` the tasks some thread holds. Bounded
concurrency, first-in first-out dispatch and "no task comes back" are then one
statement, `ImplementsPool`.

### HttpRouting and HttpServer

A connection's thread is a program counter: start of the stream, parser, static
file, the loop over upgraders, dispatcher, response, the catch of `run()`,
teardown. Descriptors are numbers the kernel gives lowest first, so a closed
number names the next connection at once; what is sent or closed goes to whatever
the number names then, and `crossed` remembers who was hit. SIGTERM (`TimesOut`)
comes at any of these points, also while the thread leaves. Whether a request
parses and where it is routed are operators on a record of what the code looks
at. What the parser cuts off is kept: the method loses its last letter
(`http_types.h:92-93`), a field value its last two characters, the comparison of
protocols with upgraders uses one index for both.

The mutexes a connection's thread takes are in the model: `pool` and `handlers` of
ETasker, and `static` around the lookup of the static paths
(`http_connection_etask.cpp:86-88`). Taking one and releasing it are two steps, and
`holder` says who has it. SIGTERM between the two does what it does in the code: the
handler locks the pool's mutex first (`etasker.cpp:185`), so with that mutex held it
never returns, and with another one held it goes on and the mutex stays locked.

The tasker of the server has the limit `SIZE_MAX`, hence no queue and no
unwinding: what ETasker models of these does not occur here. Its uninitialised
`fixed` does: `onExit()` is or is not called. `setThreadTimeout` and the deadline
are `TimesOut` at any moment. Left out: texts of responses, cookies and files, socket
options, the debug-only timeout requests (`WYLESLIBS_HTTP_DEBUG`). The web sources
do not compile at this commit (order of declarations; `config.h:84`), so the model
follows their text; a moved-from stream is taken for one that is not used again.

### ConnectionTimer, FileWatcher, FileManager, SharedPointer, ETimeout

What lies between a lock and its unlock is one step; what the code does without
the mutex is a step of its own. The path that returns or throws with the mutex
locked leaves it locked in the model: `timerGetTimeout`, `initialize`, the stop
from inside a watcher, `StreamFactory::writer`. `raced`, `misuse` and
`twice` (in HttpServer) are auxiliary: they record that a behaviour took the one
way the property makes an exception for, so that the property says "nothing else
goes wrong" and not "nothing goes wrong".

In `ConnectionTimer` a node is a cell with `next`, `prev`, `live`; removing one frees
it and a later look at it is `timer_fault`. In `FileWatcher` a watcher's shared
pointer is counted (`refs`); the weak pointers behind it are locked as
`pointers.h` does it, also when the object is on its way out. Destroying a watcher
is three steps: the destructor of the derived class, which takes no mutex (`life` is
`dying`, then `base`), the unregistering in `~FileWatcher` with it, and the release of
the memory. A thread that locks the weak pointer in between (`late`) calls
`handle()` on what is left of the object, or the pure virtual function, which ends the
process (`ThreadAborts`). A stop clears `paths_wd_map`, from which `initialize` takes
the paths, so a watcher that is initialised again registers nothing. A thread of
an earlier start that passed its test of `thread_run` lives on beside the new one,
polls a descriptor that is closed or has been given again, and may block in `read()`
with the mutex. `pthread_create` is taken to succeed (its result is ignored at
`file_watcher.cpp:119`), and the watch is started only while it is stopped, as the
callers do.
`FileManager` writes one file: opening truncates, writing starts at 0 or at the
end, closing and taking the path from the list follow, and the process may be
killed between any two. In `SharedPointer` an increment is one step and the
destructor reads, writes and tests its count in three. `ETimeout` has the
SIGCHLD that comes before the handler is installed, between the handler and the
flag, during `sleep`, and after the deadline; the child may also be stopped and
continued, which sends SIGCHLD as its end does, and `taken` remembers which of the
three the handler has seen.

### EMalloc

A list is the sequence of its nodes. `index` and `block_size` are cut to
`BlockWord` (2^16), the size seen by the pop condition to `ArgWord` (2^32).
`memoryHeapPush` inserts before the first larger block; the three pop conditions
are the first position that satisfies them. `Top` is what the first node says the
size of the memory is: `DYNAMIC_MEMORY_SIZE` cut to its `uint16_t`. `lost` is an auxiliary variable: the
bytes of blocks that were popped and returned to no list, which happens when a
size of 2^32 or more is compared by its low 32 bits.

### KeyGenerator

The file is a sequence of characters or absent; conversion to and from hex digits
is modelled digit by digit because the file's readability after a crash depends
on it. Opening for writing truncates, writing is another step, and `Crash` may
come between them. `nextAsInteger()` returns `current` after the unlock, in a step
of its own. Temporaries in `HttpServer`'s constructor and in `main` flush
during startup, once or more.

### Array and List

The buffer is a function from position 0, as in the code, and a cell that nothing
was written to holds `Junk`, so an uninitialised cell that becomes an element is
visible. The loops are folds over their positions: `insertLoop` with the ring of
displaced elements, in place or into the new buffer (`Displace`), and the
bottom-up merge sort (`MergeLeft` is the loop over the left half, `MergeRest` the
loop that empties the swap space, `SortPass` the merges of one length, and `Span` the
lengths). A write past the end of a buffer is recorded in
`overrun` and has no other effect, and a read there finds no element; `SwapSlack` cells behind the swap space are
usable, as they are in a build whose allocator rounds sizes up, so that what the
sort computes can be checked although it writes there. `assigned` remembers that
an element was assigned through a reference, which `e_sorted` does not notice.
`List` has no buffers; sorting there may only rearrange, by any map of the positions
onto themselves. The element type is one
with a total order and value semantics: the specialisations for C strings are
not modelled, nor is an array inserted into itself.

### EStream, Cursor and the readers

`EStream` reads from a descriptor, whose peer sends (`Arrive`), stalls or closes
(`Close`, which is also the receive timeout of the socket), or from memory. A
`read()` that has nothing to read waits; `poll()` does not. `readEls` and
`streamCollect` are a step per refill or element, so the peer acts in the middle of
them. `Cursor` has no buffer: a position in the input, what the call in progress
has collected, and what the last one returned.

Parsers read from memory, so `ByteStream` has the same `streamCollect` as a fold
over the text, with the tasks of `reader_task.h` (collect, trim, extract, filters,
their chains) and the numbers of `byteestream.cpp`; both use the criteria of
`Criteria`. `Json`, `Records`, `Format` and `Calendar` are recursive operators over it,
each named after its function; what a function does once a call has returned is an
operator of its own that takes the result (`parseKey` hands what it extracted to
`Key`). `Reading`, `Conversions` and `Formats` make one step of each call, from a subject
that says what is to be read or was to be written, and compare with reference
definitions that are independent of the code: the characters that a chain admits, a
text without the whitespace around it, what is between two quotes, printing a tree and reading it,
digits as a number, a day count that starts in March, bits in groups of six.

## 3. Runs

Passing runs:

| run | instance | shows |
|---|---|---|
| `pool` | 3 threads, 3 tasks (one may throw), limit 2, both values of `fixed`, timer present or not, attributes may fail, no deadline reached | `TypeOK`; `TaskRunsOnce`; ETasker implements TaskPool |
| `signals` | 2 threads, 3 tasks, limit 2, attributes may fail, every deadline already passed, so SIGTERM may come at any step, repeatedly, from the timer, and once more from the destructor | `WorkersCounted`, `NoDanglingHandler`, `ExitHookRan`, `ExitHookAtMostTwice`, `DestroyedWithoutWorkers` |
| `fixed_live` | fixed pool, 2 threads, 3 tasks (two may throw), limit 2, fairness, deadlock checked | every queued task is started as long as a worker is left (`EveryTaskStarts`); the threads never block each other |
| `http` | 2 connections, 2 descriptors, 6 requests that take every way through the parser, the static files, the upgraders and the dispatcher; SIGTERM between any two steps, also with a mutex held; accept and thread creation may fail; fairness | `PeersUndisturbed`, `AnsweredOnce`, `DescriptorsAccounted`, `ConnectionsEnd` |
| `services` | timer: 2 callers, 2 connections, 2 seconds; pointers: 2 threads, 2 slots, 2 control blocks, 1 object; watcher: 2 watchers over 2 paths (one shared), 2 starts, 1 event; files: 2 writers, 3 writes, 2 buffers of different lengths; etimeout: limit 2, a command that is stopped and continued and ends with 0 or with the code of a timeout | `EveryConnectionListed`, `DueConnectionsClosed`; `OwnedExactly`; `HandledBeforeFreed`, `EventsAreRead`; `UndisturbedWriteStays`, `WritesEnd`; `ExitCodeIsTrue`, `ETimeoutEnds` |
| `library` | emalloc: 23 bytes under a size word of 16 values, so 7 are described, and arguments of 32 values, sizes on both sides of each; keys: 2 callers, 2 hex digits, crashes and restarts; array: elements 1 to 3, up to 5 of them, constructed with capacity 0, 8 or from a list; stream: buffer of 2 elements, 3 inputs of 3 to 5, read limits 4 and 3, fairness; some 18 000 inputs of reader tasks, numbers, JSON, `format()`, dates, CSV, pairs and base64 | `MemoryPartitioned`, `HeldDisjoint`, `BestFit`; `StringKeysUnique`, `FlushedKeysNotReissued`; `BufferSuffices`, `SortedIsInOrder`, Array implements List; `ReadsUpToMatch`, `CallsEnd`, EStream implements Cursor; `TasksReadTheirPart`, `NumbersReadDigits`, `DocumentsParseBack`, `MappedByType`, `FormattedAsWritten`, `DatesReadBack`, `RecordsReadBack` |

Runs that show a disagreement between the code and what the repository says of
it (`findings` quotes the lines):

| run | shows |
|---|---|
| `lost_task` | a task queued between a worker's last look at the queue (`etasker.cpp:198`) and `num_threads--` (225) is never started |
| `disabled_timeout` | `SIZE_MAX` as timeout makes the deadline wrap into the past: the connection is timed out at once |
| `destructor_hang` | SIGTERM inside a critical section of the timer leaves a mutex locked; the destructor neither returns nor throws |
| `integer_keys` | two concurrent `nextAsInteger()` return the same key |
| `sort_swap_space` | sorting three elements writes a second cell of a swap space of one |
| `json_arrays` | `[4]` is not parsed: a number right before `]` throws (`json_parser.cpp:83`, `105`) |

*Why the bounds are enough.* The interactions of ETasker are between two workers
competing for one queued task, a worker and the owner, a worker and its signal,
and the timer and the destructor. Two threads with three tasks and limit 2 have
all of them: both workers busy with one task queued, a thread id reused by the
kernel, a worker unwound and taking the next task. The `pool` run adds a third
thread so that exceeding the limit is possible. Nothing depends on a larger
clock than the one that separates "expired" from "not expired" and the wrapped
sum. The destructor of `signals` polls once (`TeardownTimeout` = 0): the poll may
happen at any time, so more of them only delay the outcome. Tasks that
throw are in `pool` and `fixed_live`; together with SIGTERM they make too many states,
and the theorems of section 4 have both.

In `http` a descriptor is crossed by one connection that closed it and one that
has it now: two connections and two numbers have both that and the case where the
process runs out of them. The six requests differ in what the code branches on
(method with and without its lost letter, a static path with and without a body,
multipart form data, 1 and 2 protocols offered to the upgraders, key missing or not). In `services` every exchange is between two
parties; a list of two nodes has removal at both ends and of the only node; one
object behind two control blocks is what a cast makes; the second start of the
watcher is what lets a thread of the first live on; of three writes two may
overlap and one follow.

In EMalloc the 7 bytes of the first node (the memory has 23, and the node's size
word 16 values, so that the cut is met) allow three used blocks between free ones, hence a
join on the left and a neighbour on the right that stays separate. In KeyGenerator
2 digits make the carry between digits and the letters A-F reachable through
`FirstKeys`. Five elements give the sort runs of 1, 2 and 4 with right halves that
are complete, partial and missing, three values give ties and both orders, and
the capacities pass through every reallocation between 0 and 8 cells, in place and
not. A stream's buffer of 2 ends in the middle of every input, before and behind
the match. The texts of the readers are all texts over a small alphabet up to 3 to 6
characters; the documents are all trees of up to two members with every leaf
type, nested, one level deeper than `MAX_JSON_DEPTH` = 1, whole, closed with the wrong
bracket, and cut at every position; strings with an escape stand alone or before
`null`.

`CHECK_DEADLOCK FALSE` is said where the system may stop: the owner submits
finitely many tasks, clients make finitely many connections, a conversion ends,
the process was terminated. `fixed_live` does check deadlock.

The type invariants of the modules other than ETasker (`HttpTypeOK`, `TimerTypeOK`,
`EStreamTypeOK`, ...) hold in these instances too; the runs leave them out because
they say nothing about a hazard; section 4 proves several of them.

*Properties with an exception.* Some of the code loses a mutex, a node or an
object on a known path. The property then excepts that path by an auxiliary
variable or by the lost mutex itself, and what it shows is that the path is the
only one: `DueConnectionsClosed` (getter, two first connections), `EventsAreRead`
(mutex lost, watch stopped), `WritesEnd` (a writer that threw), `OwnedExactly`
(assignments, moves, concurrent destructors, expired locks), `PeersUndisturbed`
(SIGTERM between the own `close()` and the end of the thread), `ConnectionsEnd` (who waits
for a mutex that SIGTERM left locked; the accept whose thread could not be created, the
pool that took itself for fixed and the upgraded connection are excepted, too),
`HandledBeforeFreed` (a watcher whose weak pointer was locked when its destructor had
begun), `ExitCodeIsTrue` (a stop or continuation that was taken for the end),
`EveryTaskStarts` (a fixed pool without a worker).

*What is not claimed.* Where the code and a test, a comment or a parameter of the
repository disagree, a passing property says nothing of the case, neither that it is
as the code has it nor as the text does: writes with `append`, numbers below a CSV header,
records with an empty last field, what a case modifier makes of its text, what an
escape in a JSON string stands for, a number right before the `]` of its array
(the run `json_arrays`), an object closed with `]`, and a quote that the character a read
is up to stands in. Section 5 says what the code does there.

*Fairness.* ETasker (`FairSpec`): a runnable thread is scheduled, and tasks' `run()`
and `onExit()` return: the property is about the pool, not about tasks. Lock
acquisition is strongly fair: the only thread that takes the mutex for ever is
the timer, which sleeps four seconds between two scans. The clock advances, a
pending SIGTERM is delivered, and an owner already in the destructor goes on.
Nothing is assumed about calls of `run()` or `setThreadTimeout`, and a task may throw: in
a fixed pool that ends its worker, which no one replaces, so `EveryTaskStarts`
speaks of pools that have a worker.
HttpServer: the listener and each connection's thread are scheduled; a read ends
because the sockets have a receive timeout (`server_connection_etask.cpp:58-63`);
an upgrader may keep its connection for ever, and SIGTERM may never come.
ConnectionTimer: the timer thread passes over its list and the clock advances; a
pass needs the mutex, which others hold for one step. FileWatcher and FileManager:
strong fairness of a thread that waits for a mutex others release again. ETimeout:
the parent runs and a pending SIGCHLD is delivered; the child may stop for ever or never end.
EStream: the reader runs, and a peer that stalls meets the receive timeout.

## 4. Proofs

Each theorem is `Spec => []property` (or a property of steps, or a refinement) for
every value of the constants that satisfies the named assumption of its module,
and for behaviours of any length. The three about EpochTime are facts about its operators,
which have no state.

| theorem | of | property |
|---|---|---|
| `TypeCorrect` | ETasker | `TypeOK` |
| `ThreadAccounting` | | `WorkersCounted`: `num_threads` is the number of live workers, within the limit |
| `HandlersNeverDangle` | | `NoDanglingHandler` |
| `DestructorWaits` | | `DestroyedWithoutWorkers` |
| `EachTaskOnce` | | `TaskRunsOnce` |
| `ExitHookAlwaysRuns`, `NoThirdExitHook` | | `ExitHookRan`, `ExitHookAtMostTwice` |
| `ETaskerImplementsPool` | | `ImplementsPool`: the refinement of TaskPool |
| `NobodyCrossed` | HttpServer | `PeersUndisturbed` |
| `EveryoneAnswered` | | `AnsweredOnce` |
| `NoDescriptorLost` | | `DescriptorsAccounted` |
| `NeverHandledFreed` | FileWatcher | `HandledBeforeFreed` |
| `ListStaysAList` | ConnectionTimer | `EveryConnectionListed` |
| `WriteStays` | FileManager | `UndisturbedWriteStays` |
| `ExitCodeTells` | ETimeout | `ExitCodeIsTrue` |
| `ObjectsOwnedExactly` | SharedPointer | `OwnedExactly` |
| `NoByteTwice` | EMalloc | `HeldDisjoint` |
| `EveryByteIsSomewhere` | | `MemoryPartitioned`, for every size of the memory |
| `SmallestBlockIsTaken` | | `BestFit`, a property of steps |
| `KeysNeverRepeat` | KeyGenerator | `StringKeysUnique`, if `NoWrap` |
| `FlushedKeysStay` | | `FlushedKeysNotReissued`, a property of steps, if `NoWrap` |
| `StreamIsACursor` | EStream | `ImplementsCursor`: the refinement of Cursor |
| `EveryCallReadsUpToItsEnd` | | `ReadsUpToMatch` |
| `NumbersReadDigitsAlways` | Reading | `NumbersReadDigits` |
| `TasksReadTheirPartAlways` | | `TasksReadTheirPart` |
| `ClockTellsTheDate` | EpochTime | every second until 2037 becomes a date that exists, whose seconds are that second |
| `SecondsAreCivil` | | the seconds of a date are those of the calendar that begins in March |
| `DatesComeBack` | | a date that is read and written again is the same |
| `BufferAlwaysSuffices` | Array | `BufferSuffices` |
| `SortedAlwaysInOrder` | | `SortedIsInOrder`, while `SwapReaches` |
| `ArrayImplementsList` | | `ImplementsList`: the refinement of List, while `SwapReaches` |

The type invariants of HttpServer, FileWatcher, ConnectionTimer, EMalloc, EStream and
Array are proved on the way (`ServerTypesHold`, `WatchTypesHold`, `TimerTypesHold`,
`HeapTypesHold`, `StreamTypesHold`, `ArrayTypesAlways`).

*Assumptions.* Special values are not ordinary ones (`NoConnection` is no connection,
`NoFile` no content, `None` no slot), the threads of ETasker, the slots and the callers
of the key generator are finite sets, inputs and buffers are sequences, and
numbers are in range. The texts of Reading are sequences of characters of any length,
and its tasks have the shapes that their names stand for (`TaskSubject`): a
call includes its until characters or reads a size that is not zero, a chain changes case in one link at most and
its refusals are all strict or none is, and an exact match is alone, in a call for as
many characters as it has. Some theorems have a hypothesis of their own.
`NoWrap`: no stored counter is within the calls of 2^64,
after which keys do repeat. `SwapReaches`, a condition on the state: no merge has
written past its swap space so far, or as many usable cells follow it as an array
has elements. The code makes neither sure (finding `SwapSpaceSuffices`), and what a
sort leaves is not determined otherwise; the first holds of every behaviour until a
sort goes wrong. `BufferSuffices` needs no such condition.

*ETasker.* None of the properties is inductive by itself. The count needs to know that
`ExitThread` is reached by live workers only, which `TypeOK` and the program
counters give; `NoDanglingHandler` needs `LifeCycle`, which ties the two maps to
the locations of a worker: registered exactly from `RegisterHandler` to
`EraseHandler`, in the pool exactly from `Enroll` to `ExitThread`, and signalled only
while in the pool. The last conjunct is what makes SIGTERM harmless to the
count: a signal moves a worker only between locations in which it is live.
`TaskRunsOnce`, written without abbreviations as `Exclusive`, needs `Ownership`: a worker that is looking for a task holds none, a
task held before `run()` was never run, and everything held or queued was
submitted. Each conjunct is inductive relative to the ones before it, with one step per
action; `Places` is `Exclusive /\ Ownership`. The destructor's theorem adds
`DestroyedEmpty`, that after "destroyed" nothing starts a worker, and the
refinement that `Cardinality(Active) <= num_threads`, so a free slot among the
threads is a free slot among the tasks. A third `onExit()` is excluded by
`HookCount`: the entries made for a held task are at most one for the place its
worker is at and one for being masked, and a masked worker is not signalled.
`HookDone` says that a worker past its `onExit()` has run it; only such a worker
gives its task up.

*HttpServer.* `ServerInv`: as long as no thread has closed twice, a descriptor names
the connection that has it and each connection from `offered` to its `close()` finds
itself under its descriptor (`Accounted`), so what it sends or closes is its own; and
the replies of a connection tell where it is (`Answered`). Closing takes the
connection out of both directions at once, which is why a SIGTERM behind it, whose
teardown closes again, is the only way out.

*FileWatcher.* `WatchInv`: a registered watcher still has its memory, because its
destructor unregisters its own paths with the mutex (`RegisteredAlive`), and a thread in
`handle()` that locked a living watcher holds a count of its own (`Counted`), so the owner's
release is not the last; one that locked a dying watcher is in `late` and has the
mutex, for which `~FileWatcher` waits. `RegisteredAlive` speaks of a destructor that can get the mutex: one that waits for a
mutex that was never unlocked stays in its destructor, and the memory stays too.

*ConnectionTimer.* `TimerInv`: unless an addition was raced there is a sequence of
different nodes that `start` and the links of both directions spell; `end` is its last
one, except while the first addition has set `start` only, and the live nodes are those
of the sequence and one for each addition that has not linked its own (`Spells`, `Lives`).
`ForwardChain` and `BackwardChain` say that the walks meet this sequence, `RemovalSpells`
that a removal takes one node out of it wherever it is, and `PassKeeps` that a pass,
a fold of removals along the sequence it started with, never meets a node that has
left the list.

*FileManager, ETimeout.* `CleanWrite` and `ETimeoutInv` say of each point between
opening and removal, and between arming and exit, what the file holds (of writes that
are not to append) and what was seen of the child: as long as only ends were handled,
a signal seen is one of a child that has ended.

*SharedPointer.* `Counts` relates a counter to the slots it still counts: those that
hold a pointer on it, less those whose destructor has written the count and not
tested it. Under assignments a count may only be too large (`Counts` has an
inequality then), which leaks and does not free too early.

*EMalloc.* `HeapInv`: both lists hold blocks of the memory, the freed list in the order of
sizes, no two of a list share a byte, and the used list is what callers hold.
Lemmas say what a list is after an insertion, a removal, a split and a join, and
what the search for a position returns, for lists of any length. `Accounted` adds
that exactly the `lost` bytes are in no list.

*KeyGenerator.* `KeyInv`: there is a start such that the counter in memory and the
one in the file are not further from it than there were calls; the counter of a
running server is past every key that was returned, and every counter is past
`durable`; an empty file is one that is being rewritten. It rests on `ReadBack`: what
`valToHexCharArray` writes, `refresh()` reads as the same number, for every width.

*EStream.* `StreamInv` says that the buffer holds the elements of the input taken
last and that the position is what was taken less what is left of it; a refill, an
`unget` and each step of a call then are steps of the cursor or stutter. `Collected`
and `Judged` add that what a call has collected is the input from its start on and
that its criteria have seen every match in it.

*Reading.* Each call is one step, so the invariant only says that the outcome is what
the call returns, of a task that may not have been initialised; the proof is about the
operators of `ByteStream`, for texts of any length. A call is a fold over the text and a
task's `perform` a fold over its links, so each is first given its run: `g[k]`, what the
call has come to after `k` characters (`CollectRun`, `TaskRun`), and what the character and
the verdict are behind `k` links. Then each sink has an invariant along the run: the
collector holds the admitted characters in their order (`Kept`), the trimmer the
words so far and the whitespace behind them, unless a gap found whitespace that an
earlier flush has left (`Trims`, `Cleanly`), the extractor is before, inside or behind
its quotes or has failed (`Extracts`), and an exact match has counted as many characters as it has let
through. A read that has flushed no whitespace leaves `r_trim` empty (`TrimTaskLeaves`),
and one that matched leaves a count of zero (`ExactTask`), which is why the second read with a task is as
good as the first. Behind filters a trimmer or an extractor sees only some of the
characters: its invariant holds along what the chain lets through (`Through`), which is
a run of its own, and a character that the chain drops leaves the task as it is. Nothing
initialises such a task, so the statement is about one that is as new; an extractor
becomes so by its own flush.

*EpochTime.* `RunningIs`: the running seconds of a month, a fold over a table, are
those of the days before it; `LeapYearsUpto`: both counts of leap years are divisions by four, until 2037.
`InYear`, `InMonth` and `InDay` name what is left of a second at each level. `YearIs`,
`MonthIs` and `DayIs` say that the clock finds such a level, `OneYear`, `OneMonth` and `OneTime` that
there is no other. The end is where the code's own arithmetic
ends: the seconds of a later year exceed an `int` (`ecal.cpp:222`). The run `library` checks on the texts
of dates what `DatesReadBack` says of them with the same `IsDate` and `CivilSeconds`; the text itself
is written by recursion and out of the prover's reach.

*Array.* `SafeInv`: the size is within the capacity and bounded, and `overrun` holds at
most the swap space (`Shaped`, `Flags`, proved without any condition); while
`SwapReaches`, the cells below the size hold elements and those behind none (`Clean`), and the
elements are in the order `e_sorted` names (`OrderInv`). Each operation is first
described by a lemma on cells: `InsertDoes` (the ring of displaced elements hands every
element on by the number inserted, for any number, in place or into a new
buffer), `RemoveDoes`, `SortDoes`, `AssignDoes`. `SortResult` is the proof of the sort.
`MergeState` says that before each iteration of a merge the
cells in place are the smallest of both runs in order, and that the swap space holds
what was moved out of the left run, first in first out; `PassState` that the pairs
of runs behind a pass are merged and those before it are as they were, and `SpanState` that
all runs of the current length are in order. The elements stay the same ones up to a
rearrangement (`Rearranged`), which the refinement needs. The condition on the swap
space enters in `MergeStepState` alone: what was used only grows along each loop
(`Climbs`), so a sort whose end has not exceeded the room never did.

*Induction over data.* The library's induction theorems cannot be used here, since
they take an operator. `SetInduction` states induction for a set of naturals,
`Recursion` and `FoldExists` derive from it that a recursive function and a fold have
the values their definitions suggest. The digits of a key, the walks along the
timer's list and its pass, the calls of a reader, and the loops of insertion, merge and
sort are proved this way.

Only model-checked: liveness (`EveryTaskStarts`, `ConnectionsEnd`, `DueConnectionsClosed`,
`EventsAreRead`, `WritesEnd`, `ETimeoutEnds`, `CallsEnd`), which is outside the prover's
reach; what the recursive operators of `Json`, `Records`, `Format` and what extends them compute
(`DocumentsParseBack`, `MappedByType`, `FormattedAsWritten`, `DatesReadBack`, `RecordsReadBack`),
whose modules the prover cannot load. In the run `library`, `Reading`'s steps are some of the steps of
`Formats`, which neither prepare nor follow them. Every other
property of a passing run is stated by a theorem.

## 5. Observations without a run

ETasker:

 - A task that throws in a fixed pool ends its worker (`etasker.cpp:148`), which leaves
   without a look at the queue (`198`), and nothing starts another before the next
   `run()`: the pool shrinks, and tasks that are queued when the last worker is gone are
   stranded. `EveryTaskStarts` excepts a pool without a worker.
 - SIGTERM that reaches a worker outside the `try` block of its loop, with tasks
   queued, ends the process: nothing catches `ETaskerUnWind` (`etasker.cpp:148`, `209`).
   In the model `aborted`.
 - A worker that SIGTERM interrupts in one of its own critical sections waits in
   its handler for the mutex it owns (`etasker.cpp:185`) and stays counted.
 - A tasker destroyed within a second of its construction returns while its
   timer thread, not registered yet (`etasker.h:258`), lives on.
 - A throw of `setThreadAttributes` leaves `run()` with the mutex locked.
 - `setThreadTimeout` from a thread outside the pool throws from `at()` with the
   mutex locked; only workers call it.
 - A worker that was unwound out of the SIGTERM handler keeps SIGTERM blocked, so
   its next task cannot be timed out; `etasker.cpp:208` says that unblocking is not
   needed. In the model `masked` survives `Unwind`.

Web:

 - SIGTERM between lock and unlock. With the pool's mutex held (`etasker.cpp:185-187`,
   `197-212`, `219-226`) the thread's own handler waits for it for ever at line 185, and
   so does everyone else; with the handlers' mutex held the handler's `onExit` runs and a
   later lock blocks (`214`); the mutex of the static paths (`http_connection_etask.cpp:86-88`)
   stays locked, and every later request waits there. `ConnectionsEnd` excepts those who
   wait. Locks inside the C library, in streams and in the file manager, which SIGTERM
   may leave locked in the same way, are not modelled.
 - A plain `GET` of a static file is answered with 500, since the method has lost
   its last letter (`http_types.h:92-93`); `http_server_test.cpp:102` expects
   "HTTP/1.1 200\n".
 - The path of a registered item is compared with `backwards_path`, which the
   parser never sets.

Memory and data structures:

 - `DYNAMIC_MEMORY_SIZE` defaults to 65536, which is 0 in the `uint16_t` block size
   (`emalloc.c:26`): nothing can be allocated. With `BlockWord = MemorySize`
   no byte is described and `Top` is 0. `efree` joins a block only with the
   free block before it.
 - `sort()` after an assignment through a reference does nothing when `e_sorted`
   already names the order. The move constructor of `SharedArray` swaps with an
   uninitialised control block, and its `operator=` leaks.

Files and processes:

 - `FileManager::write(..., append = true)` leaves only the new buffer: `writer()` opens
   the file with `out` alone, which truncates it (`stream_factory.cpp:56`), before the write
   seeks to its end (`file.h:52`, `io.h:36-40`). The test of it is commented out (`lib/test/file_manager_test.cpp:72-82`).
   `UndisturbedWriteStays` does not speak of such writes.
 - A `FileWatcher` that is being destroyed stays registered until `~FileWatcher` has the
   mutex (`file_watcher.cpp:31`), when the members of the derived class are gone and `handle`
   is pure virtual (`file_watcher.h:25`); an event of that time is handled by what is left, or
   ends the process.
 - After `fileWatcherThreadStop` a second `initialize` registers nothing, because the stop has
   cleared the map of paths it would walk (`file_watcher.cpp:130`).
 - etimeout's handler takes any SIGCHLD for the end of the child (`main.cpp:100-105`), and
   `sigaction` (`156`) does not set `SA_NOCLDSTOP`: when the child is stopped or continued
   etimeout ends at once with that signal's number as its code, although the comment at
   `main.cpp:179` says "process terminated normally".
 - A server killed between truncating and writing the key file does not start
   again until the file is removed.
 - `FileWatcher`'s constructor builds the exception about a missing thread and does
   not throw it (`file_watcher.cpp:21`).

Streams and readers:

 - `read(until)` throws at the end of a closed input although it is complete, which
   the comment at `estream.h:351` does not intend; so does a match that is the last
   element of the limit. A peer that is merely slow makes a stream bad for ever.
 - A number at the very end of a text throws. An exact filter's counter survives a
   throw, and its early end is undone by the next element; `r_trim` is never cleared.
   A chain does not initialise the task behind it (`reader_task.h:73`), so a trimmer or an extractor there
   starts with whatever is in its members, and a trimmer keeps what the read before left in
   it: its second read is not claimed. `r_trim` is cleared by the size of another array
   (`reader_task.h:216`): whitespace inside a text that was trimmed once may come back in the next
   read. What an extractor does with a quote that an until character stands in is left open by
   the code (TODO at `reader_task.h:312-313`, `estream_test.cpp:923`).
 - JSON: negative numbers, numbers with `+` and exponents throw, an object that is
   closed with `]` reads for ever (`json_parser.cpp:395`), `{"a":,"b":1 }`
   shifts values to other keys, garbage behind the `}` of an object in an array is
   skipped, the backslash of an escape is kept and so is what it stands for, unicode is
   dropped, the string `"\\"` does not end at its quote, strings that are too long are cut,
   depth 7 passes and reads `spacing[7]` of 7 (`json_mix.h:18`, `json_object.cpp:47`).
 - `format()`: the case modifiers drop nearly everything ("{su}" of "LmAo" gives ""
   where `string_format_test.cpp:804-812` expects "LMAO" and "lmao"); numbers cut to a width with zeros
   inside come out too long (`string_utils.h:144`); a second pass reads the text of
   the arguments again (`string_format.cpp:445`); a throw leaks the arguments.
 - Calendar: `getZonedEpochTime` adds 3600 times the offset as written, so +5:30 adds
   530 hours (`etime.cpp:136`); +9:30 overflows 16 bits (`ecal.cpp:153`, `187`); offsets with
   two digits of hours are refused or misread; seconds of years past 2038 overflow
   (`ecal.cpp:222`); February 31 is read.
 - CSV: a separator inside quotes splits (`csv.h:96`), a carriage return behind a
   closing quote throws (`csv.h:147`), numbers below a header: the header is read into
   row 0 and written over, where `csv_test.cpp:53-74` expects a header and all rows; a record
   with an empty last field is read with it, where `csv_test.cpp:181-198` expects "1:1," to be
   an invalid record. Key-value: a value that a line end ends where the delimiter is another is
   dropped (`parse.cpp:44`), and `=` is fixed (`parse.cpp:38`).

## 6. Not modelled, and why

 - Multipart form data and byte ranges, `MatrixVector` and the rest of
   `datastructures.h`, `algo`: do not compile at this commit (redeclared members, shared
   include guards, missing functions), and the text does not determine what they
   would do. The rows of CSV, which `MatrixVector` would hold, are modelled as keeping
   what is assigned.
 - Writing JSON (`toJsonString`, pretty printing), `removeNode`, `JsonObject::find`: left out;
   `find` indexes `keys[SIZE_MAX]` for a missing key (`json_object.h:45`).
 - `floatToString`: it rounds doubles, which TLC does not have.
 - Years past 2037: their seconds exceed TLC's integers.
 - The TLS stream, the HTTP client, the cloud file managers: wrappers of external
   libraries. The V4 and V7 key generators: random words and the clock.
   `RingIndex`: nothing uses it. Logging and paths: wording.
 - The C predecessors of the array, the reader and the server: only their own
   example uses them. (`c/reader.c` skips byte 0 behind a refill; `array_insert`
   and `array_remove` do not update the size.)
 - The language experiments, build files and vendored code.

## 7. Plan

Proofs next: the texts of dates and the records, once their recursion is written as
recursive functions, and a bound on what the merges use of the swap
space, which would tell the sizes for which it is large enough. Each module keeps
recursion out (folds and recursive functions), except `Json`, `Records`, `Format` and
what extends them, which only TLC's runs use.
