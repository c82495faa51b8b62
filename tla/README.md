# Icee: specification and proofs

Icee is a C++17 network library (`src/src/core`, `src/src/include/core`) with an
asynchronous logger (`src/src/log`), an HTTP server (`src/src/http`) and an echo demo
(`src/simple_demo`) on top. This directory models it in TLA+, checks the models with TLC
and proves their safety with TLAPS. The build that is modelled is the one that
compiles: the kqueue branch of `core/poller.cc`, with assertions on.

## Inventory

| Part | State | Operations | Interacts with | Hard because |
|---|---|---|---|---|
| `EventLooper` | `connections_`, `latch_`, `exit_`, its `Poller` | `loop`, `AddAcceptor`, `AddConnection`, `DeleteConnection`, `SetExit` | listener adds, own thread polls and deletes | registration precedes insertion; raw pointers in a vector; descriptor reuse |
| `Poller` | the kqueue | `AddConnection`, `Poll` | kernel | edge triggering, bounded batches |
| `Acceptor` | the listening connection, the reactors | `BaseAcceptCallback`, custom callbacks | runs in the listener's loop | blocking accept, descriptor exhaustion, no reactor at all |
| `Connection` | socket, two buffers, owner, callback | `Recv`, `Send`, `FindAndPopTill` | owned by a looper's map | deleted from inside its own callback; cuts of the stream, partial sends |
| `Socket` | a descriptor | create, bind, connect, listen, accept, move, close | the kernel's descriptor table | close frees a number at once; a failure leaves the descriptor |
| `NetAddress` | the bytes of a `sockaddr` | construct, read back | `Socket` | byte order, two layouts in one object |
| `Cache` | map + LRU list, `shared_mutex` | `TryLoad`, `TryInsert`, `Clear` | every reactor's HTTP handler | a load writes under the shared lock |
| `ThreadSafeQueue` | FIFO, mutex, condition | `Push`, `TryPop`, `WaitAndPop` | the pool | lost wake-ups |
| `ThreadPool`, `Joiner` | threads, queue, `done_` | constructor, `submit`, `worker_thread`, destructor | runs the reactors' loops | destruction while workers run |
| `IceeServer` | listener, reactors, pool, acceptor | constructor, `OnAccept`, `OnHandle`, `Begin`, destructor | all of the above | start and stop order, failures half way |
| `Logger` | two buffers, `done_`, `last_flush_` | `DoLog`, `LogWrite`, destructor | every thread | time threshold, swap, exit, truncation |
| HTTP handler | none of its own | `ParseHttpRequest` | connection, cache, file system | pipelining, early returns, stale data |
| Request, Response, Header, utilities, `Buffer` | strings | parse, serialise | handler | boundary cases of splitting and joining |
| Echo server and client | buffers | echo; type, send, receive | connection | a client that receives once per send |

PROJECT.json lists the hazards at their lines, with the properties that would catch them.

## Modules

| Module | Models |
|---|---|
| `Reactor` | listener thread, acceptor, reactors, pollers, ownership of connections, clients and kernel |
| `Service` | what the reactor core promises an application; `Reactor` implements it |
| `ThreadPool` | `core/threadPool.h`, `core/joiner.h` |
| `IceeServer` | `core/icee_server.h` and `main()`: `Reactor` and `ThreadPool` composed, from the arguments to the destructor |
| `Socket`, `NetAddress` | `core/socket.cc` over a descriptor table that other code uses too; `core/net_address.cc` |
| `Stream`, `HttpText` | bytes of one connection through `Recv`, the buffers, a handler and `Send`; the text functions on characters |
| `HttpHandler` | `ParseHttpRequest` with the request parser, the response, `FindAndPopTill` and `Send` it calls, over the cache of `LRU` |
| `Cache` | `core/cache.cc` pointer by pointer where the lock is shared |
| `LRU` | the abstract cache that `Cache` implements |
| `ThreadSafeQueue` | `core/threadSafeQueue.h` |
| `Logger` | `log/logger.cc` |
| `ServerProofs` | the theorems about `Reactor`, its refinement of `Service`, and `IceeServer` |
| `CacheProofs`, `QueueProofs`, `LoggerProofs`, `SocketProofs`, `StreamProofs`, `HttpProofs` | the theorems about the module each is named after |
| `Lemmas` | facts about sequences, induction and finite sums that several of them use |
| `MC*` | the same modules for TLC, with the symmetry that is sound |

Besides the specification, a module defines a few variants of its actions, each under a
comment that says what it gets wrong. They are not part of `Next`: each stands for a
plausible slip in the code and is used to confirm that a property notices it.

### Reactor and Service

`Conns` are client sockets and the `Connection` objects made for them, `Fds` the descriptor
numbers, `Loopers` the reactors. The kernel's side is `sock`, `inbuf`, `eof`, `edge`
(an active EV_CLEAR event), `knote` (the kqueue a socket is registered with) and `fdTable`;
the program's side `heap`, `connFd`, `owner`, `connections`, `latch` and `exit`. The listener
goes through `poll`, `accept`, `lock`, `register`, `insert`; a reactor through `top`, `poll`,
`run`, `recv`, `serve`, `delete`, `erase`, `destroy`, `unlock`. A step boundary is wherever
another thread can see a difference: before and after a lock, between the registration
(`AddRegister`) and the insertion (`AddInsert`), between unlinking a map entry
(`DeleteFind`) and closing its descriptor (`DeleteDestroy`). `ServeKeep` and `ServeClose`
are the handler's part after `Recv`: what it computes is left out, whether it deletes its
connection is not. A client connects once; a reconnect is a fresh client.

`Service` has no descriptors, maps, latches or kqueues: a client is away, waiting, served or
gone; it is given to one thread for good; a thread runs the handler of one of its own
clients at a time; only that handler lets the client go. The mapping takes a client's state
from `sock`, its thread from `owner`, and a thread's client from `cur` until the object is
destroyed (`ServiceState`, `ServiceBusy`).

### IceeServer and ThreadPool

The owner (`spc`) parses its arguments, builds the pool thread by thread, makes as many
reactors as there are threads, submits their loops, builds the acceptor, adds it to the
listener and is ready; it may set callbacks, begin, and go out of scope. Each of these may
fail: a thread that cannot be made, no kqueue (the process exits), a bind that throws, a
missing handler. An exception either unwinds the members or, uncaught, ends the process:
the language leaves this open and the model takes both. Reactors step only while a worker of the pool is
inside their loop (`Loop`), the listener only while the owner is inside `Begin` (`Serve`).
With no reactor, the first accepted client divides by zero (`AcceptNowhere`). `SetExit` is
called only by the application. It can reach a reactor through a connection that a callback was
given, and keep that pointer after the connection is gone (`HandedOut`, `ApplicationExits`); it
can reach the listener as its accept callback returns (`Serve`) or from another thread at any time,
also while the listener sleeps in `accept()` (`ListenerExits`). Threads and loopers that have done
nothing yet are interchangeable, so the constructors take one of them (`Pick`). Destruction joins the pool first and then drops listener, acceptor and reactors with what their maps hold.

### Socket and NetAddress

`table` says which open file a number names; other code of the process opens and closes files
too, so a stale number may come to name somebody else's file. `mine` remembers the file an object
is entitled to. `Adopt` is `Socket(int)` with any number, open or not. A move assignment onto
an open socket, which `test/core/socket_test.cc:25` does, closes the old descriptor and leaves its
number in the moved-from object. That does no harm until the kernel gives the number out again,
which `aliased` records: from then on two owners may have one descriptor. `NewAddress` lays an address out in words of four bytes, as the constructor
does: a sockaddr_in6 overlaps `addr_len_`, and a socket call fails unless the length it then
reads is right. `SetReusable` has its assertion on descriptor 1 and does not throw.

### Stream and HttpText

The client's bytes pass two kernel buffers of any filling; `Recv` reads up to `TempBufSize` at
a time until there is nothing left; `Send` gives the kernel any part that fits. Behind them is
the echo handler with its client or the HTTP handler's loop over `FindAndPopTill`. `HttpText`
holds `Find`, `Split`, `Join`, `Header` and `FindAndPopTill` as pure functions; the
properties compare them with reference definitions on every text sent.

### HttpHandler

One call of `ParseHttpRequest` after another on each reactor. `RunCallback`
stands for the reactor (an event that `Reactor` shows is never lost is `pending`); `pc` follows
the handler: `recv`, `parse`, `exists`, `make`, `fileSize`, `tryLoad`, `serialize`,
`loadFile`, `tryInsert`, `send`, `next`, `delete`. Its locals are the record `frame`. The
steps are cut where the file system, a client or another reactor can come in: the file is
looked up up to five times for one request (`IsFileExist` twice, `FileSize`, `LoadFile` from
`Serialize` and again for the cache), and each of them sees what is there then. What ends the
process is `down`, the looper it happened on: `exists()` throws on a path it cannot look up
(`Unknown`: too long a name, no permission, a loop of links), `file_size` throws on a directory, an
assertion fails when a file was removed or its stream does not open (at any `LoadFile`, for want
of a descriptor or of permission), and a write to a connection that was reset raises SIGPIPE, which
nothing ignores. `Survives` lists these and no others; `seen` is history, what the first look
found. The `Connection` header is `close`, set from `should_close` where the response is made;
`noMore` is `no_more_parse`, set elsewhere, and decides what happens: `CloseIsAnnounced` compares
the two. The cache is `LRU`, whose `Load` and `Insert` are taken as they are: `Cache` implements
them with one loading thread. Where two reactors have a hit at the same time nothing is known any
more (`Racing`), and `down` may be set; this needs two reactors, so it is met by the theorems and not
by the run. Byte streams are sequences of fragments, which is justified by
`Stream`: what `FindAndPopTill` returns does not depend on the cuts (`FramesAreExact`) and is a
text with one terminator, at its end (`PoppedIsARequest`). The lengths of request and header
lines in tokens decide validity, as in the code; keywords have several spellings that
`Format` makes equal. The Content-Type comes from what follows the last dot of the whole
path, as in the code (`Suffix`, `TypeOf`).

### Cache

Only `mapping_` owns nodes, so a node is named after its identifier. `TryLoad` takes ten
steps: find, read both links, two writes, read the tail, two links of its own, two outer
links, unlock. `TryInsert` runs under the exclusive lock, one step per eviction. `ToInt` is the
conversion of a size to `int`. `Clear` takes no lock and nobody calls it; it is modelled for
a caller that is alone. `Readers` and `Writers` say which threads call what. `ListMatchesMap`
asks for one sequence of the cached identifiers, each once, that the links follow from dummy to
dummy in both directions (`Linked`).

### ThreadSafeQueue, Logger

Every critical section is a step. A waiting thread is blocked, then notified, then runs with
the mutex; spurious wake-ups are allowed and never relied on. In
`Logger` time is one bit, `stale`: more than the threshold since the last flush. `~Logger`
acts without the latch, so the background thread's test (`FlushTest`) and its sleep
(`FlushWait`) are two steps; producers cannot come between them, the destructor can. A flush
opens the file, which truncates it on the same day, and writes outside the latch.

## Runs

| Run | Checks | Result |
|---|---|---|
| `reactor` | `NoUseAfterFree`, `DeletesItsOwn`, `OneHolder`, `OneThreadPerConnection`, `NoLostEdge`, `AcceptedIsKept`, `ReactorInv`, `ImplementsService` | holds |
| `server` | `RunsOnce`, `MembersOutliveThreads`, `NothingLeaks`, `DestructorReturns`, `EveryLoopRuns`, `DataIsRead`, `EofReleases`, `ExitStops`, `ClientsAccepted` | holds |
| `socket` | `HeldIsMine`, `NoLeak`, `AtItsAddress` | holds, `HeldIsMine` until a file gets a number that a Socket still holds |
| `stream` | `StreamKept`, `FramesAreExact`, `PoppedIsARequest`, `SplitIsExact`, `EchoArrives` | holds |
| `http` | `AnsweredInOrder`, `NothingStranded`, `CloseIsAnnounced`, `Framed`, `Survives`, `Served` | holds |
| `http_head` | `HeadHasNoBody` | violated: a cached body is sent in answer to HEAD |
| `cache` | `ListMatchesMap`, `WithinCapacity`, `ImplementsLRU`, `HoldersFinish` | holds with one loading thread |
| `cache_two_loaders` | `ListMatchesMap` | violated: two concurrent hits corrupt the list |
| `queue` | `FifoOnce`, `NoLostWakeup`, `SleepersServed` | holds |
| `logger` | `InOrderOnce`, `FullIsFlushed` | holds |
| `logger_timer` | `EveryEntryFlushed` | violated: the interval alone wakes nobody |
| `logger_exit` | `DestructorReturns` | violated: the notification can come before the sleep |

Bounds. `reactor`: three clients on two descriptor numbers, so numbers are reused while the
third client comes in, and two reactors, so a connection could be mishandled by another one;
batches of two, one unread chunk each. `server`: two threads at most, so that there are none,
one or two reactors. With up to one reactor there are two clients and one descriptor, so that a client
waits while `accept()` has no descriptor to give, or comes to a listener that sleeps in `accept()`
because the one before it reset; with two reactors there is one client (`MaxClients`). Two
unread chunks, because the loop of `Recv` matters; the other interleavings of several clients are
those of `reactor`. `socket`: two objects and three descriptors, so numbers are closed and given out
again, one address of each kind. `stream`: four pieces of text out of which up to four terminators arise, whole or in parts, and
eight bytes typed; every buffer holds two bytes, so each of them is cut and filled. `http`: two
requests out of ten kinds, for a path that cannot be looked up too, and one change of a file (`Becomes` says into what), with a send buffer smaller than a
response and a cache that holds one of two files: a hit, an eviction, a batch of two and every
early return occur. `cache`: three identifiers of sizes 0, 1, 2 and one too large, capacity
3, so that an insertion evicts none, one or two entries or is refused. `queue`: three
consumers, four values. `logger`: two producers, a threshold of two and five entries, so
several batches pass and both thresholds fire. `MaxInbuf`, `MaxEntries`, `MaxAsked`,
`MaxEdits`, `MaxPieces`, `MaxTyped`, `MaxClients` and `Becomes` are the only bounds on the behaviour itself. Deadlock is
checked wherever some thread always runs (`reactor`, `cache`); in the others the program may
really come to rest.

Fairness. Every thread that can run does (weak fairness of the owner inside a constructor,
`Begin` or a destructor, of each worker, of each reactor that has a worker, of the background
thread); a `DoLog` that has begun goes on; time passes; in `stream` the network delivers and a
client inside `send()` or `recv()` goes on. `http` also assumes clients that read what they
are sent: `Send` spins until they do. Apart from that, clients, the owner's choices, new log
entries and spurious wake-ups are never promised, and neither is getting the cache's lock. The
liveness properties of the server except behaviours in which some client sends for ever
(`Flood`): `Recv` reads until EAGAIN, and such a client holds its reactor. They also end where
the server is told to: by `SetExit`, by its destructor, or with the process. `ExitStops` excepts a
listener that sleeps in `accept()` and to whom no client ever comes, and `ClientsAccepted` a server
whose descriptors are never given back; the destructor is only promised to return if every
running loop is told to exit.

## Proofs

Every safety property of the passing runs, both refinements included, is proved for all values
of the constants; liveness is left to TLC. Each proof module starts with the inductive invariant,
has a lemma per action, and ends with the theorems.

| Theorems | State | Assume |
|---|---|---|
| `ReactorInvariant`, `TypeCorrect`, `UseAfterFreeFreedom`, `DeletionIsExact`, `Ownership`, `ThreadConfinement`, `EdgesAreKept`, `HandoverKeeps` | `ReactorInv`, `TypeOK`, `NoUseAfterFree`, `DeletesItsOwn`, `OneHolder`, `OneThreadPerConnection`, `NoLostEdge`, `AcceptedIsKept` | `ReactorAssumption` |
| `ReactorImplementsService` | `Reactor` implements `Service` | `ReactorAssumption` |
| `ServerInvariant`, `CoreSafeInServer`, `EdgesKeptInServer`, `OneThreadPerLoop`, `JoinedBeforeTeardown`, `GivesEverythingBack` | the core's safety inside the server, `RunsOnce`, `MembersOutliveThreads`, `NothingLeaks` | `ReactorAssumption` |
| `CoreInvariant`, `AccountIsExact` | `WithinCapacity` | `CacheAssumption`, `Small` |
| `ListInvariant`, `ListIsTheMap`, `EvictionAssertionsHold` | `ListMatchesMap`, `EvictionFinds` | `CacheAssumption`, `LoneReader` |
| `CacheImplementsLRU` | `Cache` implements `LRU` | `CacheAssumption`, `Small`, `LoneReader` |
| `QueueInvariant`, `Fifo`, `WakeUpsSuffice` | `FifoOnce`, `NoLostWakeup` | `QueueAssumption` |
| `LoggerInvariant`, `WrittenInOrder` | `InOrderOnce` | `LoggerAssumption` |
| `SocketInvariant`, `OwnsItsFile`, `NoFileLeaks`, `BoundWhereAsked` | `HeldIsMine`, `NoLeak`, `AtItsAddress` | `SocketAssumption` |
| `HttpInvariant`, `ClosesAsAnnounced`, `LeavesNothing`, `StaysUp` | `CloseIsAnnounced`, `NothingStranded`, `Survives` | `HttpAssumption`, `TextAssumption` |
| `FramedAsAnnounced` | `Framed` | the same and `Named` |
| `AnswersInOrder` | `AnsweredInOrder` | as for `HttpInvariant` |
| `BytesKept`, `RequestsFramed`, `SplitRestores`, `RequestsWellFormed` | `StreamKept`, `FramesAreExact`, `SplitIsExact`, `PoppedIsARequest` | `StreamAssumption`, `DelimiterAssumption` |

The assumptions on constants say what their comments say of them: bounds are numbers, marker
values such as `None` are not members of the sets they mark, ports fit two bytes, a valid request
that is not CGI names a file, identifiers are finitely many, CR is not LF. TLC evaluates them in
every run. Some theorems have a hypothesis of their own, each true in the run of its module and
each needed:

- `Small`, sizes an `int` can hold: for a larger file `ToInt` is negative, passes the test at
  `cache.cc:78` and the account is wrong.
- `LoneReader`, one thread that calls `TryLoad`, with any number that insert: the run
  `cache_two_loaders` shows what two do. `AccountIsExact` does not need it.
- `Named`, the extension of a served file tells its type: the code takes what follows the last
  dot of the whole path, so a name without a known extension is sent as an octet stream.

### Reactor

The properties are not inductive by themselves. That `DeleteConnection` finds the connection
it was called for needs to know who can hold an object (`OneHolder`), that the listener is
not between registration and insertion for this looper (`LatchInv`: it would hold the latch)
and that nobody else destroys it (`VictimInv`). That no pointer dangles needs the identity of
objects, open sockets and descriptors (`HeapInv`), that registrations and poll results belong
to their looper (`PollInv`), and what is known about a running callback up to and after its
own deletion (`CurInv`). `FoundIsCur` and `SlotIsFree` draw these together for the two
critical sections; then each action has its lemma. `NoLostEdge` is inductive relative to
`ReactorInv`.

The refinement maps every action: `Connect` and a reset in the backlog are `Arrive` and
`GiveUp`, `Accept` is `Take`, `RunCallback` is `Handle`, `ServeKeep` is `Keep`,
`DeleteDestroy` is `Release`; every other action is invisible. It needs the invariant in four places: the
client of a callback is open and belongs to that thread (`PollInv`, `HeapInv`); the insertion
never destroys a connection (`SlotIsFree`); a deletion never returns empty-handed
(`FoundIsCur`); what is destroyed is the handler's own connection (`VictimInv`).

### Server

A step of the server is a step of the core, of the pool or of the owner. `ServerInv` is
`ReactorInv`, the pool's `PoolInv` (a loop is queued once, or run by one worker, or over) and
what ties them together: a reactor between its first and its last instruction is run by a worker
(`LoopInv`); every connection belongs to a reactor of this server, and the listener rests outside
`Begin` (`OwnerInv`). So at the teardown, when all workers are joined, no handler runs and
the reactors' maps hold every connection there is (`MapsHoldAll`), and dropping them gives
everything back (`TeardownKeeps`).

### Cache

`CoreInv` says who is inside the cache and what a call has found out that stays true until it
returns; it does not mention the links and holds for any number of threads. The account follows
from it with facts about sums over finite sets (`Lemmas`): removing an entry takes off what
inserting it had added, because nobody changes a size in between. The list needs `ListInv`: which
list the links show after each of the writes of a hit, first without the node in one
direction, then in both, then with it at the end (`MoveInv`). `UnlinkForward` and its siblings say
what one write makes of a linked sequence; `ReaderAlone` is where a second loader would break it.
`EvictionFinds` gives the assertions of `EvitOne` (`cache.cc:61` and `:66`).

The refinement of `LRU` needs all three invariants. The mapping walks the links (`Chain`), and
`ChainIs` says that this finds the sequence `ListInv` names. Three actions show: `UnlinkNext` is
the abstract `Load`, `InsertAdmit` the abstract `Insert`, `Clear` is `Clear`. The others show
nothing: the rest of a move, because the entry is shown at the end already
(`MoveOrder`); an eviction, because the first entry was not going to stay (`FitDrop`: where there is
no room for all, dropping it does not change what fits); the final append, because when the loop
ends everything that is left fits (`FitAll`). `RoomIs` is where the code's test of
`current_size_` meets the abstract sum, which takes the account (hence `Small`).

### Queue and logger

`NoLostWakeup` counts: either nobody sleeps or at least as many consumers are on their way as there are
values. It is inductive because `Push` wakes one sleeper per value, and a consumer that did not
sleep takes a value and leaves the count on the safe side. For the logger, the file, the standby
buffer and the front buffer together are the entries in order (`All`); this needs that the standby
buffer is empty whenever the swap can come (`StandbyClear`).

### Socket

`SocketInv` is stated for a table, descriptors and files as parameters, so that `Bind` and
`Connect`, which create a socket first and then change its file, are two steps of one argument.
`OneNumber` (no file under two numbers) makes `HeldIsMine` inductive for as long as `aliased` is
false: a number that a Socket holds and that is closed is then never given to a file
(`HeldClosed`), and `Adopt` of an open Socket's number sets it. `PortSurvives` and `TakenIsAsAsked` are about `NetAddress`.

### HTTP handler

One predicate per reactor (`LooperInv`: its connection is its own; the request came from that
client; while no file changed, a file that was found is still there) and one per connection
(`ConnInv`). `Settled` says how far the locals agree at each place of the handler: the header with
`ShouldClose` and then with `no_more_parse`, which is what `ClosesAsAnnounced` needs; that what was
seen first was a file or a directory, and that only a miss reads the file once more, which is what `StaysUp`
needs (`FileKills` shows it for every way a file can end the process). A connection is handled by one reactor, so each action disturbs two of them.
`FramingInv` adds what the locals of a handler and the cache's sizes say about files while none
has changed.

`AnswersInOrder` has an invariant of its own (`OrderInv`): what a client asked splits into the
requests dealt with, whose answered ones are the answers sent, and the rest, which is what the
handler has in hand followed by what waits in its buffer, in the kernel and on the way.

### Stream

`FlowInv` says where every byte is; a step moves the front of one part to the end of the one
before it. It also holds for a connection in the middle of its deletion, which `StreamKept` does not ask.
`RequestInv` says that what was popped, with what the buffer holds, begins what was sent, that each
request popped is whole, and that no terminator waits in the buffer while the handler is not running.
`FramesAreExact` follows because the reference cuts a text in the same places whatever comes
after (`FramesBegin`). `SplitIsExact` and `PoppedIsARequest` are facts about texts: `TokensIs` says
what `Split` computes at each place, `SplitSplits` that the tokens glued together are the text,
`WholeHasLines` and `HeaderRestored` what that makes of a request and of its headers. TLC checks the
four properties and not `FlowInv` and `RequestInv` themselves, which quantify over all texts.

### How induction is done here

The library's induction theorems take a predicate as a parameter and cannot be instantiated, so
`Lemmas` states induction for sets: over numbers (`SetInduction`, `DownwardInduction`), over the
subsets of a finite set (`SubsetInduction`) and over sequences by appending (`SeqInduction`). A proof
takes the set of those that have the property and shows that it is the whole. What a recursive
function computes is proved in two steps: some function satisfies the defining equation, and any that does
has these values (`ChainExists`, `ChainUnique` for `Tokens` and `Frames`, `UpwardExists` for
folds, `ChainIs` for the walk along a list). The sum that the community module folds up
is in the same way shown to exist, to be unique and not to depend on the order (`SumExists`,
`SumUnique`, `SumAnyOrder`, `SumIs`).

### Left to TLC

Liveness, everywhere, since the prover has no rule for fairness or ENABLED: `DestructorReturns`,
`EveryLoopRuns`, `DataIsRead`, `EofReleases`, `ExitStops`, `ClientsAccepted`, `HoldersFinish`,
`SleepersServed`, `FullIsFlushed`, `Served`, `EchoArrives`.

## Not modelled

- `Timer` and `TimerQueue`: unfinished headers that no target builds. `Cgier`: a stub.
- The epoll branch of `core/poller.cc`, which does not compile.
- `Buffer::AppendHead` and the 503 response, which nobody calls; `ChangeHeader`, which only a
  test does.
- Contents of files and log lines; in `Reactor`, what a handler does between `Recv`
  and its return; a file that changes in the middle of one `LoadFile`; errors of `kevent` (an
  assertion ends the program); exceptions thrown by tasks (the program terminates).

What the models show and no property forbids, because nothing in the repository promises
otherwise: a request that arrives together with the end of its stream is dropped; a CGI
request gets no response, and what was pipelined behind it waits for the client's next bytes;
after a file changes, `Content-Length` is its new size while the cache still sends the old
contents; a request for a directory, for too long a name or for a file that cannot be opened, and
a file removed at the wrong moment, end the process; so does the first client of a server without
reactors; a client that never stops sending, or never reads, keeps its reactor; a Socket moved
onto an open one may later close somebody else's descriptor; a server whose `Begin` throws,
or whose address is taken, joins its reactors for ever, since nobody tells their loops to exit; nearly
every IPv6 address makes `bind` and `connect` fail. `Join` writes its colon in
front of every token but the last and not between them, so a header value such as `ip:port` is
stored as `:ipport` (`http_utils.h:102` says otherwise); no request depends on such a value.

## Plan

1. `HttpHandler` with two clients, on one reactor and on two, for TLC: the proofs cover any number.
2. `Timer` and `TimerQueue`, once they are finished and some target builds them.
3. The epoll branch of `core/poller.cc`, once it compiles.
