# A verification project for the sensor libraries

This directory specifies the libraries of this repository in TLA+, model-checks
them with TLC on small instances and proves their safety properties and refinements
for every value of the constants with TLAPS. Every definition is translated from the C++ source; `PROJECT.json` names
the lines each one stands for (`map`), the hazards the properties are aimed at
(`hazards`), what every run checks (`runs`), and for every checked property a
plausible bug that makes it fail (`mutants`; in the modules the operators named
`Mut...`).

    tlc -config slotfs_power.cfg MCSlotFS.tla     # a run: see PROJECT.json for its module
    tlapm SlotFS_proofs.tla                       # the proofs of a module

## 1. The system

The libraries run on an IMU sensor (a Cypress WICED board with an RTOS). A
*producer* thread writes motion data into a `SequentialBuffer`; a file thread
drains it into a `SlotFS` file; an HTTP server serves files, JSON and live data;
the threads hand each other work through `CommandQueue`s; `RbsServer` keeps the
clocks of several sensors together by reference broadcasts.

| component | state it keeps | operations | interacts with | what is hard |
|---|---|---|---|---|
| **SlotFS** `lib_slotfs` | the device: a configuration block, two metadata blocks (A/B) per slot, data areas; in memory `lock_counters`, the open `File`s with one `BlockPage` each | `sfs_init`, `sfs_format`, `sfs_deinit`, `sfs_file_open/write/read/seek/flush/allocate/close`, `sfs_file_exists/size` | `BlockDevice` (application), HTTP file payloads | power loss at any write, torn metadata, failing device, page and slot boundaries, the 8-bit revision, readers beside a writer |
| **SequentialBuffer** `lib_util` | ring of bytes, read and write pointer, `m_free`, watermark event | `write`; `request_read`, `commit_read`; `clear`; `set_watermark` | a producer and a consumer thread, `EventFlagStatus` | what is read outside the lock, full against empty, wrap at the end, lost wake-ups |
| **CommandQueue** `lib_util` | `SIZE` function contexts with reference counts, a queue of immediate and one of delayed commands | `execute_async` (with or without wait), `execute_async_later`, `execute_async_interval`, `cancel`; `process` | any calling thread, one worker; used by the HTTP server | reuse of contexts, cancel against run, delayed commands, full queues |
| **RbsServer** `lib_rbs` | double-buffered sync table and the pointer to the active one, queue of packets, history of timestamps | `on_receive_packet` (network thread), `process`, `reset`, `suspend`, `start`, `stop` (server thread), `calculate_synced_time` (any thread) | the network stack's packets, every thread that needs a synced time | lock-free reads beside a writer, ownership of packets |
| **HttpServer** `lib_http` | connected sockets (active flag, request, response, dangling packet), command queue, two TCP servers, handler thread | callbacks `connect`, `disconnect`, `receive`; the handler thread's loop; `start`, `stop` | network thread, clients, `CommandQueue`, responses | would-block sends, sleeping with work left, lost commands, restart |
| **HttpResponse, payloads** `lib_http` | header and payload with read positions | `get_read_ptr`, `commit_read`, for each kind of payload | the server's write loop, a file thread | when is a response complete |
| **HttpRequest** `lib_http` | url, query, header fields and body as they grow, state | `read_from` and the callbacks of the parser | vendored `http_parser` | data cut anywhere, the query taken apart in one loop, bad requests |
| **Routes** `lib_http` | the map from method and path to handlers | assignment, `find_http_handler` | the application, the HTTP server | the order of the map, `*`, routes for tls |
| **LwEventTrace** `lib_lw_event_trace`, with `PayloadTraceEvent` of `lib_http` | vector of events with reserved memory, enabled flag; the payload's index and cursor | `enable`, `disable`, begin and end of `ScopedEvent`; `get_read_ptr`, `commit_read` | any thread records, the HTTP server reads without the lock | the end of the reserved memory, scopes cut by `enable`, recording during a download |
| **PacketSyncClosest** `lib_util/sync_packets.h` | five vectors of timestamped packets | `push`, `pop`, `clear` | sensor streams | the nearest packet at both ends, what is thrown away |
| **FrameMessageBuilder** `lib_message` | feature mask, size, buffer, finished flag | `add`, `finish`, `clear`; `get_frame_message_data` | senders and receivers of sensor data | gaps of features that are not added, repeated features |
| **RgbLed, RgbLedDriver** `lib_util` | a pattern and colour per priority, the active one, the timer, the pins | `initialize`, `set`, `set_from_hex`, `set_update_interval`, `get_active`, `on_led_update` | callers on many threads, a timer callback, the synced time | the stale pattern when all are disabled, a read without the lock, the white pin beside the coloured ones |
| **GenericSensor** `lib_util` | four policies (device, settings, data, powersave) of the application | `initialize`, `deinitialize`, `set_active` | drivers | a failing step in the middle |
| **Battery charger** `lib_util` | none: the chip's registers | register reads and writes | one chip | |
| **Discovery** `lib_discovery` | destination, attributes | `start`, `stop`, `send_discovery_message` | the application, which fills in the attributes | |
| **Device info, addresses, linear algebra, checksums, memory statistics** | none, a value set once, or running figures | | | |
| **http_parser, frozen, md5, catch, json.hpp** | third-party | | | |

What makes each part correct:

* *SlotFS*: what a successful flush covered can be read after any power loss; the
  current metadata block is never the one written; nothing is written outside of the
  pages of a slot, so that slots do not reach into each other if they are whole pages (and
  else they do: run `slotfs_overrun`); a slot has either readers or one writer; reads
  deliver exactly the file.
* *SequentialBuffer*: it is a byte queue; nothing is overwritten before it is
  committed; no wake-up is lost.
* *CommandQueue*: an accepted function is called exactly once, in order, not
  early, not after it was cancelled; a context has one holder.
* *RbsServer*: a conversion uses one valid table, if it is not overtaken by a reset or
  a second new table; packets are given back once.
* *HttpServer*: a client gets exactly its response; no client waits because the
  thread sleeps or because another client is slow; a packet is held until it is sent or
  deleted (and lost with a connection that is erased: run `http_leak`).
* *HttpRequest*: what a handler sees does not depend on how the data was cut; each text
  of the query has its parameter.
* *Routes*: a new route takes from the others only the requests made for it.
* *PacketSyncClosest*: every packet is matched with the nearest of each other sensor.
* *FrameMessageBuilder*: a message reads back what was added last of each feature,
  and no feature that was not added.
* *LwEventTrace*: begins and ends balance, however scopes are nested and cut by `enable`;
  recording does not move events that are there; a download is the events in order, and
  well-formed if nothing is recorded.
* *RgbLed*: the LED gets to show the enabled entry of the highest priority, and no other colour.

## 2. Modules

| module | what it is |
|---|---|
| `SlotLayout` | addresses of blocks, slots and pages (pure operators) |
| `SlotFS` | the file system over a device whose writes can fail or be cut short |
| `SlotStore` | abstract: slots whose content only grows; `SlotFS` implements it |
| `MCSlotFS` | the symmetry of the file objects for one run |
| `SequentialBuffer` | producer, consumer and ring |
| `ByteFifo` | abstract: a byte queue and the view a consumer was handed; `SequentialBuffer` implements it |
| `CommandQueue` | callers, contexts, queues, worker, clock |
| `CommandFifo` | abstract: a fifo of commands and a set of delayed ones; `CommandQueue` with one caller implements it |
| `RbsServer` | network thread, server thread, a reader |
| `HttpResponse` | reading and committing one response (operators) |
| `HttpServer` | callbacks, handler thread, clients, start and stop; extends `HttpResponse` |
| `HttpRequest` | a request built from pieces, and its query |
| `HttpRoutes` | the map of routes and its search |
| `FrameMessage` | the frame builder and reading a feature |
| `PacketSync` | matching packets by time |
| `EventTrace` | recording threads, the logger, the payload that is downloaded |
| `RgbLed` | callers, timer, pins |
| `MCUtilities` | one run of eight components that share nothing: these six, `SequentialBuffer` and `RbsServer` |
| `SlotFS_proofs` | types of the file system, arithmetic of slots and pages |
| `SlotIsolation_proofs` | where files and pages of writers are; extends it |
| `SlotContent_proofs` | locks, readers, durability, the refinement of `SlotStore`; extends both |
| `SequentialBuffer_proofs` | proofs about the buffer and its refinement of `ByteFifo` |
| `CommandQueue_proofs` | proofs about the queue and its refinement of `CommandFifo` |
| `RbsServer_proofs` | proofs about the server, its tables, packets and replies |
| `HttpServer_proofs` | proofs about the connections, responses and packets |
| `Utilities_proofs` | proofs about `EventTrace`, `PacketSync`, `HttpRoutes`, `FrameMessage` and `HttpRequest`, and the lemmas on loops they share |

### SlotFS

One thread calls the file system, so an API call is a record `call` (operation,
program point, file, the data still to be handled) which the steps
`FormatConfig ... ReadLoop` carry forward; a step ends where the code writes to
the device. `disk` is a function from block addresses to contents. Data is
counted in blocks (`kBlockSize` bytes are one element of `Data`): the code's
arithmetic in bytes is only kept where it decides about blocks (page, offset in
the page, end of the slot). A metadata block is a record, or `Garbled` when its CRC
fails. `file[h]` is the `SlotFS::File` with its copy of the metadata, cursor and
page. `Fits` keeps the unsigned wrap of `remaining_file_space`, `RevMod` the
8 bits of the revision, and the comparisons of revisions are the code's.

`PowerLoss` may happen at every point: memory is lost, of the write in flight
any number of leading blocks is stored, and a metadata block in flight may be
garbled. A read and a write may fail (`Fault`), at most `MaxFaults` times.

The lock counters are `int8_t` for 128 slots: `Int8` wraps them, and `LayoutAssumption`
allows up to 127 slots, so that each slot number has a counter.

With `Careful` the application does not do what the code lets through but the
header excludes or that no reading of it gives a meaning: write through a file
opened for reading, write again after a failed write, move the end of a file that has
content, format or unmount with files open (`sfs_format` and `sfs_deinit` do not ask), use slot
number `SlotCount`. That number passes the test in `sfs_file_open` (`slotfs.cpp:198`) and
the tests open slot 10 of 10 (`lib_slotfs/tests/slotfs.t.cpp:236`), but its metadata blocks
are the first two data blocks of slot 0, which creating it overwrites. Slots need not be whole
pages. `written`, `acked` and `seen` are history: what the writer was told, what a flush promised,
what a reader opened.

### SequentialBuffer

`write` reads `m_free` and tests the size before it takes the lock (`Write`) and
copies under it (`Copy`); `request_read` waits (`RequestWait`, `WaitOk`,
`TimedOut`), looks at the size without the lock (`CheckSize`) and takes it
(`HandOut`); between `HandOut` and `CommitRead` the consumer reads bytes without
the lock while the producer copies. `Drains` says whether the consumer waits only after a
read that found nothing.

### CommandQueue

`Find` is the search for a context, `Fill` its reset and filling up to the
reference count, `Put` the queue; between them other threads run. `process` is
cut in the same way, down to the command that is popped, checked, called and
released. The typed queues are thread-safe and bounded (external, as used
here). The clock counts modulo `ClockSize`. `log` is history.

`CommandFifo` has neither contexts nor a clock: a command that is not refused (and it
is refused only when all places are in use) is called, put back or skipped, and skipped
only when cancelled. `CommandQueue` refines it as long as one thread calls.

### RbsServer

Of a table the row of this sensor is kept: whether it exists, and the two
coefficients. The copy in `flip_sync_tables` writes id, row, `m` and `t` in steps
of their own, the reader reads pointer, row, `m` and `t` in steps of its own.
Nothing in the code waits for a reader: `reset` clears both buffers
(`rbs_server.cpp:26-31`) and a second new table is copied (`:53`) whether or not a conversion
is in the middle of them. Such a conversion is *overtaken*: the model lets it happen and notes
it (`age`), and what it computes may be of two tables or of a cleared one.
`ReadsOneTable` speaks of the other conversions, and says nothing of these.
`TableIsAdopted` compares ids: a table whose id is that of the active one is not copied, even
if its coefficients differ. `held` counts the
network stack's packets, those of the replies included. `start` can fail with or without a
socket left behind (`socket = "deaf"`), and the packet of a reply can fail to be
sent. Not kept: the daemon's id, timestamps, the bytes of the messages; `reset`, `start` and `stop` run on the server
thread; `memset` of the buffers is one step.

### HttpServer and HttpResponse

Callbacks run on the network thread and queue commands (`Post`); the handler
thread runs one command per round, waiting without timeout when no connection
is active, and then reads and writes every connection (`Read`, `Resend`,
`Write`, `WriteNothing`). A response is a header and a payload counted in
units. A payload is empty, a text that is there at once, or a file of which some thread
delivers any part so far (`Offers`); `Chunks` are the amounts the fill loop can put in one
packet and `IsComplete` what the last `commit_read` says. A request is complete or bad when
its last fragment is read; parsing and routing are a free choice of the response,
the one that sets no valid status included. `stop` goes on when the thread has ended or
after its timeout of 7 s, with the thread then at `process`. A send fails for
good only on a closed connection. `Post` refuses when `QueueSize` commands wait. In the
code the context of the command that runs counts as used too, until it has run; what is
refused meanwhile is what would be refused had it been posted before that command was taken.
One case is left out: a connect to the socket that the disconnect under way has just made
listen still finds the disconnect's context used.

A packet that would block is kept in its connection by a plain pointer. `RunDisconnect` and the end
of `stop` erase connections with it (`Leaks`).

`astray` are the sockets whose command found the queue full, or was left in it
by `stop`: what becomes of them the code leaves open, the properties speak of
the others, and their clients send nothing more (a bound). Clients do not
pipeline.

### HttpRequest and HttpRoutes

A request is a sequence of elements (url, names, values, body), an element a short
text. `ReadFrom(n)` is `read_from` with `n` units of data; then there is one action for each
callback of `http_parser` (external), which goes on in the same data until it is used up.
`OnHeadersComplete` takes the query apart: `Cursor` is the body of the loop,
`EndOfValue` its end of a parameter, with the one pair that is used again: a text without
"=" is a value under the name that the pair still has, of the parameter before it, and a text
with several "=" a name that begins behind the last but one. `QueryIsExact` says just that
of every text. "%26" is an escaped "&". A client sends its next request when it has the response.

`HttpRoutes` keeps the keys of the map with their order (`Before`, without
`tls_match`) and `FindHandler` is the first match in it. A path is a short sequence of
numbers in the order of characters, "*" before all.

### RgbLed

`set` holds the lock and is one step; `set_from_hex` reads the active pattern in a step
before it, and an update copies the active entry and drives the pins in a later step
(`GetActive`, `Drive`). A colour is a set of channels, with white on a pin of its own;
`IsLit` says when a pattern may be dark. With all entries disabled the active one stays.
Not modelled is a `set_update_interval` before `initialize`, which registers the timer of a driver
that is not set up (`rgb_led.cpp:107-111`).

### FrameMessage, PacketSync, EventTrace

`FrameMessage` counts the buffer in units of 4 bytes, the sizes of the features
are the code's; `Moved` is the `memmove` of `finish` and `Compacted` its loop. Receivers
have the whole message: shorter buffers are not modelled.

`PacketSync` has one vector for the first type and one for each of the others, for which
the code repeats the same lines. Where `find_closest_packet` reads outside of a vector,
either outcome of its comparison is possible and what it delivers may be `Garbage`. With
`Careful` the caller pops only when the search stays inside (`Surrounded`), and a sensor's
packets come in order also when none is waiting, which `push` cannot see (`Ordered`).
`Distance` is the exact one: the code takes `labs` of a difference converted to a `long` of 32 bits,
and `SyncAssumption` keeps the times of a run within 2^31 of each other.

`EventTrace` is the logger, whose operations hold its lock, with threads in and out of
scopes, nested to `MaxNested`, and one `PayloadTraceEvent` that reads the same vector. A step of the reader is
atomic. An event keeps its thread's id modulo 255 (`Id`), so threads may share one, and
begins and ends are counted by id. `enable` may reserve no event at all: `capacity() - 1` wraps, and the
first `push_back` allocates (`EventsStayInPlace` says that this is the only one). An empty trace announces one byte and delivers none, so that its response
never completes: that is `http_empty` again.

## 3. What is checked

Bounds are the smallest at which the interesting case happens; they are named in
the modules (`\* bound:`) and set in the `.cfg` files.

| run | question | bounds, and why they are enough |
|---|---|---|
| `slotfs_power` | Does what a flush promised survive any two faults, and does a writer keep to its pages? `FlushedIsDurable`, `ReadsAreExact`, `WritesStayInPages`, `MostRecentSurvives`, `ImplementsSlotStore`, `CallsReturn` | 1 slot of 3 blocks, pages of 2, two kinds of data, two failing writes or power losses: a torn metadata block, a loss during the recovery from it, files of one and two pages, half pages, and a last page that reaches behind the slot's end |
| `slotfs_shared` | Do two files keep apart, whatever fails? `FoundIsWritten`, `LocksCountOpenFiles`, `ReadersKeepTheirContent` | 2 slots of 2 blocks, 2 files (symmetric), one failing read, data write or metadata write: all pairs of readers and writers on one slot and on neighbours |
| `slotfs_overrun` | *violation*: two slots that are no whole pages | 2 slots of 3 blocks, pages of 2, one file |
| `slotfs_wrap` | *violation*: 255 flushes of one file | one block of data, the code's own modulus |
| `slotfs_stale` | *violation*: flushes after one that failed | one block of data, one failing metadata write, three more updates |
| `cmdqueue` | Is every accepted command of one caller called once, in order, not early, not after its cancellation? `ContextsHeldOnce`, `CalledOnce`, `CancelHolds`, `ImplementsCommandFifo`, `NotEarly`, `WaitMeansDone`, `WaitReturns`, `AcceptedIsCalled` | 2 contexts, 3 calls: contexts are reused and queues fill; one id, delay 1, clock to 2 |
| `cmdqueue_race` | *violation*: two callers | 2 calls |
| `http` | Does every client get its response, whatever the other does? `ResponseIsExact`, `SocketsAreTheirs`, `AsleepMeansIdle`, `PacketsAreHeld`, `Answered` | two sockets (one TLS, one prompt client), header and payload of 1 unit, all kinds of payload, packets of 2, command queue of 2, two connections made, one start and stop; requests in two fragments on one socket |
| `http_empty` | *violation*: a response without payload | one connection |
| `http_leak` | *violation*: stop while a packet waits to be sent again | one connection of one socket |
| `utilities`, frames | Do messages read back? `ReadsBack` | up to six of the nine features, repeated or not |
| `utilities`, packets | `NearestIsDelivered` | 3 packets per sensor with 5 times, so that two neighbours can be equally far |
| `utilities`, trace | `ScopesBalance`, `DownloadIsExact`, `EventsStayInPlace` | the two threads 1 and 256, whose events have one id, scopes nested twice, traces with room for none (`capacity() - 1` wraps) and for three events |
| `utilities`, requests | `RequestIsExact`, `QueryIsExact` | queries of 4 units, with texts without "=" and with several, or 2 headers and a body of up to 2 letters, in pieces of 1, 2, 3 or all |
| `utilities`, routes | `RoutesAreIndependent` | every pair of routes with 1 or 2 characters |
| `utilities`, LED | `LedFollows` | 2 priorities, one caller of `set_from_hex` beside any number of `set`, red and white |
| `utilities`, ring | Is the ring a queue under every interleaving? `AssertionsHold`, `NoSleepOnWatermark`, `ImplementsByteFifo`, `WrittenIsRead` | capacity 4, writes of 0 to 5 bytes, watermark 2, two byte values: empty, full, refused, wrapping, exact end |
| `utilities`, tables | Is a conversion consistent, is every packet given back? `ReadsOneTable`, `RepliesAreRecent`, `PacketsAccounted`, `TableIsAdopted`, `ActiveIsUntouched` | three tables, one of them without this sensor and with the id of an empty table, queue of 1, 4 pulses: history overflows (3), queue overflows, both buffers are reused |
| `sync_edge` | *violation*: the nearest packet at the ends | as in `utilities`, without `Careful` |

`utilities` is one run for eight components: they share nothing, and a behaviour is one of one of
them (`component`) while the others rest, so that its states are the sum of theirs.

The payload of a response in `http` has one unit and a packet two: header and
payload travel together or one after the other, and a packet blocks between them. The prompt
client is one, the other may never read; with two connections made in total a
socket can be used again after its disconnect.

### Fairness

* `SlotFS!FairSpec`, weak fairness of `Step`: the thread that called runs the
  loops of its call to the end; nothing makes it call.
* `SequentialBuffer!FairSpec`, weak fairness of `Reading`: the consumer is a loop
  that asks for bytes and commits all it was given. None for the producer.
* `CommandQueue!FairSpec`, weak fairness of the worker (its thread calls `process` in
  a loop), of calls that have begun, and of the clock.
* `HttpServer!FairSpec`, weak fairness of the handler thread, and for the sockets of
  `Prompt` clients strong fairness of `Sent`: a client that reads opens its
  TCP window again and again, so that a send that is tried again and again succeeds at last. None for
  clients, owner or network.
* `RgbLed!LedFairness`, as part of `MCUtilities!MCSpec`, weak fairness of `OnLedUpdate` (the worker thread runs the timed
  event) and of the second half of `SetUpdateInterval`: its caller returns. None for those who set.
  `MCSpec` states the first condition and that of `SequentialBuffer` as one (`GoesOn`): in a
  behaviour only one of them has steps.

`http` switches deadlock checking off: when the
clients have used up their connections a server that sleeps may stop.

### What the violations show

1. `slotfs_wrap`: revision 0 means "no file", and a `uint8_t` revision gets there with
   the 255th metadata update: a file just flushed cannot be opened until the next.
2. `slotfs_stale`: an update counts the revision and only then writes, and drops the
   result. After a failed write the valid block is two revisions behind, and the updates that
   follow, stored without an error, are not the block found. `FoundIsWritten` says that what
   is found is then a version before, and never anything else.
3. `cmdqueue_race`: two callers can take the same context. `CommandQueue` is
   documented as thread-safe; it is for one calling thread, which `cmdqueue` shows.
4. `http_empty`: a response without payload (every 404) never completes: its
   connection stays active and reads no further request. `Answered` therefore
   excludes a client whose earlier response is in this state (`Held`).
5. `sync_edge`: with a packet older than the first, or newer than the last, of
   another sensor the search looks outside of the vector.

6. `slotfs_overrun`: pages are written whole, and neither `sfs_format` nor `sfs_file_open` asks for
   slots of whole pages, which the tests do not keep to either (slots of 2, 7, 97 and 997 blocks
   with pages of 4). The last page of a slot then overwrites the first blocks of the next one.
   `slotfs_power` and the theorem `WritesAreBounded` say how far a write can reach: to the end of
   the last page, and no further.
7. `http_leak`: `stop` and a disconnect erase a connection with the packet that waits in it to
   be sent again, which nobody deletes. `PacketsAreHeld` says that no other step loses one.

An assumption of a passing run is necessary, as TLC shows without it. With
`Drains = FALSE` in `utilities.cfg` a consumer that waits with bytes left sleeps on a reached
watermark, against `NoSleepOnWatermark`: the first wait has taken the event.

`RequestIsExact` leaves out what comes behind a header with an empty value: such a header is
joined with the name of the next one (`http_request.cpp:33`).

## 4. What is proved

Every safety property and refinement that a run checks is a theorem, for all values of the
constants that meet the modules' assumptions and the hypotheses in the last column (`LayoutAssumption`, `SlotFSAssumption`,
`BufferAssumption`, `QueueAssumption`, `RbsAssumption`, `ResponseAssumption`,
`HttpAssumption`, `TraceAssumption`, `SyncAssumption`, `RoutesAssumption`,
`FrameAssumption`, `RequestAssumption`): any number of slots, handles, bytes, contexts,
sockets, threads, headers, and faults at any point. Where a theorem needs more, its
`ASSUME` says so, and the last column below says why.

| theorem | of | states | assumes, besides |
|---|---|---|---|
| `TypeCorrect` | `SlotFS` | `[]TypeOK` | |
| `WritesAreBounded` | | `WritesStayInPages` | `Careful` |
| `Isolation` | | `SlotsAreIsolated` | `Careful`, and slots of whole pages or a single slot: without it `slotfs_overrun` |
| `LocksAreCounted` | | `[]LocksCountOpenFiles` | `Careful`, and at most 127 files, as an `int8_t` counts (`FewFiles`) |
| `ReadersAreUndisturbed`, `ReadsDeliverTheFile` | | `[]ReadersKeepTheirContent`, `[]ReadsAreExact` | `SeparateSlots`: `Careful`, `FewFiles`, and slots of whole pages or a single slot |
| `MostRecentIsKept` | | `MostRecentSurvives` | `SeparateSlots`, and metadata can be read: after a read error the code takes the other block |
| `FoundIsAlwaysWritten` | | `[]FoundIsWritten` | `SeparateSlots`, and `[]Unwrapped`: no open file has revision 0, which `slotfs_wrap` shows |
| `FlushedStaysDurable` | | `[]FlushedIsDurable` | `SeparateSlots`, no failing read or write of metadata, `[]Unwrapped`: `slotfs_stale` shows why |
| `SlotFSImplementsSlotStore` | | `ImplementsSlotStore` | as `MostRecentIsKept`, `[]Unwrapped` |
| `RevisionsDoNotWrap`, `FewFlushesAreSafe` | | `[]Unwrapped`, and so the two above for every behaviour | as those, with `FewFlushes` for `[]Unwrapped`: flushes and blocks of a slot together stay below the 255th revision |
| `RingInvariant`, `BufferTypes`, `BufferAssertions`, `BufferIsFifo` | `SequentialBuffer` | `[]RingInv`, `[]TypeOK`, `[]AssertionsHold`, `ImplementsByteFifo` | |
| `NoLostWatermark` | | `[]NoSleepOnWatermark` | `Drains`, without which it is false |
| `EveryContextHeldOnce`, `FunctionsCalledOnce`, `CancelledIsNotCalled`, `WaitReturnsAfterCall` | `CommandQueue` | `[]ContextsHeldOnce`, `[]CalledOnce`, `CancelHolds`, `WaitMeansDone` | `OneCaller`: with two `cmdqueue_race` shows them false |
| `DelaysAreKept` | | `NotEarly` | and the clock does not wrap before the last command is due |
| `QueueImplementsFifo` | | `ImplementsCommandFifo` | and no interval of 0 ms, which the code takes for a command to be called once |
| `Adopted`, `ActiveUntouched`, `PacketsGivenBack`, `AnswersAreRecent` | `RbsServer` | `[]TableIsAdopted`, `ActiveIsUntouched`, `[]PacketsAccounted`, `[]RepliesAreRecent` | |
| `OneTable` | | `[]ReadsOneTable` | (its statement leaves out the conversions that were overtaken) |
| `ServerInvariant`, `ResponsesAreExact`, `SocketsHaveTheirConnection`, `SleepsOnlyWhenIdle`, `PacketsAreKept` | `HttpServer` | `[]ServerInv`, `[]ResponseIsExact`, `[]SocketsAreTheirs`, `[]AsleepMeansIdle`, `PacketsAreHeld` | |
| `MemoryInvariant`, `InPlace` | `EventTrace` | `[]MemoryInv`, `EventsStayInPlace` | |
| `ScopesAreBalanced`, `DownloadsAreExact` | | `[]ScopesBalance`, `[]DownloadIsExact` | |
| `NearestDelivered` | `PacketSync` | `NearestIsDelivered` | `Careful`, without which it is false (`sync_edge`) |
| `RoutesStayIndependent` | `HttpRoutes` | `RoutesAreIndependent` | |
| `MessagesReadBack` | `FrameMessage` | `[]ReadsBack` | |
| `RequestsAreExact`, `QueriesAreExact` | `HttpRequest` | `[]RequestIsExact`, `[]QueryIsExact` | |

The properties are seldom inductive as they stand. What has to be added, and along which
argument each proof goes:

**`SlotFS`**: `TypeInv` adds to `TypeOK` which program points go with which operations
(`CallShape`), since the steps of a call use its block index and its file.
`PlaceInv` says where the file and the page of a writer are: between chunks the page
offset is the cursor's (`FilesInv`), within one the page runs ahead by exactly the chunk
(`CallInv`); so a pending write (`Target`) lies in the pages of the slot the call concerns
(`WriteInTarget`, `PagesStep`), and these are the slot's own blocks if it is whole pages. `LockInv` adds to the counters that
a slot about to be created has no file. `ContentInv` relates the device to the history: metadata
describes blocks that are on the device and were written in this order (`MetaInv`); what the
writer wrote and the device lacks is at the head of its page (`WriterInv`); a reader's
file is what it saw when it was opened (`ReaderInv`). On these rest `ReadInv` (a page
read ahead is the page of the cursor), `Found` (a slot that was created has valid
metadata, also while the other block is written), `OtherIsWritten` (never the most recent
one is written), and `Durable` (the revisions of file and device follow each other, and what
was promised is covered by the newest). The refinement needs from them `FoundInSlots`: what is
found is a prefix of what was written; then each step is `Renew`, `Change` or a stutter
of `SlotStore` (`StoreStep`). `RevisionInv` bounds the revision by the flushes and pages so far.

**`SequentialBuffer`**: the writer is `Size` bytes ahead of the reader round the end,
those bytes are written, the producer's chunk still fits when it copies, the granted bytes
do not reach the end (`RingInv`). The refinement goes byte by byte
(`PrefixByElement`, `DropByElement`). `WaitInv` adds that a consumer that has found nothing
has left the event set if anybody has reached the watermark since.

**`CommandQueue`**: `PlaceInv` counts the places of a context (a queue, the worker, the caller):
one if it is used, none if it is free. `FuncInv` adds to whom its function belongs and how often
that ran so far, which depends on the place; `CancelInv`, `WaitInv` and `DueInv` add what the
single properties need of flags, status and time. For the refinement the abstract fifo is
the queue of immediate commands without the contexts, the delayed set what is in the other
queue and the command the worker sorts in again.

**`RbsServer`**: parts of one argument over `Types` and `HasPacket` (a server that
processes has a packet). `TablesInv`: the cleared table is active exactly while the others are
cleared, the new one is copied beside the active one and is active when its pulse is answered.
`PacketsInv`: what is held is what is queued, what is being processed, and the packet of the
reply. `ReadsInv`: outside of copying the two coefficients of a table belong together, and a
reader's table is active, or the null table of `reset`, or was active until the last switch and is not
written by anybody, unless the reader was overtaken: where the code would write to it anyway, the
step marks the reader.
`AnsweredInv`: the history is the last three pulses answered (`RecentIsExtended`).

**`HttpServer`**: `ServerInv` speaks of the settled sockets. `PlaceInv`: the order of a socket's
commands in the queue, and that it has a connection exactly between its connect and its
disconnect. `TalkInv`: data the server has not read is announced by a command or its connection
is active. `Serves`: what the client received and the dangling packet
together are the units of the response up to its position, in order. `PacketsAreHeld`
is an action property from the same invariant: every step keeps the difference of packets
allocated and packets held (`Steady`) or erases a connection with one (`Leaks`).

**`EventTrace`**: `MemoryInv` bounds events by the capacity and this below a `size_t`; the one
element that stays free keeps `push_back` from growing a vector that has memory, and one that
has none grows once, when it is empty. `ScopesInv`: begins and ends are counted by id
(`Count`, `OfId`), and an event that is recorded, like the scope it begins or ends, changes
both sides of `ScopesBalance` by one.
`DownloadInv`: what was committed and what the payload holds (`Fetching`) are the
events up to its index, and only the last is followed by the closing bracket if none was added.

**`PacketSync`**: `SyncInv` keeps for each stream what was pushed beside what waits, and that none
of the packets thrown away is nearer to a reference packet to come than the first that
waits (`NoneMissed`). **`HttpRoutes`**: the map holds each key once (`Table`), and of any
routes that match one comes first: that with the fewest before it (`LeastRoute`), which
needs that the order is total on different keys. `MatchesIs` shows that the code's search for the
first mismatch finds exactly the requests a route is meant for.

**`FrameMessage`**: after the first features of its loop `finish` has moved them to where
`get_frame_message_data` looks, and what is behind is still at its offset from there
(`CompactedTo`). **`HttpRequest`**: `RequestInv` says which elements of the request are finished,
what of each was called back for (`Progress`), and what the request is then (`Built`); the hard
part is `HeadersAre`, which says what `header_fields` holds also behind a
header without a value, where fields and headers no longer correspond. The query is an induction over
the loop of `Cursor`: after each unit the texts up to the last "&" have their parameters
(`Finished`), and the text behind it is in the cursor, divided by its last "=", with the
name between that and the one before it or, without two, the name inherited (`Unfinished`).

Recursive functions (`Compacted`, `Place`, `QueryParameters`) are unfolded from
`LoopExists`, which is proved from `ByInduction`, induction over a set of numbers.

**Only model-checked** is every property that needs fairness: `CallsReturn`,
`WrittenIsRead`, `WaitReturns`, `AcceptedIsCalled`, `Answered`, `LedFollows`, and with it all of
`RgbLed`. Liveness under fairness and `ENABLED` are out of the prover's reach.

## 5. What is not modelled

* The bytes of headers, JSON, messages and metadata, CRCs and logging: formats no property is about.
* WICED calls beyond their outcomes; TLS set-up.
* Third-party code: `catch.hpp`, `http_parser`, `json_frozen`, `md5` are 17 600 of the 23 770
  lines. Of `http_parser` the calls it makes are modelled, as external definitions.
  Of the repository's own code the map covers more than a third of the lines, the parts that keep state; most of what
  remains is declarations, lists of register values and drivers of chips.
* `GenericSensor`: four policies, none of them in the repository, called in one order and
  taken down in the other with the results ORed. A model would repeat that order, and nothing
  says what a failed `initialize` promises.
* The battery charger: every call reads or writes registers of one chip and keeps no
  state. (Seen while reading: `write_device` sends `sizeof` of a pointer, not the size it is
  given, and `set_shutdown_timer` ignores its argument.)
* Discovery: a beacon, one datagram formatted from the attributes of the application and sent.
  Addresses, linear algebra and checksums: pure functions; device info and memory statistics:
  figures that no other part reads; `parse_range_header`, which has no caller.
* The tail of a message whose builder counted a repeated feature twice (`message_frame.h:213`):
  `ReadsBack` speaks of the features, not of the extra bytes behind them.
* What a careless application of `SlotFS` does to others (`Careful`), in particular to slot 0
  by using slot number `SlotCount`; more than 127 slots or files.
* A second `sfs_init` of a mounted file system; files used by several threads
  (the file system has no lock of its own and its callers use one thread); repeating a
  write that failed, which no reading of the header gives a meaning.
* A second calling thread in the liveness of `CommandQueue`: with two callers
  `CalledOnce` fails already. A clock that wraps.
* `process` with `WICED_WAIT_FOREVER`, by which delayed commands wait for the next immediate one.
* What a conversion that is overtaken by `reset` or by a second new table computes: the code
  has a race there (`rbs_server.cpp:26-31`, `:53`) and promises nothing.
* `set_update_interval` before `initialize`; time stamps of `PacketSync` that are 2^31 apart.
* Clients that pipeline: data behind the end of a request is lost.
* `stop` of the HTTP server from one of its handlers, and what commands left by `stop` do
  after the next start.

## 6. Plan

The components with state are modelled, and what is checked of them and can be proved is.
Left are: the invariants of `RgbLed` that its liveness rests on (which entry is active between
`set` and the update); what `CommandQueue` still promises to several callers (`PlaceInv` without the
claim that a free context has one holder); and the steps from the invariants to the
liveness properties that need no fairness, such as that a call of `SlotFS` gets nearer to its end
with every step.
