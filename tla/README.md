# Verification of kawin

TLA+ models of kawin, the Windows minifilter driver `driver/` and the user
service `kasvc/` that reads its events, with TLC runs and TLAPS proofs.
`PROJECT.json` maps every definition to the lines it models and lists runs,
mutants, findings, hazards and theorems.

## The system

| Part | State | Operations | Hard behaviour |
|---|---|---|---|
| `AsyncEventDispatcher` (driver) | a byte ring with two heads, slot headers, flags, events, the client port, one worker thread | `Initialize`, `Uninitialize`, `Enqueue`/`ProduceSlot`, `ConsumeOne`, `SendOne`, `WorkerLoop`, client connect and disconnect | lock-free producers against one consumer, wrap-around padding, stuck slots, memory freed at unload, a port closed during a send |
| Filter callbacks and port (`Filter.cpp`, `Context.cpp`) | filter, ports, instance contexts, a stream handle context with flags per file object | registration, connect/disconnect callbacks, unload, pre- and post-operations, instance set-up and teardown | callbacks of several threads on one file object, many early returns that each hold other references, callbacks while the filter unloads |
| `ProcessCache` | hash table of process entries with reference counts | `AddProcess`, `RemoveProcess`, `GetProcessContext`, `ReleaseProcessContext`, `Cleanup` | create and exit notifications of different processes in parallel, pid reuse, failed allocations |
| Driver entry and rule table | device, link, callbacks, rule lists, a count of Allow rules | `DriverEntry`, `KarmorUnload`, `KarmorDeviceControl`, `InsertRule`, `LookupRule`, `RemoveRule` | failures half-way, order of clean-up, a list walked without its lock |
| `ThreadSafeQueue` (service) | a bounded queue, a mutex, two condition variables | `Push`, `TryPush`, `Pop`, `TryPop`, `Close`, `Clear` | lost wake-ups, timed waits, closing |
| `IOCPFilterPortCommunicator` | port and completion port handles, a pool of receive contexts, workers, the event queue | `Connect`, `Disconnect`, `SubmitReceive`, worker loop, `ReceiveEvent` | asynchronous receives against shutdown |
| `MonitoringService`, `main` | running flags, event loop threads, signal handler | `Start`, `Stop`, shutdown | a signal during start-up, joins |
| `FeederEventPublisher`, `LogService` | maps of subscribers | `Publish`, subscribe, unsubscribe, `WatchAlerts`, `WatchLogs` | a blocking write under a shared lock, streams that end |
| `JsonConfigStore` | file, write time, watching thread | `Load`, `Watch`, `StopWatching` | edits between two reads of the file |
| `Buffer`, serializers, `MessageParser`, conversions | none | encoding and decoding of events | what is written must be what is read, texts of any length |

File events flow from a filter callback through `Enqueue` into the ring, and
from the worker through `FltSendMessage` to a pending receive of the
communicator; process events are sent by the notification itself. An IOCP worker
parses them into the `ThreadSafeQueue`, and an event loop of `MonitoringService`
hands them to the publisher's subscribers.

The first 1018 lines of `Filter.cpp` and the end of `Karmor.cpp` are
commented-out code. Some code is dead: `STATUS_TIMEOUT` satisfies `NT_SUCCESS`,
so the branches of `SendOne` and `WorkerLoop` that handle it are never reached;
nothing sets `readOnly`, so `PostWriteCallback` is never asked for;
`GetOrPopulateProcessContext`, `Save`, `ToJson` and `Serializer.h` have no
caller; the completion port is never closed under a waiting worker.

## Modules

`SlotQueue` is the abstract specification: a bounded first-in-first-out queue
whose places are reserved, filled and taken. `SlotRing` is shown to implement
it until its first fault (`RingIsQueue`).

`SlotRing` models `ProduceSlot` and `ConsumeOne` step by step between their
interlocked operations. `readHead` and `writeHead` are the heads, `ring` the
headers at ring offsets, `live` a history of the slots that were claimed.
Lengths are in units of `ASYNC_SLOT_ALIGN`. The heads are natural numbers: the
ring size is a power of two, so it divides 2^32 and the wrap of the 32-bit
heads changes no masked value. A claimed slot may be found old at any time,
which stands for every value of the tick counter. A header read where no header
was written has any plausible content. When the worker misreads a slot or gives
one up the ring has a `fault`, and the layout properties speak of the time up
to it: what the ring does afterwards depends on bytes of old payloads. `hadRoom`
remembers whether the ring had room for an event when its producer read
`m_writeHead`; `DropNeedsFullOrLapped` compares a refusal with it.

`AsyncEventDispatcher` models the life of the dispatcher around a ring of
tickets: load, activation, callbacks in `Enqueue`, the worker's waits and drain
cycles, `SendOne` with its copy of the port, the client's connect and
disconnect callbacks and the unload callback. `delivered`, `timedOut`, `failed`
and `unsent` record what became of an event. The ring may break at the steps
where that of `SlotRing` has its faults: a claim that fills it to its last unit,
padding that leaves a tail without a header or is read too early, the skip of a
stuck slot and that of a slot which still reads as free. From then on (`broken`)
nothing is known of the slots: a producer may be refused or not, and the worker
may find nothing or take an event from it, whatever was put in. So the
properties that are stated without `broken` hold after such a break too; an
overrun of memory, by a copy of a misread length, is not modelled. `owed` remembers what was committed when `Uninitialize` began,
and `cut` a failed send in the last drain.

`ProcessCache` models create and exit notifications as processes that run in
parallel with each other. The mutex makes each method of the cache one step;
the steps of `SerializeProcessEvent` between them interleave. Blocks of memory
are model values with a state, so that leaks, double frees and uses after free
are visible. Hash buckets are one set: a lookup compares pids within the bucket
of that pid. The statistics counters of the cache other than the number of
entries are left out.

`ThreadSafeQueue` models a call as the states of its thread: it wants the mutex,
waits, was woken, or its time is up. Everything done under the mutex is one
step, `notify_one` wakes any one waiter, and spurious wake-ups happen. Items are
counted because nothing looks at them.

`FilterPortCommunicator` models `Connect`, the workers and `Disconnect`. A
receive context is held by a thread, pending in the kernel, or in a packet of
the completion port, which is first in, first out. What a message says does not
change what happens to it here; `EventPath` models the parsing. The latency
statistics are left out. `CancelIoEx` marks the receives that are pending when
it is called; they complete later. `late` remembers which receives were past
their check of `IsConnected` at that moment.

`FeederEventPublisher` models `Publish` and the calls `WatchAlerts` and
`WatchLogs`. A publisher holds the shared lock of a table from `LockShared` to
`PublishReturns`; the exclusive sections are single steps that wait until no
publisher holds it. The order of ids is the order of subscription. The content
of an alert or log is left out, and `ShouldSendToSubscriber` is constant.

`FileCallbacks` models the callbacks of create, read, write, set-information and
cleanup for threads that work on the same file object. A thread walks through
the calls of its callback one by one, with every `__leave`; contexts have the
reference counts of the filter manager, and a callback's references are those
of the place it is at. `did`, `missed` and `raced` record what really happened to the
file, against which the reported events are compared. Names, hashes and file classes
are left out (nothing decides on them).

`DriverLifecycle` models `DriverEntry` with a failure of every call, the set-up
and teardown of instances, the device control requests on the rule table, and
unloading. The lists of the table are sequences of blocks of memory. `LookupRule`
moves along its list one entry at a time, without the lock; a walk whose entry
is freed under it is `stray`, and what it does from there is undefined.
`RemoveRule` reads the action of the entry it has freed, so the value it sees is
any.

`EventCodec` holds the wire format as operators: the two serializers over a
`Buffer`, `Parse`, `get_string_at_offset`, and the conversion to a `Log` or an
`Alert`. A text is its length in bytes and what it says, a buffer the set of
texts with their places; reading a place where no text of that length starts
gives garbage. `Populate` puts the name and the image path into the context,
where a long image path runs into the name. `EventPath` composes the codec with
the queues between the two programs (sequences here, modelled by the modules
above) and follows every event from the callback to the subscriber. What the
modules of the ring say of it is a loss here: an event may be refused, and a
ring that breaks has lost the events in it and loses every later one
(`astray`).

`ConfigStore` models `JsonConfigStore` against an administrator who edits the
file at any moment; a version of the file is its time. `UserService` extends it
by `main`, the event loops, `MonitoringService::Stop` with its two callers, the
signal handler on its own thread, the gRPC server and its clients. What is
behind `Connect`, `ReceiveEvent` and `Publish` is in the modules above; here
they succeed, fail, time out or block. An unjoined `std::thread` that is
destroyed, and a vector that is changed while another thread walks it, end the
process (`aborted`).

`MCSlotRing`, `MCAsyncEventDispatcher`, `MCProcessCache`, `MCFileCallbacks`,
`MCDriverLifecycle` and `MCEventPath` add values, symmetry and constraints for
TLC. Definitions under a comment that starts with "Mutant" are faulty variants
of the definition that follows; no specification uses them, and `PROJECT.json`
says which property each of them breaks.

## Runs

| Run | Shows | Bounds |
|---|---|---|
| `ring` | until the first fault: live slots tile the ring between the heads, headers are those their owners wrote, no two threads share units, the ring is a queue, an event that fits is dropped only if there was no room for it when its producer read `m_writeHead` or if the worker had passed that position by then, every call is counted once | two producers, three events each, ring of 16 units, strides 3 to 5, heads up to 24: one and a half laps, so padding, an exact fit and reuse of old headers all happen |
| `ring_live` | every claimed slot is passed by the worker unless the ring breaks | one stride, which leaves padding at the end of the lap |
| `dispatcher` | with a ring that may break: one fate per event taken, exact counters, buffers outlive the worker, the last drain leaves nothing behind that was committed before it, no lost wake-up, unloading ends | two callbacks, three calls, two slots, one port: the ring fills, the client connects and disconnects once; a broken ring hands out at most two tickets and is followed for a few calls and takes (`MaxTakes`, `BrokenBound`) |
| `dispatcher_closed_port` | violation: a send enters with a port closed meanwhile | two ports |
| `process_cache` | one entry per pid, no leak or double free, references returned, exact count, no entry of a dead process except after an exit that found no buffer | three pids, each started twice, two blocks of memory: collisions, failed allocations and reuse happen |
| `queue` | no lost wake-up, nobody sleeps on a closed queue, `Close` releases, timed calls return | three threads on a queue of two |
| `communicator` | a context is in one place, messages are accounted for, handles outlive workers, only receives that were being submitted escape `CancelIoEx`, `Disconnect` returns | two workers, two contexts, three receives and messages, a queue of one |
| `publisher` | a writer is used by one thread and not after its call has returned, no active stream misses an event, nothing of a stream outlives its call, calls of clients that are gone return | two event loops, two streams, two events of either kind |
| `file_callbacks` | contexts are released as often as referenced on every path, the events of a file object are those of its requests as far as the code reports them, and they make one story with one end | three threads, one file object, three requests on it |
| `driver` | what a failed or finished `DriverEntry` and an unloaded driver leave, references of instance contexts, safe walks under the lock, the count of Allow rules, requests return | two requesters, two paths in one bucket, two blocks, three requests, one volume |
| `event_path` | an event is published once or lost once, what is published is what happened, no file event is lost for its size, who may overtake whom | three events of seven kinds with texts just below and above 4096 bytes and above 32 KB and an image path that fills the context, two workers, two loops, a queue of two; the sizes are those of the code |
| `service` | no configuration is skipped, event loops never outlive the receiver, one thread in `Stop`, clean exit, aborts only around a start, changes are delivered, a signal ends the process | two edits, up to two event loops, one client, a signal at any moment |

Some invariants are conjunctions of named parts, which their modules state one
by one: `LayoutSound` (`SlotsTile`, `HeadersMatch`, `NoSharedBytes`),
`TableExact` (`OneEntryPerPid`, `ActiveExact`), `EntriesAccounted`
(`NothingLeaks`, `RefsReturned`), `NothingLost` (`OnePlaceEach`,
`MessagesAccounted`), `ClosedAfterUse` (`HandlesOutliveWorkers`,
`EscapesInFlight`), `StreamsSound` (`WriterUsedSafely`, `SubscribersExact`),
`ContextsSound` (`ContextsCounted`), `LifecycleClean` (`EntryAllOrNothing`,
`UnloadLeavesNothing`, `InstancesCounted`), `RulesConsistent`
(`LockedWalksAreSafe`, `WhitelistExact`), `EventsAccounted` (`OnePlace`,
`FileEventsFit`) and `StopIsOrderly` (`LoopsOutlived`, `OneStopper`,
`CleanExit`, `AbortsOnlyInStart`). The type invariant of a module is a part of
one of them too; that of `ThreadSafeQueue` is proved instead.

Deadlock is checked in `queue` and `service`. Elsewhere the system may stop: it is unloaded,
disconnected, or the bounds are used up.

## Fairness

Kernel threads are not killed inside a callback and get the processor, so every
enabled step of a producer is taken in the end (`WF` on `ProduceSlot`). The
worker of the dispatcher waits at most `ASYNC_IDLE_TIMEOUT_MS` and a send at
most one second, so its steps are weakly fair too; of the callbacks in
`AsyncEventDispatcher` only that, while some are under way, one of them goes on.
Nothing is assumed of the client. `CommittedIsTaken` says that the ring is
emptied of committed events once the callbacks pause, for their calls are
bounded. In `ThreadSafeQueue` a thread that can have the mutex gets it; the
deadline of a timed wait is absolute, so it passes however often the thread is
woken, which is strong fairness of `Timeout`. An IOCP worker waits one second
at most. For the publisher a client that stays is assumed to read its stream:
one that does not blocks `Write`, with it the shared lock, and with that the
end of every other call of its kind. Events are bounded there, so starvation of
an exclusive waiter by an endless succession of publishers is out of view.

In `UserService` every thread of the process is scheduled, and `ReceiveEvent`
returns after its timeout. Nothing is assumed of the signal, the administrator,
or the clients; `SignalStops` names its assumption that the clients leave, which
`Shutdown` without a deadline needs. `EventPath` assumes no fairness and claims
no liveness: events in a broken ring stay there, and a client that does not read
blocks `Publish`. In `DriverLifecycle` the thread of a request runs it to its end, except from a
stray walk, of which nothing is known.

## Proofs

`AsyncEventDispatcher_proofs` proves, for any set of callbacks, any ports and
any capacity: type correctness, `RingOutlivesWorker`, `OneFateEach`,
`CountersExact` and `DrainKeepsPromise`. The types need the fact that the worker
holds an event exactly between taking it and deciding its fate (`HeldInv`). The
counters need `RingInv`: while the ring is whole, tickets being filled lie
between the heads, belong to one callback each, and are not yet committed.
Memory safety needs the invariant that ties the stage of loading and unloading
to the flags and to the worker's state, so that the ring is freed only after the
worker has ended. `DrainKeepsPromise` needs two more: `StopInv`, that the worker
is in its last drain only after the stop event, and `OwedInv`, that what was
owed is still committed or has been taken.

The second part of the module is about `SlotRing`, for any number of writers and
events and any sizes with a header of at most a quarter of the ring:
`LayoutSound`, `EveryCallCounted`, the action property `DropNeedsFullOrLapped`,
and the refinement of `SlotQueue` (`RingImplementsQueue`). The invariant `SlotInv`
has five parts. `RingTypes` gives the types. `Tiled` says that the live slots
cover the positions from the worker to `writeHead`, any two of them apart and
none across the end of the ring, and that they are less than a lap. It compares
two slots at a time; no sum over slots is needed. `Owned` says that the slot a
writer fills is live, and that a writer about to exchange `m_writeHead` still
has the room it saw if `writeHead` has not moved. `Prepared` says what a writer
has written of its header so far, and `HeadersMatch` what the worker will
read. Positions less than a lap apart have different offsets (`LapUnique` and
the lemmas after it), so a header that one writer fills is not that of another
slot. `EveryCallCounted` needs none of this: it is inductive with the types.
`DropNeedsFullOrLapped` needs `RoomKept`: as long as the worker has not passed
the position a producer read, the room it saw there has not shrunk, for the
worker only moves forward.

The last part of `EventPath_proofs` proves for `ThreadSafeQueue`, with any number
of threads and any capacity, that no wake-up is lost (`NoLostWakeup`) and nobody sleeps on a closed queue
(`ClosedIsAwake`). `WakeupsSuffice` is inductive together with the types and
`NobodySleepsClosed`: a thread that takes an item takes one from the balance
whether it was woken or not, and wakes one in the other direction.

`ProcessCache_proofs` proves `TableExact`, `EntriesAccounted` and
`CacheTellsTruth` for any pids and any memory. The properties are not inductive:
between two critical sections a notification relies on what it read in the
first. `Pointers`, `FreshEntry` and `Unlinked` say what that is; `UsersSafe`
says that a reference protects its entry as long as none was freed in use
(`dangled`), after which nothing can be said about memory.

`FilterPortCommunicator_proofs` proves `NothingLost` and `ClosedAfterUse` for
any workers, contexts, receives and messages. `Stages` ties the progress of
`Connect` and `Disconnect` to `running_`, the handles and the workers; `Places`
says without counting that a context is with one thread, in one packet or
pending; `Marks` ties that to `in_use`; `Escapes` follows the receives submitted
after `CancelIoEx`. The cardinalities of `OnePlaceEach` follow at the end.

`UserService_proofs` proves `StopIsOrderly` for any number of event loops and a
signal at any moment. `Stop` has no lock, so the invariant says who may be where
in it (`Turns`), what has become of the loops by then (`Stopped`), and that a
signal which comes when the server is up finds every loop started (`InTime`).
`NothingSkipped` of the store is proved there too, with the fact that the stamp
is never ahead of the file.

`DriverLifecycle_proofs` proves `LifecycleClean` and `RulesConsistent` for any
volumes, requesters, paths, buckets and memory. `Stages` gives what is held at
each stage of `DriverEntry` and of the unload, `Listed` that a rule is on the
list of its bucket once, `Locking` who is inside `m_Lock`, and `OnTheWalk` that
the walk of `RemoveRule` stands on its list. `Unlinking` is the lemma about
`RemoveEntryList`: it takes off one entry and leaves the others.

`FileCallbacks_proofs` proves `ContextsSound`, `OneStory` and `ReportsFaithful`
for any threads, file objects and requests, where the run has one file object.
A callback touches one file object, so the invariant is stated for each of them
(`FileInv`), and the lemma `Elsewhere` shows that a step confined to one leaves
that of the others. `Life` says which callbacks can run in which part of a
file's life, `Counted` is about its references, `Story` about the order of its
events, and `Faith` relates the requests that succeeded, the marks in the
context and the events; `Silent` says that no write is ever marked or reported.
There is one lemma for each action.

`EventPath_proofs` proves `PublishedIsTrue`, `OvertakesOnlyTogether` and
`EventsAccounted` for any events, workers, loops and capacity, and for any sizes
of the `EVENT`, the headers, the paths and the buffers that leave room for two
paths. `RoundTrip` is about the codec alone: the texts of a buffer lie behind
one another (`Laid`) and each field says where its text is (`Holds`), so an event
that fits both buffers is parsed and converted to what happened, whatever the
lengths of its texts. `ToldIsTrue` adds the context before the codec, with a
file name that an image path may have overrun. `Truth` carries this through the
queues. `Order` says
within each stage, and between each stage and the later ones, which events may
be ahead of which. `Placed` says without counting that an event is in one place:
a lemma for each kind of step moves one event from one place to another and
leaves the others, and `OnePlace`, with its cardinalities, follows.

`FeederEventPublisher_proofs` proves `StreamsSound` and the action property
`ActiveAreReached` for any streams and publishers. `Exact` and `Unique` tie the
tables to the calls; `Walk` says of a publisher inside its loop that the
subscribers before it are in the table, that it holds the mutex of the one it
writes to, and that every active subscriber was reached or is still before it.
The exclusive lock of a table keeps it as it is while a publisher walks it.

Every theorem holds under the assumptions named in the modules and no other:
finite sets, bounds that are natural numbers, sizes that are positive, null
values outside the sets they complete, at least one pid, a slot header of at
most a quarter of the ring, and buffers with room for an `EVENT` and two paths
(the constants of the code satisfy the last two, and the runs use the code's
sizes for the last).

Every invariant of the passing runs is proved, and so are the action properties
and the refinement. Only model-checked are the liveness properties
(`EverySlotPassed`, `CommittedIsTaken`, `UnloadCompletes`, `CloseReleases`,
`TimedCallsReturn`, `DisconnectReturns`, `GoneStreamsEnd`, `RequestsReturn`,
`ChangesDelivered`, `SignalStops`): fairness is out of the
prover's reach.

## Findings and known deviations

`dispatcher_closed_port` shows that a send can enter with a port that was closed
meanwhile, against the comment at `Filter.cpp:1438`.

The models contain more behaviour that the code's documents or comments do not
expect. No property denies it; where one is close, it says exactly how far the
behaviour goes.

- A slot seen between the exchange on `m_writeHead` and its `Claimed` mark is
  skipped by the length of a header, into the middle of the slot
  (`AsyncEventDispatcher.cpp:331`, against `PR_DESCRIPTION.md:67`). In `SlotRing`
  this is a fault.
- A ring filled to its last byte has masked size zero; the worker takes it for
  empty and never drains it (line 253, against `PR_DESCRIPTION.md:37`).
- A producer that is overtaken between its reads of the two heads can find a
  ring with room full and drop its event (line 180). `DropNeedsFullOrLapped`
  shows that nothing else drops one.
- A callback that commits after the last drain cycle, a slot still being filled
  during it, or a send that fails in it leaves events in the ring that is freed,
  although the unload callback's comment says the ring is drained.
  `DrainKeepsPromise` says what is not left behind.
- An event whose send times out is counted nowhere, although
  `PR_DESCRIPTION.md` item 4 says it is dropped.
- The stride by which a stuck slot is skipped is written after its tick, against
  item 5, so it can be that of an older slot.
- `RemoveProcess` frees an entry that a child's notification holds
  (`ProcessNode.cpp:100`, against `PR_DESCRIPTION.md:102`); `ProcessCache` keeps
  it in `dangled`.
- A receive submitted after `CancelIoEx` is pending when its buffer is freed,
  against the comment at `iocp_filter_port_communicator.cpp:125`.
  `EscapesInFlight` bounds it.
- A deletion that is taken back still counts as one (`Filter.cpp:1308`); writes
  are not reported, as `docs/FEATURES.md:14` says. `ReportsFaithful` states both.
- When `FltSetInstanceContext` fails the context is released twice
  (`Filter.cpp:1505`); `InstancesCounted` shows it is the only such path.
- A failed `DriverEntry` step may end in success without the device, and two
  failures leave the filter registered; `EntryAllOrNothing` has them all.
- The lookup after an insertion may walk a freed entry, and the count of Allow
  rules may go wrong once a freed action was read (`Globals.cpp:73`, `100`).
- `event.type` is never set, so `Publish` chooses the stream by chance, against
  the comment at `feeder_event_publisher.cpp:16`; `EventPath` lets it be either.
- A signal before the server is up can leave the service half stopped, or abort
  it; a start that fails after `Watch` ends in `std::terminate` instead of
  returning 1. `AbortsOnlyInStart` shows that nothing else aborts.
- An edit between the two reads of `Load` is taken for loaded.

## Not modelled

A callback that passes the `m_active` check before `Uninitialize` writes into
the ring after it is freed; the model has that state (`ringAlive` is false with
a callback in the ring) and no property denies it.

Four more hazards were seen in the code and no property covers them. A buffer
that cannot be allocated in `Connect` leaves both handles open
(`iocp_filter_port_communicator.cpp:76`): the process ends soon after.
`context_pool_` is cleared without its mutex while the performance thread may
read it (line 170), and that thread, detached at `main.cpp:163`, may outlive the
locals of `main` it uses; it is not modelled. `Rule.cpp:20` sets a
`MaximumLength` larger than the buffer, which nothing appends to. `PROJECT.json`
lists the other hazards; those that share a line of reasoning are listed once.

An image path longer than both path buffers of a context (`Context.cpp:607`)
overwrites what lies behind it; `EventPath` takes those that end within them,
and claims no file name for one that runs into the second. What a broken ring
sends to the client is not modelled: `EventPath` counts its events as lost, where
the code may send them again, cut or changed. Time stamps, process ids and the
`blocked` flag are left out of the codec, and no property sees them; the service
reads the driver's time, in units of 100 ns since 1601, as the time since 1970
(`message_parser.cpp:16`). `KarmorUnload` is a single step, so notifications
between its calls are not exercised.

Left out for good, because nothing in them can be checked or nothing calls them:
ETW code (`KarmorLogs.h` is generated) and logging; the vendored `json.hpp`, by
far the longest file; the generated gRPC code; `svc/`, an earlier prototype of
the service; the classification of volumes and files in `Context.cpp`, which is
only printed; network events, which the service can parse and the driver never
sends; `Save` and `ToJson`, `Serializer.h`, `EventHeader.h` and the typed writers
of `Buffer`, `GetOrPopulateProcessContext`, `EventProcessor::Filter` and
`Aggregate`, which have no caller; the performance thread of `main` and the
statistics it prints. These are about four fifths of the lines of the
repository; of the rest the map covers about half, and what remains is
declarations, comments, tracing and commented-out code.
