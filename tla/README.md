# TLA+ models of threesomeip

threesomeip is a SOME/IP middleware in C++23: a *runtime* process routes SOME/IP
messages between the *applications* of one machine, which reach it over UNIX
datagram sockets, and the runtimes of other machines, which it reaches over TCP.
This directory holds TLA+ models of its parts, TLC configurations that check
them on small instances, and TLAPS proofs of theorems about them. All paths
below are relative to the repository.

1. [The system](#1-the-system)
2. [The modules and how they correspond to the code](#2-the-modules-and-how-they-correspond-to-the-code)
3. [What TLC checks](#3-what-tlc-checks)
4. [Fairness](#4-fairness)
5. [What is proved](#5-what-is-proved)
6. [Where the code disagrees with itself](#6-where-the-code-disagrees-with-itself)
7. [What is not modelled](#7-what-is-not-modelled)
8. [Plan](#8-plan)

## 1. The system

| component | state | operations | interacts with |
|---|---|---|---|
| `active_object_t` (`src/active_object.cpp`) | job queue, poll vector, two callback maps, eventfd, `f_terminate`, one worker thread | `add_to_todo_list`, add/remove fd to/from the readable/writeable watch list, destructor | everything: all callbacks below run on its worker |
| `timer_handle_t` (`include/timer.hpp`) | state, duration, `itimerspec`, timerfd | start, pause, resume, stop, restart, reschedule, destructor, callback wrapper | watch list of the active object |
| `lifecycle_listener_t` (`include/lifecycle_listener.hpp`) | INIT, ALIVE, DEAD | `to_alive`, `to_dead` | base of the sockets |
| `awaitable_t` (`include/awaitable.hpp`) | the coroutine that waits | suspend, resume with a value | TCP socket, proxy |
| `ud_socket_t` (`src/udsocket.cpp`) | descriptor, queue of retriable messages, address cache | `send`, retry, receive, death | active object, callbacks of stub and proxy |
| `tcp_socket_t` (`src/tcpsocket.cpp`) | listening descriptor, connections by endpoint and by descriptor, queue per connection | `send_to`, accept, receive, retry, evict | active object, stub |
| `runtime_stub_t` (`src/runtime_stub.cpp`) | registered applications, aliases, heartbeats by recency and their lookup, eviction timer, pending requests, reassembly buffers | one handler per IPC message, eviction callback, `forward` | both sockets, timer |
| `runtime_proxy_t` (`src/runtime_proxy.cpp`) | `m_runtime_online`, `m_reconnect_in_progress`, heartbeat timer | reconnect coroutine, `send_heartbeat`, `send` | ud_socket, timer |
| `multi_index_unordered_map_t` (`include/multi_index_map.hpp`) | primary map, secondary maps | insert, alias, remove_alias, erase, at, contains | stub |
| serdes (`include/serdes/`) | none | serialize, deserialize | stub, proxy, example |
| configuration (`src/configurable.cpp`) | parsed file | parse | stub, proxy |
| calculator example (`example/`) | client: session counter, pending promises; provider: precision | `add`, `get_precision`, `set_precision`, `beepboop`, `on_message` of both sides | proxy |
| main programs (`src/main_*.cpp`) | the user interface's fields | calls from the interface, threads that wait for the futures | calculator example |

**How they interact.** Each process has an active object. Its worker sleeps in
`poll()` over a snapshot of the watch list and runs the callbacks that timers and
sockets have registered, with its mutex released; sockets and timers change the
watch list from there and from other threads. The applications' proxies send
REGISTER, OFFER, REQUEST, HEARTBEAT and SOME/IP messages as datagrams to the
runtime's stub, which keeps the registry and forwards SOME/IP messages between
applications and, over TCP, other runtimes. Results that are not known at once
come back as callbacks (UNIX socket) or by resuming a coroutine (TCP socket, the
proxy's reconnect).

**What is hard, and what makes each component correct.**

| component | hard behaviour | correct if |
|---|---|---|
| active object | eventfd drained after the mutex was released; watch list and maps change while callbacks of an older snapshot run; destructor against sleeping worker | no wake-up is lost, list and maps agree, jobs run, watched descriptors are served, `join()` returns |
| timer | operations fall between `poll()`, the callback's `read()` and the callback; destruction by the last owner meanwhile | the kernel timer does what the state says, no callback after destruction |
| heartbeats | iterators, list and registry change in three handlers and a timer callback; applications restart; the worker is late | iterators stay valid, the list stays ordered, only silent applications are evicted, and they are |
| forwarding | aliases are raw pointers; providers and requesters come and go while requests are pending; sessions are reused | no alias dangles, nobody loses a service to another, answers go to who asked |
| reassembly | chunks end anywhere; the buffer outlives its connection | what is forwarded is what was sent |
| proxy | a reconnect is suspended while heartbeats are sent, delayed and reported late; the runtime comes and goes | one reconnect at a time, REGISTER first, outages noticed and repaired |
| UNIX socket | the mutex is released around callbacks and `to_dead()`; several threads die at once; the watch is given up while others queue | each result is true and reported once, what is queued is watched for, the descriptor is closed once |
| serdes | sizes are computed in four places (from the type, from the value, for the length field, by the cursor) | what is written is read back, and the buffer is filled exactly |
| calculator | the user interface's thread inserts promises while the worker resolves others; sessions wrap and start again with the process; messages are lost | a call takes effect once at most, and returns what it did |
| TCP socket | partial writes, connects in progress, reconnecting peers, reuse of descriptors | the index leads to live connections of the right peer, bytes are written once and in order, coroutines are resumed once |

`PROJECT.json` lists the hazards behind this table, each at its line and with the
properties that cover it or the reason why none does.

## 2. The modules and how they correspond to the code

`PROJECT.json` ("map") gives the lines every definition stands for. A definition
marked *mutant* in its comment is not part of a model: it is a plausible bug that
a property is shown to catch when it takes the place of the definition it
follows. Modules named `MC...` only give constants their values. `CalculatorState` and
`TimerHandleState` hold a component's constants, variables and promises, which both
the component's module and one that instantiates the component beside another extend.

| module | models | one action is |
|---|---|---|
| `ActiveObject` | `active_object_t`; readable and writeable API by one operator with the event as parameter | a stretch of code between two releases of the mutex |
| `Timer` | the operations of `timer_handle_t` as functions on a record, with `timerfd_settime()` | (operators) |
| `TimerHandle` (with its state in `TimerHandleState`) | one timer, its owners, and the worker's dispatch of its callback | an operation under `m_mutex`, or a step of the callback wrapper between two locks |
| `Heartbeat` (uses `Timer`; implements `LeaseTable`) | the stub's registry as far as liveness goes, list and iterators, eviction callback, the worker's round | a handler, one iteration of the eviction loop, a tick of the clock |
| `LeaseTable` | what the runtime promises of liveness: a registration is a lease that heartbeats renew and a sweep takes when it is over | (abstract) |
| `MultiIndexMap` | `multi_index_unordered_map_t` as operators | (operators) |
| `Router` (uses `MultiIndexMap`) | the stub's registry as far as services go, `forward()` and the pending requests | a handler |
| `Reassembly` (implements `MessageChannel`) | `handle_on_receive_reliable()` and the assembly line of one endpoint | a chunk handled |
| `MessageChannel` | what a runtime may expect of another one's messages: whole, in order, once | (abstract) |
| `RuntimeProxy` | constructor, `reconnect()`, `send_heartbeat()`, against a runtime that is a buffer and what it knows | a stretch of the coroutine between two suspensions, a heartbeat, a retry of the socket |
| `UdSocket` (implements `DatagramService`) | `send()`, the retry loop, `to_dead()`, with several threads | a stretch of code between two lock operations or accesses to the life-cycle stage |
| `DatagramService` | what a sender of datagrams may expect: one true verdict on each message | (abstract) |
| `TcpSocket` | `tcp_socket_t`, the worker's round over its descriptors, the kernel's buffers | a callback, or one iteration of the retry loop |
| `Serdes` | `serialize()`, `deserialize()`, `serialize_dry_run()` for all kinds of types | (a type is a record of what the templates are for it) |
| `Calculator` (with its state in `CalculatorState`; implements `AtomicCalculator`) | `calculator_proxy_t` with its two threads, `calculator_stub_t`, the runtime between them | a stretch of a call before and after the promise is inserted, a message handled, a process that ends or starts |
| `AtomicCalculator` | what a user of the service may expect: a call takes effect at one moment, or not at all | (abstract) |

How they fit together: each component is modelled against its neighbours reduced
to what it can see of them. `Heartbeat` and `TimerHandle` share `Timer`; `Router`
lets an eviction happen whenever an application is registered, which includes
every moment `Heartbeat` evicts one; `RuntimeProxy` reduces the UNIX socket to
the results `DatagramService` promises, which `UdSocket` implements (`SENT`,
`DELAYED_RESULT` followed by one report, `RECIPIENT_AWAY`), and lets the runtime die exactly when `Router`'s handlers throw;
`Reassembly` takes the stream a TCP connection delivers as one in which messages
follow each other, which `tcp_stream` shows `TcpSocket` does not always produce. `Calculator` reduces
the runtime to what `Router` says of one client and one provider: a request is
remembered by client, service, method and session, the first answer to it is
forwarded, both may be evicted, and the runtime's process ends when a handler
would throw.

The abstract specifications have no threads, buffers, lists or sessions. `ImplementsService`
maps `UdSocket` to `DatagramService` by the verdict on each message (`Verdict`: what
`send()` returned, what was reported, or what the worker is about to report) and the
queue without the front that has its verdict. `ImplementsChannel` maps the line of
`Reassembly`, what it has buffered and what is still in the stream, to the set of
messages of which it holds a word. `Linearizable` maps `Calculator` to the calls
made, the provider's precision, and the results of those calls that were resolved by
their own answers. `ImplementsLeases` maps
`Heartbeat` to the age of each registered application's record, the one its iterator
leads to; the ages of its other records, which a registration while it is registered
leaves behind; and the set of those named in what is left of `apps_to_evict`. That the
eviction loop takes whose lease was over, all of them and nobody else, then holds of
the list because it is ordered and of the lookup because it is consistent; and the
table keeps the one weakness of the code, that a forgotten record counts against its
application.

Abstractions that matter to the reader:

* *Callbacks and messages are names.* A callback is known by the descriptor and
  event, or the job, it was registered for. Messages are model values; in `Router`
  a request is the three header fields its key is made of.
* *Time* is counted in ticks. `Timer` tells a duration the program writes as a
  literal from one computed from the clock, because `reschedule()` compares them:
  `reschedule(10 s)` of a 10 s timer does nothing. A negative time is kept
  negative, as `timerfd_settime()` refuses it.
* *List iterators* are node identities (`Heartbeat`), so that an iterator that
  dangles or leads to somebody else's node can be told.
* *Undefined behaviour* is a choice: `RetryEmpty` (front() of an empty queue)
  may end the process, fail as a dead socket would or find the kernel busy. A data
  race on the life-cycle stage does not arise, it is atomic; its load and store
  are two actions.
* *Bytes* are counted in words of four in `Reassembly`. Its chunks may end
  between any two words, and a length is whatever the second word of what lies in
  the buffer happens to be, also when that is not a length at all.
* *Types and values*: a type of `Serdes` is a record of what the templates make of it:
  what is written of a value, what is measured, what is read at a cursor, and whether
  its size is known at compile time. Types of arrays and structs are made of those of
  their elements and fields, as the templates instantiate each other. An enum is its
  integer, a float the integer its bits are, a text the sequence of its bytes; a struct
  is its fields one behind the other, without the length field that the configuration
  does not have. Samples stay within 31 bits, TLC's integers; the operators do not
  depend on it, nor do the proofs. An array of structs with a field of a dynamic size
  does not compile (`include/serdes/aggregates.hpp:202` declares a static dry run for
  every struct, which `arrays.hpp:71` takes); `Both` has it as one that is read by its
  length, so that the theorems say more than the code can do. No sample is one.
* *The calculator's data race* on `m_pending_requests` (`example/src/calculator_proxy.cpp:60`)
  is a choice of outcomes (`Race`): entries may be lost, a lookup may miss, an entry
  may stay. Properties that name a session's promise except behaviours in which it
  happened. The sum of two numbers stands for itself.

## 3. What TLC checks

`tlc -config X.cfg M` for each row. Deadlock is checked in all runs but
`reassembly`, which stops when its bounded number of messages has been sent and
received; the process' orderly end is an explicit disjunct where there is one
(`Terminated`, `Crashed`, `Gone`).

| run | module, configuration | bounds | shows |
|---|---|---|---|
| `active` | `MCActiveObject`, `active.cfg` | two descriptors, three watches, one job | `WatchlistConsistent`, `NoLostWakeup`; `JobsRun`, `RoundDrainsTodoList`, `WatchedFdServed`, `DestructorReturns` |
| `timer` | `MCTimer`, `timer.cfg` | durations of -1 to 3 ticks, literal or computed, both kinds of timer | `KernelFollowsState`, `NoCallbackAfterDestruction`; `ArmedKeepsFiring` |
| `heartbeat` | `MCHeartbeat`, `heartbeat.cfg` | two applications, four list nodes, a timeout of 2 ticks, restarts | `LookupConsistent`, `FrontIsLeastRecent`; `ImplementsLeases`, `SilentAppEvicted` |
| `router` | `MCRouter`, `router.cfg` | two applications that both offer one service, one remote endpoint, three services, three calls made twice | `AliasesLeadToProviders`, `OfferedIsReachable`, `AnsweredWasAsked`; `ProviderKeepsService` |
| `reassembly` | `MCProtocol`, `reassembly.cfg` | stream: three messages of up to five words, chunks of up to eight words. Calls: three of two methods, two sessions, two processes of the client, one thing lost or restarted. Values: 47 samples, in pairs | stream: `ImplementsChannel`, `WaitsForNextChunk`; calls: `AnswersAreOwn`, `BrokenOnlyByReuse`, `Linearizable`, `CallAnswered`; values: `RoundTrip`, `ForeignMarkSkipped` |
| `proxy` | `RuntimeProxy`, `proxy.cfg` | a receive buffer of three messages, three messages queued | `OneReconnect`, `RegisterComesFirst`; `OutageNoticed`, `NoticedOutageRepaired` |
| `udsocket` | `MCUdSocket`, `udsocket.cfg` | two sending threads and the worker, three messages of which nobody waits for one, one recipient | `DelayedResultsKept`, `QueuedIsWatched`, `ClosedOnceAndUnwatched`; `ImplementsService`, `DelayedResultReported` |
| `tcp` | `MCTcpSocket`, `tcp.cfg` | two descriptors, a client, a provider, three messages of one and two bytes | `IndexLeadsToConnection`, `DescriptorsAccounted`, `BytesInOrder`; `ResumedOnce`, `SentAsAddressed`, `QueueDrains` |
| `heartbeat_assert` | `MCHeartbeat`, `heartbeat_assert.cfg` | a timeout of 3 ticks, no restarts | `AssertionHolds` is violated |
| `router_throws` | `MCRouter`, `router_throws.cfg` | as `router` | `HandlersDoNotThrow` is violated |
| `udsocket_drain` | `MCUdSocket`, `udsocket_drain.cfg` | one sender, two messages | `DrainsWhatIsThere` is violated |
| `tcp_stream` | `MCTcpSocket`, `tcp_stream.cfg` | as `tcp` | `StreamsAreMessages` is violated |

`MCProtocol` puts three layers of the protocol that share no state side by side:
how values become bytes, how messages are cut out of a stream, how calls and answers
find each other. A behaviour is about one of them and the others do nothing, so the
run explores the sum of their states, not the product.

Why the bounds are enough for what can go wrong here:

* `active`: the watch list's hard cases are a descriptor with both events, one
  entry removed before another, and a change while the snapshot is older; three
  watches of two descriptors have them all. Jobs do not refer to each other, so
  one job between watches and the destructor shows every race with the worker.
* `timer`: the kernel refuses a negative duration, whatever it is, and zero disarms;
  one of several ticks may be paused with a part of it left, and three positive ones
  are enough to reschedule from any to another that is longer or shorter. The proofs
  remove the bound, but for `ArmedKeepsFiring`.
* `heartbeat`: list order needs two records, a stray record of a restarted
  application two more nodes, and an eviction of several records needs both. A
  timeout of two ticks lets a heartbeat be younger than, as old as and older than
  the timeout, at every step of the worker. Ages stop at one tick beyond it.
* `router`: two providers of one service show who keeps it and who gets it later;
  `MaxAsked` = 2 is what reusing a session needs; a remote peer is on both sides,
  as requester and as provider of a service configured as external.
* `reassembly`: five words are more than a header read in two chunks needs; eight
  words in a chunk hold two messages; three messages allow one before and one
  after the one that is cut. The proofs remove all three bounds.
* `reassembly`, the calls: two sessions are the fewest that wrap with a call between;
  three calls are what it takes for a session to come round while the first call is
  pending, and to have one more process' call with the same session; a single outage
  meets a call at each of its stations. `get` and `set` are the methods that can tell
  in which order they took effect. A call that is resolved by the answer of a broken
  one, and that passes the same on to the next, takes a fourth call: `AnswersAreOwn`
  and `BrokenOnlyByReuse` speak of those as well. They hold with `MaxCalls` = 4 too
  (19.5 million states, too many for a regular run), and the proofs remove the bounds
  for all four properties but `CallAnswered`.
* `reassembly`, the values: every kind of type with every size of length field it may
  have, nested in each other as the messages of the repository are, with values that
  are empty, of one element, at the limits of their type, and as long as a length
  field of one byte can say. Pairs show that the second is read from where it begins.
  The proofs remove the bounds: any values that fit, any nesting, any number of arguments.
* `proxy`: reconnect sends three messages, so a buffer of three is full after any
  of them and a queue of three holds a step of reconnect and heartbeats before and
  after it. The proofs remove both bounds.
* `udsocket`: a death needs two threads inside `send()` besides the worker to be
  met at every step of `to_dead()`; the queue's front, its next and a message
  without a callback make three messages. The proofs remove both bounds, but for
  `DelayedResultReported`.
* `tcp`: two descriptors are used again as soon as one is closed; two messages to
  one provider are queued behind each other, and a third goes the other way. A
  message of two bytes is the shortest that can be written in parts. The proofs
  remove these bounds for all but `QueueDrains`.

## 4. Fairness

Liveness is only claimed under what the code's scheduling gives:

* `ActiveObject.FairSpec`: the worker thread runs and the joining thread runs
  (weak fairness). Nothing is assumed of callers, of the kernel's readiness or of
  `poll()` failing; `WatchedFdServed` therefore speaks of descriptors that stay
  ready and watched.
* `TimerHandle`, `Heartbeat`: time passes and the worker runs. `ArmedKeepsFiring`
  asks further that the timer is left alone and that the duration it was given last is
  positive; `SilentAppEvicted` excepts a process that has ended and a timer that a late
  worker has rescheduled with a time that is not positive (`RescheduledTooLate`), and
  shows that nothing else keeps a silent application registered. That messages do not
  keep the worker in the socket callback for ever is part of the worker's fairness.
* `UdSocket.FairSpec`: the worker and every thread inside `send()` run. Recipients
  need not read.
* `TcpSocket.FairSpec`: the worker runs, the kernel decides every connect in the
  end (its own timeout), and peers read what they are sent.
* `Calculator.Fairness`: a call that began goes on, and the client's worker, the
  runtime and the provider handle their messages. No process is bound to start or to
  end, and nothing that was lost is sent again, as nothing in the code does that:
  `CallAnswered` excepts calls something of which was lost.
* `RuntimeProxy.FairSpec`: the application's worker runs, its timer expires, and
  a runtime that is there handles its buffer. Retrying is strongly fair: an
  unconnected datagram socket is reported writeable all the time, so retries are
  attempted over and over, while heartbeats that could fill the buffer again are
  3 s apart. No runtime has to be started: `NoticedOutageRepaired` is about
  runtimes that stay.

## 5. What is proved

All proofs are checked by TLAPS for every value of the constants that satisfies
the named assumptions (sets of descriptors, jobs, applications, services and calls
of any size; any timeout, capacity, length and chunk). The assumptions state
how constants relate (`WatchesAssumption`, `CallsAssumption`, ...) or that a bound
is a number (`TimeoutAssumption`, `CapacityAssumption`, `LengthAssumption`, ...).

| module | theorems | argument |
|---|---|---|
| `ActiveObjectProofs` | `TypeCorrect`, `WatchlistAlwaysConsistent`, `NeverLosesWakeup` | `WatchlistConsistent` is inductive with the types. `NoLostWakeup` is not: nothing in it says what the worker's first snapshot may miss, so the invariant (`WakeupInv`) also says that what was posted before it has written the eventfd. Calls that matter to the worker write the eventfd; the steps that drain it end in a callback or in a new snapshot. |
| `HeartbeatProofs` | `TypeCorrect`, `LookupAlwaysConsistent`, `FrontAlwaysLeastRecent`, `TrackLostByRestartOnly`, `OnlySilentEvicted`, `LeasesImplemented`, `EvictionThrowsOnlyIfForgotten` | one inductive invariant (`IInv`, of the types and `RInv`): the list is a permutation of the nodes, ages fall along it, lookup and registry have the same domain, and every application's iterator leads to a node of its own. Neither half is inductive alone: handlers erase from the list through the iterators. Lemmas say what erasing and inserting do to lists and maps, and that the timer's operations keep it a periodic timer. The two action properties need which handlers keep `RecordsTracked`, which is no invariant, and, for the second, that whoever is still on the list of evictions is silent when its turn comes (`SilentToEvict`), although time passes after the list was taken. `LeasesImplemented` maps each handler to the table's (a lemma for each on the lease it gives, renews or ends), and the callback's `take_while` to a sweep that finds every lease that is over, because ages fall along the list. Its eviction loop needs one more invariant (`SweepInv`): a sender named twice in `apps_to_evict`, or no longer registered when its turn comes, has a forgotten record. The same says when `m_apps.at()` may throw there. |
| `RouterProofs` | `TypeCorrect`, `AliasesAlwaysLead`, `OffersAreReachable`, `ServicesAreKept`, `AnswersWereAsked`, `AnswersReachRegistered` | lemmas on each operation of `MultiIndexMap` (consistent in, consistent out). `OfferedIsReachable` needs that what is stored as offered is what is configured (`OfferedAsConfigured` in `RegistryInv`); `AnsweredWasAsked` needs that who waits for an answer has asked once more than it was answered (`PendingInv`). |
| `ProtocolProofs`, of `Reassembly` | `TypeCorrect`, `ForwardsWhatWasSent`, `RefinesChannel`, `NextChunkForwards` | the *line* of a connection, buffer followed by stream, is framed (around each word lies all of its message) and ordered however it is cut; forwarding drops its first message, sending adds one at its end, a connection that ends between messages cuts it there. A declared length is that of the message the buffer begins with. For `RefinesChannel`: the first word of the line belongs to the oldest message under way, so that forwarding delivers that one and cutting the line loses the last ones only. |
| `ProtocolProofs`, of `Serdes` | `IntegersSurvive`, `StringsSurvive`, `FixedStringsSurvive`, `ForeignMarksAreSkipped`, `ForeignMarksOfFixedStringsAreSkipped`, `ArraysSurvive`, `FixedArraysSurvive`, `StructsSurvive`, `ArgumentsSurvive`, `ArgumentsSurviveForeignMark`, `SamplesAreReadBack`, `MarksOfSamplesAreSkipped` | see below |
| `RuntimeProxyProofs` | `TypeCorrect`, `NeverTwoReconnects`, `RegisterAlwaysFirst` | a reconnect that starts over finds an inbox in which no earlier one has left an OFFER or REQUEST, and one that goes on has REGISTER handled or ahead of it, unless the runtime was interrupted. |
| `HeartbeatProofs`, of `TimerHandle` (its instance `Handle`) | `HandleTypeCorrect`, `KernelFollows`, `Watched`, `NoLateCallback` | for all integer durations, zero and negative ones included, literal or computed. Each operation takes a timer that is `Sound` to one that is, so owners may call them in any order. `Sound` says more than the properties, of a periodic timer: one that is not ARMED or PAUSED has no time left (else `reschedule()` would hand it to the kernel), and one whose interval is negative, whose every `timerfd_settime()` is refused, has no kernel timer that still counts down (`Quiet`, whatever it was given); one whose last duration is positive is reloaded when it expires and has time left when it is PAUSED (`Running`), or `resume()` would disarm it. The worker's steps add that a callback being run holds its timer (`HandleInv`). |
| `UdSocketProofs` | `TypeCorrect`, `ClosedOnce`, `QueueIsWatched`, `ResultsAreKept`, `RefinesService` | the invariant (`IInv`) adds to the properties what each thread's place in the code says of the lock, the stage and the descriptor, and that the front of the queue has its verdict exactly while the worker reports it. Every step of a thread has one of five effects (`Effect`): a verdict at once, a message queued, the front decided, the front told, nothing the senders see. Preservation and refinement are proved effect by effect: each is one step of `DatagramService` or none. |
| `TcpSocketProofs` | `TypeCorrect`, `IndexLeads`, `Accounted`, `Resumed`, `Ordered`, `Sent` | the invariant (`IInv`) joins the connections, the watch lists and the kernel's descriptors (`Structure`), what the worker is in the middle of (`JobOK`), and where each coroutine waits (`WaitersOK`). None holds without the others: a retry reads the front of a queue because the watch list says there is one, and the watch list stays right because whoever writes or connects waits in one place. `Resumed` adds that no step but an eviction makes a coroutine that waits wait nowhere. `Ordered` adds what the streams hold (`BytesOK`): of a queued message the first bytes, as many as its entry says, of any other none or all, and none of one whose writing has not begun (`Fresh`), which is why `write_all()` may start at the first byte; a descriptor that is still connecting has written nothing. A message's bytes are told by their positions in the stream (`Written`, `FirstBytes`) rather than selected from it, which would take recursion. `Sent` adds that whatever holds a message or a byte of it, the call that writes it, a connect, a queue or a stream, belongs to a descriptor that leads to its recipient (`Directed`): a message stays with its descriptor while connects are decided and connections evicted, so that the index being right when it was looked up is not enough. |
| `CalculatorProofs` | `TypeCorrect`, `AnswersResolveOwnCalls`, `OwnUnlessBroken`, `BrokenByReuse`, `CallsAreAtomic` | the invariant (`IInv`) says where a call is (`Travels`: with the client, in a request, asked for, or in effect, and then its answers carry that effect's value and are used up by whom they resolve), in which order processes made their calls (`Processes`), that the sessions of a process follow each other and come round after `MaxSession` calls (`Sessions`), and which call the map keeps a promise for (`Promises`). None does alone: an answer that finds a promise finds the oldest call of its session that waits (`Promises`), whose answer that is follows from what the calls of one session have in common (`Sessions`), and that it comes once from `Travels`. `Promises` is all that a race for the map destroys. `BrokenByReuse`: the promise in the way belongs to a call of the same session and process, so by `Sessions` it is the call made `MaxSession` calls earlier or one before that; in the second case the former came later than the promise and was broken (`Promises`). `CallsAreAtomic` maps every step to a call invoked, an effect, a return, or none; an answer returns what its effect came to (`Travels`). `OwnUnlessBroken` says what the exceptions of `AnswersAreOwn` come to: without a broken future and without an earlier process' answers there are none, because a call that another one's answer resolved would need an earlier one to which the same happened, without end. |

*The serialization of values.* A type is `Sound` for a set of values if each of them is
written to as many bytes as are measured, one at least and, where the size is known
at compile time, that many; and if whatever input these bytes lie in (`Lies`), and
wherever, they are read as that value and the cursor is moved behind them (`Reads`).
That is the property of a single template that composes: integers have it by
induction over their bytes (the quotients that are left of the number, the numbers that
the first bytes are), strings because their length is such an integer, arrays because
every element begins where the sizes of those before it say (`Offsets`) and reading
stops there, whether elements are counted or the length is used up, and structs because
their fields follow each other. The hypotheses are the code's own limits: a number
fits its type and the bytes of a string or an array fit their length field
(`IntegerValues`, `StringValues`, `ArrayValues`, ...), which nothing in the code looks for;
an array of a fixed length has an element or a length field. `ArgumentsSurvive` and
`ArgumentsSurviveForeignMark` say it of whole calls, for any number of arguments of any
types, nested to any depth; `SamplesAreReadBack` and `MarksOfSamplesAreSkipped` that
the run's samples are such arguments, headers and messages of the repository among them,
which also shows that the hypotheses can be met. The library's induction theorems cannot be
instantiated by the provers for a predicate given as an operator; where an induction is
needed its predicate is a set (`Induction`, `InductionFromOne`), and that a recursive
function satisfies its equation is shown by building one that does (`Iteration` and the lemmas after it).

Only model-checked is liveness: fairness and ENABLED are beyond the prover. All
invariants and action properties that the runs check are proved, and all four
refinements.

## 6. Where the code disagrees with itself

Four runs end in a violation of something the code says of itself:

* `heartbeat_assert`: the eviction callback asserts that there is somebody to
  evict (`src/runtime_stub.cpp:50`), but the timer also expires when there is not,
  because registrations do not restart it, unregistering the front does not move
  it, and `reschedule(10 s)` of a 10 s timer leaves it running.
* `udsocket_drain`: the retry loop goes on after it popped the last message and
  reads `front()` of an empty queue (`src/udsocket.cpp:257`).
* `router_throws`: handlers called from a `noexcept` function call `m_apps.at()`
  for a sender that may be unknown, most of them to word a log message.
* `tcp_stream`: `write_all` (`src/tcpsocket.cpp:148`) does not ask whether another
  message, half written, is queued for the connection; its bytes end up within it,
  and the receiver cannot reconstruct either.

Behaviours of the code that the models contain and that no property calls wrong,
because nothing in the repository says otherwise:

* a one-shot timer never fires: its constructor's interval is 0, and starting it
  copies that into the first expiration;
* the eviction timer is disarmed, still saying ARMED, when it is rescheduled with
  no time left (`src/runtime_stub.cpp:58` and 186); `KernelFollowsState` says that this
  is the only way to come to that, `SilentAppEvicted` that it is the only way for a
  silent application to stay registered while the process runs: the front's next
  heartbeat would start the timer again, which a silent front does not send;
* the worker that finds a timer disarmed between `poll()` and the callback's `read()`
  waits there with `m_mutex` held until an expiration comes, which is never
  (`include/timer.hpp:209`), and every owner's next call waits for it;
* an application that registers again while it is registered leaves a heartbeat
  record behind that no lookup leads to (the theorem `TrackLostByRestartOnly` says that
  nothing else does), which names it for eviction although its newer record is fresh;
* a UNIX socket that dies keeps its queue, and senders told DELAYED_RESULT are not
  called; a TCP connection that is evicted drops its queue, and the coroutines in
  it are never resumed;
* a POLLOUT reported for a descriptor that was closed and used again within the
  same round runs the new owner's callback: a connect not decided yet counts as done;
* one message is forwarded per chunk, so that a complete one may wait for as long
  as its endpoint is silent (`WaitsForNextChunk`); what a broken connection leaves
  in the buffer shifts everything that follows (`torn`);
* a runtime that is restarted between two heartbeats is never noticed, and when the
  constructor's reconnect fails nothing tries again, as only a success starts the
  heartbeat timer;
* a message sent while an earlier one to the same recipient is queued overtakes it,
  through the UNIX socket as through TCP; the reconnect of the proxy waits for each of
  its results for that reason;
* an answer to a call of an earlier process, or of a call of this process whose future
  broke, resolves the next call with the same session, whose own answer may then
  resolve the one after it (`AnswersAreOwn` says which answers may); if it is of another method, the promise is
  cast to another type;
* a future breaks when its session is still pending (`BrokenOnlyByReuse` says when, and
  that a call whose session's last one broke may break as well), and the thread that waits for it ends the process;
* length fields of 1 or 2 bytes wrap for longer values; structs have room for a length
  field of 1, 2 or 4 bytes in the size computations and never write one, which has no
  effect as long as the configured size is 0;
* two clients that use the same client id and session for a service share a key:
  the first that waits gets the answer.

## 7. What is not modelled

* *configuration*: start-up, parsing and defaults; no state afterwards.
* *main programs*: the user interface's calls are those of `Calculator`; drawing,
  logging and construction of the objects are left out.
* *serdes* of malformed input (cut off, or with lengths that lie, which the code does
  not look for), and the concepts, which decide what compiles.
* *calculator*: `beepboop`, which is sent and forgotten and changes no state, and
  requests of another protocol version or unknown methods, which only other programs
  send.
* *listeners* of the proxy: one is added to a vector by the constructing thread while
  the worker may walk it (`src/runtime_proxy.cpp:287`). No message can come before: the
  programs of the repository register all listeners before they call anything.
* Within modelled components: `init()` failing, destruction of the sockets (at the
  end of `main` only), the UNIX socket's address cache, EINTR, what nothing in the
  repository calls (`remove_alias`, `unregister_application` of the proxy), and in
  `TcpSocket` a message forwarded back to the connection it is being received from,
  of which the callback would go on reading after it was closed.

## 8. Plan

The order was by weight: the active object everything runs on, the runtime's
liveness tracking with the timer it uses, forwarding, the two sockets, the proxy,
reassembly; then abstract specifications of the sockets' and the line's promises with
proofs that the code keeps them, the calculator and serdes. What is left:
compositions of the proxy with its real counterparts, `RuntimeProxy` over `Heartbeat`
instead of a runtime that forgets at any time, and `RuntimeProxy` over
`DatagramService`, with the lemmas these need.
