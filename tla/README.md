# MaNGOS Three: specifications of the server's concurrent core

TLA+ modules of MaNGOS Three (a World of Warcraft 4.3.4 server in C++), the TLC
runs that check them on small instances, and the theorems the TLA+ proof system
checks for every instance. Paths below are relative to the repository's `src/`.

Contents

1. The system: components, state, interactions, hard behaviours
2. What is modelled, module by module, and how it corresponds to the code
3. The runs: question, bounds, why the bounds are enough
4. Fairness
5. Theorems: assumptions, arguments
6. Where the code and its text disagree
7. What is only model-checked, and what is not modelled
8. Plan

Tools: `tlc -config X.cfg M` for the runs listed in `PROJECT.json`, `tlapm M.tla`
for each `*Proofs` module (exit 0 when every obligation is proved).

---------------------------------------------------------------------------

## 1. The system

Two processes: `realmd` (login, realm list, patches) and `mangosd` (the world).
`design/architecture.md`, section 5, names the threads of `mangosd`:

| thread | runs | owns |
| --- | --- | --- |
| world thread (main) | `Master::Run`, `World::Update` | sessions, the add queue, map barriers, callbacks of queries |
| map workers | `MapUpdater::workerLoop` | the maps of the current tick |
| network threads | the engine's workers, the acceptor | connections (reactor) or completions (IOCP) |
| three delay threads | `SqlDelayThread::run` | the asynchronous connection of a database, shared with whoever executes directly |
| console, anti-freeze | small loops over a flag | nothing |

They share leaf locks, queues and a few atomics. Nothing is persisted but what
goes through the databases; there is no recovery log.

### Components

For every component: the state it keeps, its operations, whom it talks to, and
what makes it correct. (m) modelled, (p) partly, (-) not.

**Outbound queue, `net::SendQueue`** (m, `shared/net/SendQueue.hpp`).
State: two buffers, offset, "a write is owned", the backpressure gate.
Operations: `append`, `nextSpan`, `consume`, `abortWrite`, `empty`, `close`.
Called by every sender on any thread, and by the engine that writes.
Correct when bytes leave in order, each once, one writer at a time, the memory
under a running write does not move, and no byte waits with nobody in charge.

**Backpressure, `net::FlowGate`** (m, `shared/net/FlowControl.hpp`), with the
patch stream of realmd that parks on it (`realmd/Auth/PatchHandler.cpp`).
State: outstanding bytes, waiting flag, closed flag, a condition variable.
Correct when no wake-up is lost (a StoreLoad argument over atomics), the backlog
is bounded, and a close ends the stream.

**Reactor engine** (m, `shared/net/reactor/`): epoll and kqueue.
State: a connection, its `SendChannel`, the worker's lists (incoming, requests,
connections), the poller's interest, the stop flag. Operations: accept,
`handoff`, `recv`, `flush`, `post`, `requestClose`, tear-down, `stop`. One worker
owns a connection; other threads reach it only through the channel.
Correct when nobody touches a deleted connection, no byte and no close request
is forgotten, and `stop()` returns with nothing left behind.

**IOCP engine** (m, `shared/net/iocp/`): the Windows engine. No owner: any worker
dispatches any completion. State: a reference-counted context, two overlapped
operations, a dispatch lock, the channel. Correct when the context outlives its
operations and its users, callbacks never overlap, `onClose()` is last and
once, a close is acted on, and `stop()` returns.

**io_uring engine** (-, `shared/net/uring/`): the reactor's structure over
completions; optional at build time. Planned.

**Pollers, server facade** (-): system calls. What they promise (level-triggered
events) is an external part of the reactor model.

**World session links, `proto::SessionLinks`** (m, `proto/SessionLinks.cpp`).
State: the two links of a session, the generation expected, packets held.
Operations: `SendPacket`, `ExpectGeneration`, `AttachSlotOne`, `DetachSlotOne`,
`Close`. Called by the world and map threads (send), the network thread of each
socket (attach, detach), the session (announce, close). Correct when every
packet is sent once, held or counted as given up; when a stream says who it
resumes before anything else; when stragglers change nothing.

**Second world stream** (p, `proto/RedirectRegistry.cpp`, parts of
`game/session/WorldSession.cpp` and `proto/ClientConnection.cpp`): a session
redirects its client to a second port, a login waits for it, a loss is
recovered. State: tickets by address, a deferred login, attempts, timers.
Correct when no client is given another's stream, one redirect per address is in
flight, a held login ends in the world or in a kick, a loss is recovered.

**Client connection, world session** (p): the parts that this and the components
below need. Decoding, encryption and the packet handlers other than login, logout
and the acknowledgement of a movement change are not modelled.

**Session mailbox, gateway, registry** (p, `game/session/SessionMailbox.cpp`,
`WorldGateway.cpp`, `SessionRegistry.cpp`). State: routes from sockets to
mailboxes, sessions waiting to be listed, the list by account, the login queue.
Operations: attach, deliver and detach on the network thread; add, list, replace,
admit, update, reap on the world thread. Correct when the queue is what the
sessions believe it is, the limit is kept and no place stays empty beside
somebody who waits, the answer of a login seats the session that asked, nothing
is left in a closed mailbox, and a closed session is reaped.

**Database core** (m, `shared/Database/Database.cpp`, `SqlDelayThread.cpp`,
`SqlOperations.cpp`). State: the queue of deferred operations, the delay thread's
flag, a transaction per thread, the connection's mutex, the result queue, two
mode flags. Operations: `BeginTransaction` to `CommitTransactionChecked`,
`Execute`, `DirectExecute`, `AsyncQuery`, the delay thread's loop, `Update` of
the result queue, `HaltDelayThread`. Correct when transactions are whole, what
was reported done is durable, writes are not reordered, a shutdown loses nothing
and nobody waits for ever.

**MySQL connection, mangosd start and stop, locked queue and thread-local
storage, persistence** (p): what of them the database model needs.

**Map updater and map phase** (p, `game/maps/MapUpdater.cpp`, `MapPhase.cpp`,
`MapManager.cpp`, `Transports.cpp`, the posts in `game/app/World.cpp`). State: the
pool's queue and count, which map each thread updates, the vessels with their
decks, posts that wait. Operations: schedule, take, finish, wait, `deactivate`; post
and apply; sail, cross, unload. Correct when no object has two owners, every map
is updated once a tick, posts are applied once, and the tick ends.

**Motion kernel** (p, `motion/`). The protocol of movement changes
(`State`, `PendingChanges`) is modelled: desired and confirmed values, counters,
tombstones, epochs, against a client that answers late, wrongly or not what was
asked. Correct when an answer is never taken for another's, what is confirmed was
done, and the client ends up agreeing with the server. The arbiter of generators
is not modelled, the behaviours are geometry.

**realmd authentication, codecs, cryptography, terrain, utilities, data stores,
services, entities, spells, combat, AI, social, PvP, chat commands,
tests and tools** (-): sequential rules over content, arithmetic, formats, or
development support. Reasons per component are in `PROJECT.json`.

### How they interact

```
 client sockets
      |  bytes                               realmd: patch thread
 [engine: reactor | IOCP | io_uring]              | awaitWritable
      |  SendChannel: post / requestClose    [FlowGate]
      |  [SendQueue] (gate inside) ---------------/
      |  ISession: onConnect / onReceive / onClose
 ClientConnection --claim--> RedirectRegistry <--open/cancel-- WorldSession
      |  attach / detach                                          |
      +-----------> SessionLinks <------ SendPacket / Close ------+
      |  attach / deliver / detach                                |
      +-> WorldGateway -> SessionMailbox -> WorldSession::Update -+-> Motion::State
             \-> SessionRegistry (world thread) ------^           |   (by the map's
                                                                  |    owner thread)
                                                                  |
                       map workers, world thread -----------------+
                                                                  |
                                              Database <--- Execute, transactions,
                                             /   |   \            queries
                                     delay thread|    result queue -> world thread
                                             asynchronous connection
```

### Hard behaviours

- Interleavings of threads over short critical sections: what is decided under a
  lock and done after it (SessionLinks' attach, IOCP's `requestClose`, the
  reactor's hand-off).
- Lifetimes: raw pointers in events and channels (reactor), reference counts
  shared by the kernel, the workers and `stop()` (IOCP).
- Lost wake-ups: FlowGate, the write ownership of SendQueue, write interest in the
  reactor.
- Stale answers: a socket that answers a redirect withdrawn since; an update that
  reads the links, then acts.
- Timers racing late answers, retries with budgets, waits for a neighbour.
- Ownership that changes with the phase of a tick, and what must be put off until
  it changes back: posts, crossings of vessels, unloading.
- Identities that are reused: an account's session replaced while the first still
  loads; a counter of movement changes superseded, retired or answered twice.
- Failures in the middle: a statement, a COMMIT, a lost connection, a poller
  that refuses a descriptor, a write that cannot start.
- Shutdown order: what is queued when the delay thread stops, what callbacks
  still ask for, connections on their way between two threads.

`PROJECT.json`, "hazards", lists each at the line where it bites, with the
properties that would catch it.

---------------------------------------------------------------------------

## 2. The modules

One step of a model is one critical section or one access to something another
thread also touches; what a thread does with its own data in between is part of
the step. Bytes and packets are counted or numbered. Every definition that
stands for code is in the "map" of `PROJECT.json` with its lines. History
variables are marked in each module.

| module | stands for | composes with |
| --- | --- | --- |
| `ByteStream` | abstract: what a queue of bytes promises | implemented by `SendQueue` |
| `SendQueue` | `SendQueue.hpp` and its callers' protocol (`ConnCtx::enqueue`, `startSend`, `onSendComplete`) | |
| `FlowGate` | `FlowControl.hpp` under `StartPatchTransfer` | |
| `ReactorConnection` | one connection of `ReactorServer` | counts the bytes of a `SendQueue` |
| `IocpConnection` | one context of `IocpServer` | same |
| `SessionLinks` | `SessionLinks.cpp` and the sockets' threads | |
| `SecondStream` | redirects, tickets, deferred login, recovery | the operations of `SessionLinks` are single steps |
| `DatabaseAsync` | one `Database` from `Initialize` to the last drain | |
| `MapTick` | `MapUpdater`, `MapPhase`, the tick of `MapManager`, vessels, posts | |
| `SessionLifecycle` | gateway, mailbox, registry and the life of a session | the held login is in `SecondStream` |
| `MotionState` | `Motion::State`, `PendingChanges`, the session and the client around them | |
| `*Proofs` | theorems about the module they extend | |
| `SendQueueProofs` | theorems about `SendQueue` and `FlowGate` | |
| `SessionProofs` | theorems about `SecondStream` and `SessionLifecycle` | |
| `MC*` | the instance TLC checks (symmetry, bounds on what clients do) | |

**SendQueue.** `pending`, `inflight`, `off`, `writing`, `outstanding` are the fields;
`pc` and `span` say what a thread owes after `append` or a completion; `write` is
the span the kernel reads. The kernel's write takes the bytes from the buffer at
the moment of the write, so a reallocation under it would show in `sent`.
`append`, `nextSpan`, `consume`, `abortWrite` are one action each.

**FlowGate.** Sequentially consistent atomics: one action per load or store, so all
orders of `m_waiting`, `m_outstanding` (`backlog` here) and `m_closed` occur. `stream` walks through
`awaitWritable` and the sending loop, `net` through `onSent` and `onClosed`.
The condition variable may wake spuriously.

**ReactorConnection.** `acceptor`, `worker`, `at[t]` and `stop` are program counters
of the four kinds of thread; `from` is where `flush()` returns to. The event's raw
pointer is modelled by the worker acting on the connection at a later step than
the one in which the poller returned it. `conn` becomes `"freed"` where the code
deletes. The session behind it may send and close from any callback.

**IocpConnection.** `at[a]` is where an actor is, `op[w]` the completion a worker
dispatches; `refs`, `dead`, `cb`, `dispatching`, `mu`, `armed`, `closeRequested` are
the fields. The channel's mutex and the dispatch lock are held across steps and
are modelled; mutexes that one step does not outlast are not.

**SessionLinks.** Each stream-1 socket has a network thread (`at[c]`): it claims a
ticket, is adopted with a generation, releases the held packets one by one, and
detaches when it dies. `wire[c]` is what was written to it. `hand[t]` is a packet a
sender routed under the lock and has not sent yet.

**SecondStream.** The sessions of one address, the registry's tickets, the sockets
that come to the stream-1 port. An update of a session stops after every call
that takes a lock another thread wants. Generations are compared with the last
announced one only, so tickets and sockets remember whether theirs still is.
`opener` is the session whose client really opened a socket: a handshake with
another session's key fails.

**DatabaseAsync.** An operation is the number it was issued under; statement k of
operation n is `<<n, k>>`. `job[e]` is what the executor e carries out and its next
command (`lock`, `begin`, `run`, `rollback`, `commit`, `finish`); an executor is the
delay thread, or a thread that executes for itself. `inTrans`, `open`, `durable` are
the server's side: statements outside a transaction are durable at once, START
TRANSACTION commits what was open, a COMMIT that fails may have happened. `phase`
walks through `Master::Run`. A transaction takes its number when it is committed;
`Room` keeps one for each transaction under way.

**MapTick.** `at[t]` is where the world thread and each worker are; `todo` is what the
loop of `MapManager::Update` has not scheduled, `tasks` and `pending` are the pool's.
The mutex is held for one step; notifications are steps of their own because the
code makes them after it has let go. A worker's catch block is an action, reached
from any point of an update. `job[t]` and `deck[t]` are the scopes of `MapPhase`: a deck's
update runs nested in the update of the map its vessel sails. `crossing` is what
`TeleportTransport` leaves to the barrier. `afterQ`, `teamQ`, `offQ` are the three places
a post can wait in; `fate` is a history of what became of each. Without a pool
the same updates run on the world thread.

**SessionLifecycle.** A connection and its session share a name. `net[c]` is where the
connection's network thread is, `world` where the world thread is in
`SessionRegistry::Update`; `box`, `boxClosed`, `routes`, `addQueue`, `sessions`, `queued` and the
flags of a session are the fields. `hand[c]` is a packet for which `Deliver` has found
the mailbox and that it has not put in yet. `asked` are login queries on their way;
their answer finds its session by account and checks its id. `QueueAfter` and
`LetIn` are the walk of `RemoveQueued`; the module's head says which neighbouring
steps are fused and why nobody can tell.

**MotionState.** `desired`, `confirmed`, `pending`, `tombstones`, `next` are the fields of
`State` and `PendingChanges`. `toClient` and `acks` are the connection's two directions;
`client` is what the client believes. A change of a type with an acknowledgement
and a value (speed), with one and no value (flag), without one (turn rate), and of
a server-driven unit only (gait) are the four kinds the code tells apart. The
clock is whichever prefix of the tombstones has expired. `Stray` and a wrong
`Answer` are the client's faults, counted; an acknowledgement whose status does not
verify is thrown away with it and remembered in `unheard`.

---------------------------------------------------------------------------

## 3. The runs

Twelve runs: ten in which everything holds and two that show a disagreement
between the code and its own text (section 6). "States" are distinct states.

| run | module | bounds | states |
| --- | --- | --- | --- |
| `sendqueue` | SendQueue | 3 threads, 2 byte values, 3 bytes, chunks of at most 2 | 22 k |
| `flowgate` | FlowGate | ceiling 2, packets of 2 bytes, 5 packets | 1.5 k |
| `reactor` | ReactorConnection | 1 thread, 1 byte queued, 2 requests, a poller that may refuse | 302 k |
| `iocp` | IocpConnection | 2 workers, 1 thread, 2 bytes | 222 k |
| `links` | SessionLinks | 3 sockets, 2 senders, 3 packets, 1 held, 3 redirects | 793 k up to symmetry |
| `second_stream` | SecondStream | 2 sessions, 2 sockets, 2 attempts, 2 logins | 293 k |
| `database` | DatabaseAsync | world thread, 1 other, delay thread; 3 operations of at most 2 statements | 568 k |
| `maptick` | MapTick | world thread, 2 workers; 2 world maps, 1 instance, 1 vessel; 2 ticks, 1 post | 653 k |
| `lifecycle` | SessionLifecycle | 3 connections, 2 accounts, limit 1, 2 packets each | 679 k |
| `motion` | MotionState | one change type of each kind, 4 decisions, 1 fault | 1.0 M |
| `iocp_freed` | IocpConnection | as `iocp` | until violated |
| `second_stream_relogin` | SecondStream | 1 session, 1 socket, 1 attempt, 2 logins | 0.5 k, violated |

What each shows, and why the bounds suffice:

- **sendqueue** `StreamSpec` is the refinement: the queue implements `ByteStream`
  under `queue <- undrained bytes`, `delivered <- sent`. `StableStorage`: no step
  other than consuming moves or frees what the kernel reads. `NothingStranded`:
  whoever is in charge of a write on an open socket has one to do, and bytes wait
  with nobody in charge for one reason only: the kernel refused their write at once
  on the open socket (`ConnCtx::postSend`, `IocpServer.cpp:102-109`), and then
  `m_writing` is clear for the next `append` to take it. That nobody takes it sooner
  is a weakness of the code (section 6). `EventuallySent` is the liveness form: as
  long as the peer reads, so that no write stays with the kernel for ever, every byte
  is written, or the socket is gone, or the last write was refused and nothing was
  appended since. Three threads are one producer, one worker between `consume` and
  `nextSpan`, and one more at either; two byte values make a swap visible; three bytes
  give a partial write with bytes behind it. The proofs drop the bounds.
- **flowgate** `NoLostWakeup`, `BacklogBounded` (the ceiling plus one packet),
  `StopsOnClose`. Five packets of two bytes over a ceiling of two make the
  producer park at least twice and meet a close before, in and after a wait.
- **reactor** `NoUseAfterFree` (with `AcceptorOwns`: the acceptor has the connection
  to itself until `handoff`; both until a session that closes in `onConnect` has its
  request in the worker's queue, see 6),
  `NothingStranded` (writes and closes), `CloseHonoured`, `StopReturns` (and it leaves no
  connection behind). One queued byte distinguishes empty from not
  empty, which is all the engine looks at; two requests let a close queue behind
  a send; a single worker owns a connection for its whole life, so more workers
  add nothing. A second sender only repeats the channel's critical sections.
- **iocp** `OutlivesUsers`, `CallbacksSerial`, `CloseActedOn`, `StopReturns`. Two
  operations are outstanding at most, so two workers are all that can be inside
  one connection; two bytes give a partial write.
- **links** `Accounted` (each packet routed is on exactly one wire, held, in a
  hand, about to be released, or counted as given up), `ResumeFirst`, `NewestHolds`
  (stragglers neither take the slot nor empty it). Three sockets are a live one, a
  straggler and the newest; a held queue of one is full with the second packet.
- **second_stream** `TicketsSingle` (one redirect of an address is in flight, and of
  a session's tickets and sockets one at most can still become its stream),
  `StreamIsOurs`, `LoginSettles` (a held login runs or its client is kicked),
  `LossRecovered`. The second session makes the `Busy` answers, which do not
  count, and its ticket can be what the first one's socket finds; two attempts tell
  "retry" from "give up". `MCSecondStream` gives the sessions one socket between them and
  a second one to the session that is left alone, which opens its stream anew with it
  (`Recovered`); it names the session whose client opens the first socket, which
  exchanging the two makes no loss. Only `Claim` and `NoTicket`, of which no fairness is
  assumed, are held back by that. The proofs of the first two properties take any number.
  A finite number of sockets is a premise of `LoginSettles`: streams do not fall for ever
  (section 6).
  Two logins are what `LossRecovered` needs: a second character may come in over the
  stream of the first, and then the login is not held (`WorldSession.cpp:491`) and
  nothing sets `m_secondStreamWanted`, which the logout cleared (839). So the
  property says what the code keeps: a first character (`FirstCharacter`, whose login
  always is held), and a later one as long as the flag is set (`wanted`), gets a
  lost stream back, or leaves, or is kicked. A first character whose flag was
  forgotten would break it.
- **second_stream_relogin** `EveryLossRecovered`, the promise without that condition,
  fails: log in, log out, log in over the live stream, lose it.
- **database** `TransactionsWhole`, `ReportedDurable`, `NothingDiscarded`,
  `WritesInOrder`, `Settles` (queries are answered, nobody stays parked, a shutdown
  ends). Three operations are a write, something
  that could overtake it and a query that should see it; two statements have a
  failure between them. A third thread would only issue or execute like the
  second: the proofs confirm it for the four safety properties.
- **maptick** `OneOwner`, `EachMapOnce`, `PostsSettled`, `NobodySleepsOverWork` (no
  wake-up is lost), `TickEnds`. Two workers are what overlaps, and two queued
  maps are what a single wake-up would not do for; two world maps are the two ends
  of a crossing, the instance is what can be unloaded; the second tick finds what
  the first left behind. The proofs drop the bounds for the four safety properties.
- **lifecycle** `RegistrySound`, `SeatedByItsRequest`, `NobodyForgotten` (sessions
  and the contents of closed mailboxes), `ClosedIsReaped`. Two connections of one
  account replace each other, the third competes for the one place; a closed session can be waiting to be listed,
  queued, loading or playing. Two packets are one in the mailbox and one in hand.
- **motion** `CountersApart`, `NothingForgotten` (`ClientCatchesUp`, and what is not
  confirmed is on its way), `OnlyWhatWasDone`, `Negotiated`. Four
  decisions are, for instance, entering the world, a change, its opposite, and a
  change of control or a leave in between; one fault is a wrong echo, a doubled or
  made-up answer, or one thrown away. Types of one kind only share the counter, so
  one of each kind is enough for TLC; the proofs take any number.

Every property has a mutant of the code ("mutants"): a plausible slip (a dropped
guard, a missing reset, a lock not taken) under which the run fails.
`CHECK_DEADLOCK FALSE` everywhere: connections close, sessions end, the server
stops, and a history that has used up its bound stops.

`SYMMETRY` is used only in runs without temporal properties.

---------------------------------------------------------------------------

## 4. Fairness

The runs with liveness use weak fairness of the threads' own steps and of
nothing else: the operating system schedules the acceptor, the workers, the
world and delay threads, and each of their loops goes on while it can.

- SendQueue: each thread finishes what it owes. The kernel completes a write when the
  peer reads, which nobody owes: that is the premise of `EventuallySent` (`PeerReads`:
  again and again no write is with the kernel), not a fairness of the specification.
- FlowGate: the two threads run. Nobody owes a drain or a close, so
  `StopsOnClose` starts from a close that happened.
- Reactor, IOCP: acceptor, worker(s), callers inside a call, `stop()` once called; on
  IOCP a closed socket fails its operations (`Abort`). Peers owe nothing: they may
  never read, so no property says that bytes reach them.
- SecondStream: sessions are updated every tick, character loading answers, clocks
  run, tickets lapse, a dead socket is detached. Clients owe nothing.
- Database: the world thread, the delay thread and each other thread go on with
  what they have: executing, callbacks, the steps of a shutdown once begun; a
  transaction begun is ended by the function that began it. Statements need not
  succeed and nobody need stop the server. `Settles` is `[]<>` of "all queries
  answered, and no shutdown half done", so a server that is never shut down
  answers its queries too.

- MapTick: the world thread goes on with a tick or a shutdown it has begun, and
  workers that have something to do do it. Nobody need begin a tick, and
  whether a map throws is open. Nothing relies on a spurious wake-up: it may happen,
  and a parked thread that only it could wake would stay parked.
- SessionLifecycle: the world thread updates the registry and the sessions, each
  network thread finishes what it has begun. Clients owe nothing: they need not
  send, log in or leave, and no login query need be answered.
- MotionState: the client takes and answers the packets it was sent and the
  session handles the answers (`ClientTakes`, `HandleMovementAck`). `Negotiated` says
  nothing of a client that is silent for ever, and excuses what an answer thrown
  away or two wrong ones leave pending, as the code does.

Weak fairness suffices: no fair action is disabled for ever by a contender except
through a mutex whose holder is itself fair and lets go; where strong fairness on
a lock would be needed (a thread starved by endless contenders) the histories
are finite because operations are bounded, and nothing is claimed beyond that.

---------------------------------------------------------------------------

## 5. Theorems

Each `*Proofs` module proves its theorems for every value of the constants that the
component's `ASSUME` admits (naturals as bounds, identifiers that differ, finite
sets of threads where they are counted). Bounds such as `MaxBytes` or `MaxOps` stay
in the models as parameters: the theorems hold for each of them.

**SendQueueProofs.** `IInv == TypeOK /\ SingleWriter /\ SpanCurrent /\ StreamIntact /\
GateExact`. `StreamIntact` (sent, in flight and pending are what was accepted) is
not inductive alone: `consume` adds what the kernel read through its span, so the
span must still be the front of the stream, which holds because nobody else can be
between `nextSpan` and `consume`. From it: `TypeCorrect`, `OneWriter`, `InOrderNoLoss`,
`BackpressureExact`, `HandedOutSpanCurrent`, `KernelMemoryStable` (an action
property), `NoLostKick` (`NothingStranded`, the refused write included: `refused` and
`m_writing` exclude each other: `abortWrite` clears the flag, and the `append` that sets it
again takes the stranded bytes along), and
`ImplementsByteStream`, the refinement: initial
states map to initial states and every step to `Accept`, `Deliver` or a stutter.

The same module proves FlowGate's theorems. Its invariant ties the mutex and the flag to the positions of
the two threads, and says of a parked producer that could go on that the notifier
has not notified yet. `NoWakeupLost`, `BacklogStaysBounded`, `GateTypeCorrect`.

**ReactorProofs.** `LInv`, until a close in `onConnect` has its request in the worker's
queue (`Asked`): a registered connection is live; until the hand-off nobody but the acceptor knows the
connection; between hand-off and registration no client byte was read; requests
come from threads that know the session. `NothingFreedIsUsed`,
`AcceptorOwnsUntilAsked`, `ReactorTypeCorrect`. The session that closes in `onConnect`
is inside the second: the acceptor's ownership lasts through `requestClose()` up to the
very step that queues the request, and nothing else ends it before `handoff`. From that
step on it is false (section 6). `NothingIsStranded` needs no such condition and has two halves. `WorkIsRemembered`: `SInv` adds what
the worker's place means: `CallerInv`, where `flush()` returns to; `WakeInv`, a request
or a new connection that comes after the worker has looked comes with a wake; and
`BytesInv`, queued bytes have write interest, a flush under way, or a request on an armed
channel. `ClosesAreRemembered`, the safety core of `CloseHonoured`, holds for the sessions that
close in `onConnect()` too: `Remembered` follows a close from the thread that asks through the
queue and the worker's hands to `closeAfterDrain`. `EarlyInv` is why the flush at the hand-off,
after which nobody looks at `closeAfterDrain`, cannot lose one: before the registration it
is not set.

**IocpProofs.** For any number of workers and threads, `IInv` has one part per question.
`RefsInv` is the count: `refs` is the reference of the living connection, one of
each worker at work and one of each operation with the kernel, and the context is
freed exactly when it is zero. It needs to know who may post: `ReadInv` and
`WriteInv` say that at most one worker is about to post a read while none is posted, and that
the write belongs to one actor, posted or about to be. `CbInv` ties the callback
lock to the places between lock and unlock; `DeadInv` has one worker tear down,
once; `AdoptInv` has nothing else begun before the adoption ends. A sender has no
reference: `MuInv` says that inside the context it holds the channel's mutex,
which `disarm()` waits for before the reference of the living connection is
given back. `CloseInv` follows a close asked for in a callback to where it is seen.
`ContextOutlivesUsers`, `CallbacksDoNotOverlap`, `CloseIsActedOn`, `IocpTypeCorrect`.
`WorldNeverTouchesFreed`, which the code breaks (section 6), is of course not among
them.

**SessionLinksProofs.** Generations of sockets are distinct and at most the announced
one; an attached socket has the announcement on its wire; a held packet means an
empty slot. `AnnouncedFirst`, `NewestStreamStays` (from `NoStragglerTakesOver` and
`NoStragglerTearsDown`), `NothingStuck`. `LinksTypeCorrect` needs `Bounded` besides: the
held queue is within its limit and packets in a hand are packets. `PacketsAccounted`
is `Accounted`, by `PlacesInv`: only packets that were routed are anywhere; no queue
holds one twice; the held queue, what is being released and the wires are
disjoint; a packet in a sender's hand is nowhere else, so that sending it late
cannot repeat it; and none is lost.

**DatabaseAsyncProofs.** Two invariants. `Inv` says what the server holds at each
command of the operation being executed (`Stage`): in a transaction exactly the
statements before the next one, nothing once it is over; one executor at a time is
past the mutex, and outside it no transaction is open. `AllOrNothing`, `DoneMeansDone`,
`OneExecutor`, `DatabaseTypeCorrect` follow. `OInv` adds the life of the process:
which threads may have work in which phase, that the queue is in issue order, that
what has not started is queued or waits for the connection, and that nothing but a
direct statement waits for the connection behind an earlier write (`Front`). The
argument behind `Front` is that an operation is executed by its own thread only
while the world is loaded, when the queue holds queries only, or as a direct
statement; and that the sweep begins after the delay thread has ended.
`NoWriteOvertaken` (an action property) and `ShutdownLosesNothing` follow.

**MapTickProofs.** `Inv == TypeOK /\ Barrier /\ PhaseInv /\ JobInv /\ RunInv /\ DeckInv`, for any
number of workers, maps and vessels. `Barrier` is the count: `m_pending` is exactly
the queued updates and those a worker has taken and not given back, exceptions
included; so a count of zero means that no worker is inside a map. `PhaseInv` ties
the world thread's place to the phase, `JobInv` gives every map of a tick to one
place (to be scheduled, queued, with one thread, done), `RunInv` counts the entries,
`DeckInv` keeps a deck under the map that its vessel sails, which a crossing begun
in the phase must not change. `BarrierExact`, `OneThreadOwns`, `MapsUpdatedOnce`,
`TickTypeCorrect`. `PostsAppliedOnce` adds `PlacesInv`: the posts that wait are exactly
those made and not yet settled, and each waits in one queue at one place. A
step either queues a new post or empties some queues and settles what was in them.
`NobodySleeps` is the safety core of `TickEnds`: the code notifies without the mutex,
so a wake-up may meet nobody. The argument counts: as long as a worker sleeps, there are
no more queued updates than workers on their way to the queue, and one if
the world thread is about to notify. `StopInv` is what it needs of the shutdown: the flag is
set before anybody is joined, so a worker that looks after that does not go to sleep.

**MotionStateProofs.** `IInv == TypeOK /\ Fit /\ ServerInv`: counters of outstanding and
remembered changes are below the next one and apart, and a server-driven unit has
nothing outstanding. `CountersStayApart` and `MotionTypeCorrect` follow. `OnlyTheDone`
says what a confirmation is worth, and needs to know where the packet and the
answer of each outstanding change are: `Sent` (its packet carries it and is the
last word on its type on the way to the client) and, while every answer is one
the client gave, `Heard` (once a fitting answer is on its way, the client has made
the change and nothing under way will undo it). `Counted` relates the history of
faults to what they did, so that "no answer was made up" is kept backwards.
`ClientsCatchUp` rests on `Abreast`: for a unit in the world, the last packet on its way
that touches a type says what is desired of it, or none touches it and the client
has it already. A superseded packet, a `create` on entering the world and a resend
after a wrong answer all keep it, because each is sent behind what it replaces.
`NothingIsForgotten` adds the safety core of `Negotiated`: `Promised` says that an
outstanding change of a unit in the world has its packet or its answer under way, or
one of the excuses of `Excused`, and that a type not yet confirmed has a change
outstanding. The second half is needed out of the world too, where nothing is sent:
the next epoch sends the flags that are set and confirms nothing, so a cleared flag
must have been confirmed before, or be counted as `unsaid`.

**SessionProofs**, SecondStream. `StreamInv` says who may still become the stream of a
session. A redirect is current from its announcement to the next; between the
announcement and the redirect (`withdraw`, `open`) neither a ticket nor a socket of
the session is current, because a new generation makes all earlier ones stale;
after it either no ticket is, or no socket is, since a socket becomes current only
by taking the ticket away; and two current sockets would have taken the same
ticket (`CandidateInv`). It needs that the address has one ticket at most, of a
session that exists (`TicketInv`), that a session about to announce has an attempt
left (`BudgetInv`), that a socket of which more than the connection is known has
claimed a ticket (`BoundInv`), and that who has the slot was bound to the session
by its own client's handshake (`SlotInv`). `OneTicketOneCandidate` and
`StreamNeverForeign` follow.

**SessionProofs**, SessionLifecycle. `LifecycleInv` adds to the properties where a session
can be at once: in the add queue once, or listed under its account, or not yet
made, or deleted (`PlaceInv`); whose turn it is to be updated, and that this session
is listed (`TurnInv`); who is in the queue knows it (`QueueInv`); and only a listed
session outside the queue has asked for a login (`AskedInv`), so that an answer that
still finds its session finds one it may seat. `SeatedByItsRequest` is
inductive with these: a replaced or reaped session is not listed, and the account's
next one has another id. The limit is counted on sets. `Active`, which the code gets by
a subtraction, is the number of sessions inside (`ActiveInside`: the queue holds
listed sessions, each once, so the subtraction never underflows). Then every
`List` is a departure of the old session, if any, followed by an arrival, and every
reaping is a departure alone: `LeaveKept` shows that a departure makes room for one of the
queue only if it was from inside and the limit had just been reached, `JoinKept`
that an arrival waits exactly when the limit is reached and it is not staff.
`RegistryAlwaysSound`, `NobodySeatedByAnother`, `ClosedMailboxEmpties`. `SessionsAccountedFor` is the
safety core of `ClosedIsReaped`: with the same invariant, a session made is in one of its
places, and the network thread of a deleted one is told.

`SendQueue` and `FlowGate`, and `SecondStream` and `SessionLifecycle`, differ in the names of
their variables and definitions (`StreamSpec` beside `Spec`, `Nobody` beside `None`), so
that one module can extend both.

The type invariants of the modules with proofs are theorems and are not repeated in
the runs; those of `SecondStream` and `SessionLifecycle` are part of
`TicketsSingle` and of `RegistrySound`, in the runs and in the theorems.

Assumed in all: what the modules' `ASSUME`s say, and nothing of the scheduler.

---------------------------------------------------------------------------

## 6. Where the code and its text disagree

Shown by a run ("findings" in `PROJECT.json`):

1. `iocp_freed`, `WorldNeverTouchesFreed`: `requestClose()` uses the raw context after
   the mutex that guards it (`shared/net/iocp/IocpServer.cpp:60-77`).
2. `second_stream_relogin`, `EveryLossRecovered`: logout clears the flag that recovery
   depends on, and only the held login sets it; a login over a live stream is not held
   (`game/session/WorldSession.cpp:839`, `491`, `1972`, against `WorldSession.h:787-788`).
   The player whose stream is lost after that stays in the world without it.

Met while modelling, and true of the models, without a run of their own; the
properties are stated so that they hold with them:

- Reactor: a session that calls its Closer inside `onConnect()` (a stream-1
  connection without a ticket does) posts to the worker, which deletes the
  connection while the acceptor still uses it
  (`shared/net/reactor/ReactorServer.cpp:213-219`), although the comment there says "Safe to
  run here: no worker owns the connection until handoff()". `NoUseAfterFree` and
  `AcceptorOwnsUntilAsked` go up to the step that queues the request (`Asked`);
  without that limit `AcceptorOwns` is violated in the model.
- SendQueue: `startSend()` gives a write up whenever `postSend()` returns false, and
  explains it by "Socket already gone" (`shared/net/iocp/IocpServer.cpp:129-130`,
  `SendQueue.hpp:128`). `WSASend` can also fail at once on an open socket
  (`IocpServer.cpp:102-109`); then no teardown is under way, the bytes stay queued, and
  they leave only if somebody appends more. `NothingStranded` and `EventuallySent` name
  this case (`refused`). The io_uring engine does the same when its submission queue is
  full (`UringServer.cpp:318`).
- Reactor: at shutdown connections are deleted without `onClose()`
  (`ReactorServer.cpp:447-451`, `152-156`), which `ISession.hpp:99-101` promises. The
  sessions are drained first, so nothing depends on it today.
- IOCP: a close from outside is dropped when `dispatching` is seen true just before
  it goes down (`IocpServer.cpp:74`); the connection stays until its peer acts.
  `CloseActedOn` is therefore stated for closes asked for in a callback.
- SessionLinks: a held packet is overtaken by a later one of the same thread,
  because the slot is published before the held queue was sent
  (`proto/SessionLinks.cpp:154-160`); `tests/SessionLinksTest.cpp:158-160`
  describes the order that results. `Accounted` says that none is lost by it.
- SessionLinks: a link that is closed and not yet detached still takes packets and
  drops them (`SessionLinks.cpp:103`), where a missing link would have them held.
  `Accounted` counts them as given up.
- Second stream: the budget is one of a login that is held, or of a loss. A client whose
  stream falls each time before its login is run is held again with a new one
  (`WorldSession.cpp:491`, `1971`), and so are its neighbours kept waiting who find the
  address busy, for as long as it goes on. `LoginSettles` and `LossRecovered` are checked
  where sockets are finitely many.
- Stream 1 is left open when stream 0 is lost, or when an attach races `Close`
  (`WorldSession.cpp:609-612` against `320`).
- Database: reconnection by the client library is asked for below version 8.0.34
  (`DatabaseMysql.cpp:225-232`; the comment there names the danger). When the listener
  does not open, `Master::Run` stops the databases without the shutdown flag and the
  last drain (`mangosd/Master.cpp:419-447`). Neither is in the model.
- Session registry: raising the limit (`SetPlayerLimit`) admits nobody by itself;
  who waits comes in with the next departure, and a newcomer may pass the queue
  meanwhile. The limit is a constant of the model, so `LimitKept` does not meet it.
- Motion: `PendingChanges.h:40-42` describes a timeout that resends, resyncs and asks
  for a kick; `ExpireTombstones` is all that the clock does. An answer with a wrong
  value is erased in `PendingChanges::Ack` and put back by `State::Ack`; after a second
  one the change stays outstanding until the next of its type
  (`motion/State.cpp:160-173`). `Negotiated` excuses it (`Excused`).
- Motion: a flag whose clearing is outstanding when the unit re-enters the world is
  retired and not sent again, since the snapshot names set flags only
  (`State.cpp:198-204`, `Player.cpp:5857-5866`). The client starts from no flags, so it
  agrees (`ClientCatchesUp`), but `Confirmed` keeps the old value: `unsaid`.
- Motion: collision height and swim-to-fly of a server-driven unit have no form to
  send, so a client that is then given the unit is never told. The model leaves
  these two out. A unit that becomes server-driven confirms what was
  desired without telling observers (`State.cpp:80-87`).

---------------------------------------------------------------------------

## 7. Limits

Only model-checked: liveness (`EventuallySent`, `StopsOnClose`, `CloseHonoured`, both
`StopReturns`, `LoginSettles`, `LossRecovered`, `Settles`, `TickEnds`, `ClosedIsReaped`,
`Negotiated`), since the prover has no fairness and no `ENABLED`. Every invariant and
every action property that a passing run checks is a theorem.

Abstracted in what is modelled: contents of packets, keys and queries; the sizes
of buffers beyond what is counted; time beyond "a timer has run out"; memory
orders weaker than sequential consistency (the code's atomics use the default).
One connection, one session object, one database per model: instances of one
component share nothing that the model leaves out, except the redirect registry,
for which `SecondStream` has several sessions, and the worker's loop, in which
other connections only take time.

The 32-bit counter of movement changes is unbounded here: a wrap needs 2^32 changes
of one unit within the ten seconds a tombstone lives, or one outstanding for as
long. An exception in a map's update that runs on the world thread itself, without
a pool, ends the process and is no step of `MapTick`. `DeleteInstance` has no caller
there and is left out. `KickAllLess`, broadcasts and `SetPlayerLimit` of the registry
are left out.

Not modelled, and why. Most of the repository is game content and rules over it
(entities, spells, combat, AI, scripts, social, PvP, chat commands: most of the
lines): sequential code on one thread at a time, whose correctness
is agreement with tables and with the original game, not a protocol a model could
check. Vendored libraries, generated opcode tables, codecs, cryptography, terrain
and the extraction tools have no state machine. The io_uring engine has one; it
repeats the reactor's with completions, is optional at build time and was not
reached. Per component: section 1 and the notes of "components".

---------------------------------------------------------------------------

## 8. Plan

Done, in this order: SendQueue, FlowGate, ReactorConnection, IocpConnection,
SessionLinks, SecondStream, DatabaseAsync, MapTick, SessionLifecycle, MotionState,
with the proofs of section 5.

Left, by importance:

1. `UringConnection`: completions in place of readiness; a full submission queue
   (`UringServer.cpp:318`), where a write is given up and nothing retries it.
2. `Arbiter`: the stack of movement generators against a reference definition of
   who is in charge.
3. `SetPlayerLimit` at run time in `SessionLifecycle`.

The number of runs is kept small; of the disagreements of section 6 the two whose
consequences a player or the process meets have one.
