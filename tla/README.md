# Formal models of gnunetpp

gnunetpp wraps GNUnet's C services in C++20: callbacks become `std::function`s and
coroutines, GNUnet's event loop becomes `gnunetpp::run`/`start`, and other threads may
hand work to it.  The code that can go wrong is not in the wrapped calls but in what ties
them together: who frees a callback's data, in which order timers, cancellation and
shutdown reach it, and what happens between GNUnet's thread and the others.  This directory
holds TLA+ models of those parts, checked with TLC, and proofs about them, checked with
TLAPS.  All definitions are written from the code under `src/gnunetpp`; `PROJECT.json`
names the lines each one stands for.

## 1. Inventory

| component | state | operations | meets | hard because | must hold | module |
|---|---|---|---|---|---|---|
| task table (`gnunetpp-scheduler.cpp`, `UniqueData.hpp`) | `g_tasks`: id -> handle, fn, flags | `runLater`, `runEvery`, `queue`, `cancel`, the timer trampoline, `cancelAll` | GNUnet's timer lists; called by every service | functions run while the table is walked; GNUnet reuses handles; other threads add | a stored handle is the task's own pending timer; nobody runs twice; nothing is left armed after shutdown | `Scheduler` |
| wake-up (`Infra.cpp`, `wakeUp`) | the notify pipe, `g_scheduler_mutex`, `g_running` | `notifyWakeup`, `onInbountMessages`, `installNotifyFds`, `shutdown` | GNUnet's `select`, every thread | a sleeping loop sees only the pipe; blocking reads and writes | no lost wake-up; nobody waits for ever | `Wakeup` |
| result queue and generator (`coroutine.hpp`) | `queue_`, `handle_`, `finished_` | `addValue`, `finish`, `await_*`, `next` | service callbacks on one side, the user's coroutine on the other | two threads; the coroutine runs inside the producer's call | each result once, in order, then the end; no lost resumption | `QueuedAwaiter`, `ResultStream` |
| life cycle and service registry (`Infra.cpp`) | `g_services`, `g_mtx_services`, `g_running` | `run`, `start`, `shutdown`, `registerService`, `removeService`, `removeAllServices` | each service's constructor, destructor and `shutdown()` | user code runs under the registry's lock | every service disconnects once, nobody locks twice | `Lifecycle` |
| coroutines (`coroutine.hpp`, `async_generator.hpp`, `scheduler::sleep`, `readStdin`, `waitUntilShutdown`) | frames: promise, continuation, result; `EagerAwaiter::handle_` | `Task`, `async_run`, `co_await`, `co_yield`, `setValue`, destructors | all services' coroutine overloads | control jumps between frames that own each other; a value may be set before or after the coroutine suspends | a frame goes back to the one that waits for it, with its result; none is forgotten | `Coroutines`, `AsyncCall` |
| DHT (`gnunetpp-dht.cpp`) | one `GetCallbackPack` per search | `put`, `get` (callback, generator), `cancel` | task table (timeout, at shutdown), result queue | five ways to end a search, user code inside each | stopped and freed once, never used after | `DhtGet`; `put` in `Requests` |
| file sharing (`gnunetpp-fs.cpp`) | `g_fs_handlers`, one pack per operation, one handle each | `search`, `download`, `publish`, `unindex`, `cancel` | task table, GNUnet's progress reports | clearing up is queued while timeout, reports, cancellation and shutdown go on | map, pack and handle go once, after their last use | `FileSharing` |
| CADET, messenger (`gnunetpp-cadet.cpp`, `gnunetpp-messenger.cpp`) | channels and rooms by `shared_ptr`, open ports, `rooms` | `connect`, `openPort`, `closePort`, `send`, `disconnect`, `openRoom`, `enterRoom` | life cycle | either side ends a channel; the last reference may go in any callback | wrapper and GNUnet's object live and die together | `Handles` |
| one-shot requests of GNS, identity, namestore, datastore, peerinfo, CADET's lists, NSE, messenger | one pack per request; observers; a uid cursor | `lookup`, `createIdentity`, `getEgo`, `getIdentities`, `store`, `put`, `getOne`, `get`, `peers`, `addPeer`, `helloMessage`, `listPeers`, `estimate`, `waitForInit` | task table, coroutines, life cycle | answers against timeouts, services destroyed in their callbacks | answered once; pack, timer and connection outlive their last use | `Requests` |
| crypto, `RawOperator`, `NonCopyable`, the hello text of peerinfo, examples, tests | none of their own | | | | | not modelled |

### How the components interact

There is one GNUnet thread.  Everything GNUnet calls back (timers, results, connection
events) runs there, one at a time, but *nested*: a service's callback resumes a coroutine on
its own stack, the coroutine may cancel the search whose callback is running, and so on.
Other threads may call `queue`, `runLater`, `shutdown`, and may start the coroutine that
consumes a generator.  `gnunetpp::shutdown()` queues one closure that runs
`scheduler::cancelAll()`, then disconnects every registered service, then asks GNUnet to
stop; GNUnet then runs its shutdown tasks (one of which closes the notify pipe) and leaves
its loop when nothing is left to wait for.  A signal starts GNUnet's shutdown tasks directly,
and one of these calls `gnunetpp::shutdown()`.

## 2. Plan

The order follows what the rest rests on: the table every service arms its timeouts in, the
wake-up every other thread depends on, the queue every generator is made of, then the
services that combine them.

| step | module | what it is about | state |
|---|---|---|---|
| 1 | `Scheduler`, `MCScheduler`, `SchedulerProofs` | the task table over GNUnet's timers | done |
| 2 | `Wakeup`, `MCWakeup`, `ThreadProofs` | other threads, the pipe and the mutex | done |
| 3 | `ResultStream`, `QueuedAwaiter`, `MCQueuedAwaiter`, `ThreadProofs` | the abstract stream of results and the queue that implements it | done |
| 4 | `DhtGet`, `MCDhtGet`, `DhtGetProofs` | searches with timeout, cancellation, generators and shutdown, nested | done |
| 5 | `Lifecycle`, `MCLifecycle`, `LifecycleProofs` | `run`, `shutdown`, signals, the service registry and its mutex | done |
| 6 | `AsyncCall`, `Coroutines`, `MCCoroutines`, `CoroutinesProofs` | tasks, `async_run`, generators and awaiters as frames | done |
| 7 | `Requests`, `MCRequests`, `RequestsProofs` | the fifteen one-shot calls, their timeouts and their services | done |
| 8 | `FileSharing`, `MCFileSharing`, `FileSharingProofs` | the four operations, their map and their queued functions | done |
| 9 | `Handles`, `MCHandles`, `HandlesProofs` | channels, ports and rooms held by reference | done |
| 10 | `sync_wait`, `when_all`, `runOnMainThread` | coroutines that change threads | open: needs the threads of `Wakeup` in `Coroutines` |

Abstract specifications: `ResultStream`, implemented by the result queue, and `AsyncCall` (a call is
begun, ends once, and its caller is told what it ended with), implemented by tasks.  Every
safety invariant that a run checks is also a theorem.

## 3. The modules and the code

**Scheduler** (`gnunetpp-scheduler.cpp:21-136`, `UniqueData.hpp`, `Infra.cpp:129-136`).
`g_tasks` is the `UniqueData<TaskData>`, with the function abstracted; `timer` is GNUnet's
side, from a task's address to its closure argument.  Addresses come from the small set
`Handles` and are handed out again as soon as GNUnet has freed the task, but not while the
task is being executed (`current`).  `RunDelay` is `runLater`/`runEvery` on GNUnet's thread;
on another thread the same code is three steps, `WorkerAdd`, `WorkerArm`, `WorkerStore`,
since the mutex covers only the middle one.  `FireTimer` is the trampoline up to the call of
the function; `Rearm` and `Retire` are its end; between them user code calls any of
`RunDelay`, `Cancel`, `LateCancel`, `Queue`, `Shutdown`, and so does a function that `cancelAll` runs.
`Cancel` is of a task that waits (`Waiting`); `LateCancel` is of an id that is gone, of the task that runs, or of
one that `cancelAll` has been to or left behind, and the model stops there with the fault `late_cancel`.  `BeginStop`, `VisitPlain`, `VisitRun`,
`ReturnAtShutdown` and `Purge` are `cancelAll` with its two loops; the first loop walks a
`std::map`, so `IsNext` takes ids in increasing order and an id inserted behind the iterator
is missed.  Undefined behaviour and aborts (a lookup that throws through C frames, a write
through a reference to an erased entry, cancelling a task GNUnet has freed) set `fault`.

**Wakeup** (`Infra.cpp:20-62, 129-146`, the locking and waking in
`gnunetpp-scheduler.cpp:47-92`).  `at` is each call's program counter; the order of unlock
and `notifyWakeup` differs between `runDelay` (after) and `queue` (before the `lock_guard`
goes), and `AfterAdd`, `AfterUnlock`, `AfterWakeUp` keep that.  `main` is GNUnet's thread:
between tasks, in a callback, in `select`, in `read`.  `known` is what the `select` it
sleeps in has a timeout for: a task added later is noticed only through the pipe.  A write waits for room in the pipe.

**ResultStream** is what a generator promises: every result once, in order, then the end,
and no wait for what is there.  **QueuedAwaiter** (`coroutine.hpp:549-636, 709-716`)
implements it: `Add` and `Finish`/`FinishResume` are the producer, `AskNext`, `AwaitSuspend`,
`AwaitResume` the three parts of `co_await`, `AskAfterFailure` the second rethrow of an exception that was moved out
of the queue's head and left there.  `nested` says that the coroutine runs on the
stack of the producer's call, which therefore has not returned.

**DhtGet** (`gnunetpp-dht.cpp:8-15, 105-220`, `~GeneratorWrapper`, `finish`).  GNUnet's thread
is an explicit `stack` of library calls, each of which is either waiting for user code
(`user`) or about to go on with its pack.  `EndSearch` is what the five copies of the code
that ends a search have in common, in their order: `get_stop`, `scheduler::cancel` (not
when the timer itself ends the search), `finished_callback`; `Delete` is the `delete` when
that returns.  `Result`, `UserReturns`, then `KeepRunning` or `Reject` are `getCallback`.  In
user code `Get`, `Cancel`, `Drop` and `Ask` happen in any order and to any depth.  The task
table is reduced to what `Scheduler` proves about it: an armed timer fires or is cancelled,
and `cancelAll` runs it unless it was added behind the iterator (`missed`).

**Lifecycle** (`Infra.cpp:65-141`, `gnunetpp-scheduler.cpp:138-144`, the services' constructors,
destructors and `shutdown()`).  The services differ in how they disconnect: at once (DHT,
peerinfo, datastore, NSE, messenger), by a queued closure (`Deferred`: GNS, identity,
namestore), or calling the user on the way (`Calling`: CADET, whose handle is cleared only when the
channels' callbacks have returned).  `ServiceShutdown` is that function; it is reached from
the destructor (`Destroy`), from `removeService` inside the destructor (`RemoveService`, where the
handle must be cleared by then) and from `removeAllServices` (`ShutdownNext`, under the mutex).
The stop closure is `BeginStop` (the user functions that `cancelAll` runs), `LockServices`,
`ShutdownNext`, `StopScheduler`.  `GNUNET_SCHEDULER_shutdown` sets `asked`, and GNUnet then runs the two
shutdown tasks `run` has registered (`ShutdownTask`).

**Coroutines** (`coroutine.hpp:13-544, 783-813`, `async_generator.hpp`, `gnunetpp-scheduler.cpp:94-109,
146-220`).  A coroutine is a frame: its state, the frame that holds its `Task` or generator (`owner`), its
`continuation_` (`cont`), what its `co_await` is about and what its promise holds.  `stack` is the nesting of
`resume()` calls; `Transfer` is symmetric transfer, which replaces its top.  `AsyncRun`, `Make`, `Await`,
`AwaitVoid`, `Advance` and `Yield` are what a body may do with another frame, `Return` and `Finish` its
end through `final_awaiter`, `ResumeFromTask`, `EndAsync` and `ResumeFromGenerator` the `await_resume` of the
caller, `DropTask` and `DropGenerator` the destructors, which take the frames in the destroyed one along
(`Held`).  `AwaitRequest` is an `EagerAwaiter` whose callback may come before the suspension; `AwaitSleep`,
`AwaitStdin`, `AwaitShutdown` suspend for GNUnet, and `Resume` is their callback.  `Stop` cuts off whoever waits
for something that shutdown cancels.  **AsyncCall** is what a call promises its caller.

**Requests** (the seven services' one-shot calls).  A call has a kind, a callback pack, an operation in GNUnet,
and, for GNS, a timer.  There is one action for each call, with its failure branches (`Throws`,
`AnswersAtOnce`), and one for each answer; what follows the user's callback is kept on `stack` (`then`) and
done when it returns: `DeletePack`, `CancelTimer`, `CancelLookup`, `CancelHello`, and the walk over observers
(`CallObserver`, `ObserversDone`).  `Destroy` is a service's destructor in any user code, `Disconnect` the queued
disconnection.  `AdvanceCursor` and `CursorReply` are the loop of `DataStore::get`.

**FileSharing** (`gnunetpp-fs.cpp`).  An operation has GNUnet's side (`ctx`), its FS handle, its entry in
`g_fs_handlers`, its pack, a scan's pack, a timer, and a count of each sort of function queued for it.
`Search`, `SearchWithoutUri`, `SearchRefused`, `Download`, `Publish` and `Unindex` start one or fail to; `SearchResult`, `DownloadOver`, `PublishReports`,
`UnindexOver` and `ScanOver` are the progress callbacks, `RunStop`, `RunCleanup` and `RunRelease` the queued
functions, in any order with everything else, `Timeout` the timer, on time or from `cancelAll` (`Visit`).  `ends` counts
how often an operation was ended or asked to end; a step that finds something wrong puts it into `faults` (`Fail`), and
the model stops.

**Handles** (`gnunetpp-cadet.cpp`, `gnunetpp-messenger.cpp:96-148`).  `ptr` is the wrapper's pointer,
`gnunet` GNUnet's object; `held`, `pack` and the frames of `stack` are the references (`Referenced`), and
`Release` destroys the wrapper with the last one.  An object that GNUnet is about to free is `"ending"` while the
callback that tells of it runs: it can be read then, as `examples/cadet/main.cpp:169` does, and not be destroyed.  User code (`OpenPort`, `Connect`, `OpenRoom`, `Hold`, `Drop`,
`Use`, `Disconnect`, `ShutdownCadet`, ...) runs in tasks and in the callbacks that `Connected`, `Message`,
`PeerGone` and GNUnet's own end of the channels (`GoneWithCadet`) begin; the `End...` actions and `LetGo` are
the rest of the trampolines.

Each module keeps the mutated forms of some definitions next to the originals
(`Remove_Skipped` beside `Remove`): plausible slips that the properties must notice.  They are
used by no action.

## 4. The runs

| run | question | instance | result |
|---|---|---|---|
| `scheduler` | does anything but a late cancel make the table get out of step with GNUnet, does anything run twice or survive shutdown; is each task run or cancelled, does `cancelAll` end? | 2 ids, 3 handles, 1 disciplined worker, 1 queued function at a time | holds |
| `scheduler_worker` | may another thread call `runLater` with a short delay? | 2 ids, 1 undisciplined worker | violated (section 8) |
| `wakeup` | is a wake-up ever lost, can `read` block, is everything added run? | 4 calls: `queue`, `runLater`, `shutdown`, one from a callback; buffer and pipe of 3 | holds |
| `wakeup_burst` | the same when wake-ups fill the read buffer exactly | 2 calls, buffer of 2 | violated (section 8) |
| `generator` | does the queue implement the stream? | 2 values, an exception, up to 4 reports | holds |
| `dht_get` | can any nesting of user code make the searches use what is gone, or never end? | 2 generators, 1 callback search, 2 results waiting | holds |
| `lifecycle` | is every service disconnected once, does `run` return? | 4 services: one direct, one deferred, two that call the user | holds |
| `coroutines` | does control always go back to who waits, with the right result, and is every frame freed? | 2 `async_run`s, a `Task`, a `Task<>`, a generator | holds |
| `requests` | is every caller answered once, with nothing used after it is gone? | any 2 calls of 15 kinds, 6 services, uids of 2 bits with 2 entries | holds |
| `file_sharing` | do map, packs, handles and queued functions agree, does every search end, does anything but a second end go wrong? | 3 operations of any of 4 kinds, at most 2 stops queued for each | holds |
| `handles` | do wrapper and GNUnet's object live and die together, but for what finding 3 leaves? | 2 channels, 1 room, 1 port, callbacks nested 4 deep | holds |
| `handles_remote` | is no channel destroyed twice, also when GNUnet ends one made with `connect`? | 1 channel, 1 port | violated (section 8) |

Why the bounds are enough.  *Scheduler*: a task that `cancelAll` runs can add one on either side of the
iterator, which takes two ids; three handles let a freed address be reused while every id still
holds one; the theorems are about any number.  *Wakeup*: the instance
has one call of every kind and zero, one or two bytes in the pipe; being paced, it never fills a buffer (that is what
`wakeup_burst` does) nor the pipe, so nothing is checked of a writer that waits for room; the theorems are about any set of calls.  *QueuedAwaiter*: two
results in the queue while a third arrives, and the end behind them.  *DhtGet*: a search being
ended, one being ended from inside it, and one its user code starts or drops; each id is used
for one search (a second would have another pack, and nothing is shared between packs).
*Lifecycle*: two calling services let one be created or
destroyed in the disconnect callback of the other; services of one kind share nothing but the
registry, and an object may be created again after it was destroyed.  *Coroutines*: two outer frames nest one `async_run`
in the other, and a task, a void task and a generator give every pair of caller and callee; a frame is used once.
*Requests*: calls share nothing but a service and the stack, so two meet in every way; `UidBits` makes the largest
uid a small number, which no entry has.  *FileSharing*: operations share only the map and the phase;
two stops queued at once, and the timer besides, are more ends than it takes for a fault.  *Handles*:
two channels let one be dropped, disconnected or shut down in the callback of the other; `MaxDepth` bounds how deep
callbacks nest.  `MaxUnread`, `MaxReady`, `MaxReports` only bound queues that user code and GNUnet fill; `MaxRuns` is
how often `run` is called.

## 5. Fairness

* User code returns (`Return`, `Returns`, `Unwind`, `UserReturns`, `CallbackReturns`): a callback that never returns stops GNUnet's single
  thread, whatever the library does.
* `cancelAll`, the trampolines and `await_resume` are straight-line code or loops on one thread:
  weak fairness (`CancelAllStep`, `Consume`, `FinishResume`).
* A due timer or a ready task is *strongly* fair: it is disabled again and again while other
  callbacks run, but GNUnet appends what becomes due to a first-in first-out list.
* What was asked of GNUnet is answered, in `Coroutines` only (`Resume`, strong, until shutdown); in `Requests` only
  the timer is counted on (`LookupTimeout`), not the answer.  What `FileSharing` has queued runs (`RunQueued`, weak).
* A thread inside `runDelay`, `queue` or `notifyWakeup` is running (weak), and gets a mutex that
  is released again and again (strong, `Lock`).
* Nothing is assumed about calls being made: no fairness on `Get`, `Begin`, `Add`, `Stop`, `Result`.

## 6. What is proved

All for every value of the constants, from the named `ASSUME`s of the modules.

* `SchedulerProofs`: `TypeCorrect` without hypothesis.  `FaultsOnlyOnLateCancel`, `TableStaysInStep`,
  `AtMostOnce`, `WaitingRun`, `NoneSurvives` under `Rules`: workers are `Disciplined`, id 0 is not
  drawn (`UniqueData::add` accepts 0 although it is taken), and nothing is added after `cancelAll`.  What is
  cancelled, and when, is free: a late cancel ends the run with the one fault that is left.  The invariant says who holds each entry's handle: GNUnet's
  lists, the running task, the visited set or a worker (`WorkerInv`, `TimerInv`, `ActiveInv`);
  `TableMatchesGNUnet` alone does not survive a step because it says nothing of the entries it
  exempts.  `StopOnce` and `PhaseInv` place the one stop closure.
* `ThreadProofs`, of `Wakeup` (whose definitions carry its name there): `WakeupSeen` for any threads; `ReadNeverWaits` for paced ones.  `NoLostWakeup`
  is inductive once it is known that calls on GNUnet's thread are made inside a callback
  (`MainBusy`); the read needs `Budget`, bytes in the pipe plus threads on their way to write.
* `ThreadProofs`, of `QueuedAwaiter`: `TypeCorrect`, `NeverResumedForNothing`, `NeverLeftSuspended` and `ImplementsStream`, the
  step simulation of `ResultStream`.  `Order` says that given, queued and reported items agree;
  `EndLast` that the end stays last.
* `DhtGetProofs`: `NothingUsedAfterFree`, `EndsOnce`, `TimersGuard`, `WaitingSafe`, for any number of
  searches and any depth of nesting.  `NoUseAfterFree` becomes inductive with what every call on the
  stack relies on when it goes on (`EndFrames`, `ResultFrames`), with only the innermost call about
  to go on (`Nested`), and with what goes together while nobody ends a search (`LiveActive`,
  `Awaiters`).  All the ways to end a search share one lemma, `EndSearchInv`.

* `FileSharingProofs`: `TypeCorrect`, `FaultsOnlyOnSecondEnd`, `StaysAccounted` for any number of operations and stops
  queued, in every order of queued functions, reports, timers and calls, without hypothesis.  The invariant is about one
  operation at a time: `JobsFind` says what each function that is queued for it will find, `InUse` what GNUnet and
  the timer need, `Phases` where the operation is on its way, and `EndsCounted` that every stop that is queued or
  carried out has an end of its own, which is why a stop that comes too late takes two.  `Accounted` is not
  inductive: it does not say that a queued stop belongs to a search, nor what its clearing up finds.

* `LifecycleProofs`: `TypeCorrect`, `NeverFaults`, `RegistryStaysComplete` for any number of services of each
  kind and any number of calls of `run`, under `CallbacksCare`.  The invariant says how handle, connection and
  stack go together: a connection that is closing is queued (`Queued`) or has its callback on the stack, once
  (`Connected`, `Callbacks`); a destructor has cleared the handle unless that callback is above it
  (`Destructors`), which is why `removeService`'s second `shutdown()` does nothing; the mutex is held exactly while
  `removeAllServices` is the outermost call, with nothing but callbacks above it (`StopShape`), and every handle is
  still ahead of its loop (`TodoLeft`).  `ServiceShutdownFacts` is shared by destructor and closure.

* `HandlesProofs`: `TypeCorrect`, `FaultsOnlyWhenLeftDangling`, `StaysInStep` for any number of channels, rooms and ports
  and any depth of callbacks, whoever ends a channel, without hypothesis; what finding 3 leaves is named in the statements
  (`LeftDangling`).  `InStep` is not inductive: it says nothing of what the calls going on have made sure of.  `FrameInv`
  does; `ObjInv` adds that GNUnet is ending exactly the channels whose callback runs (`EndingNow`), so that nobody else
  destroys them; `OneFrame` keeps two calls from being about the same object, and `Kinds` tells channels from rooms and
  what was never made from both.  Dropping the last reference and returning from the last call that has one share
  `ReleaseFacts`.

* `CoroutinesProofs`: `TypeCorrect`, `NeverFaults`, `GoesBackToOwner` and `ImplementsCall`, the step simulation of
  `AsyncCall`, for any number of coroutines and without hypothesis.  A transfer is safe because of what the two
  frames are to each other: forward, to a frame that its owner starts or asks for the next value (`ForwardInv`), or
  back, to the owner that waits for it (`BackInv`).  That no running or waiting frame is destroyed with the one it
  lives in (`HeldAtRest`) rests on `Acyclic`: its owner would wait in the same frame, and that one's owner too,
  without an end.  `HeldFacts` shows that `Held` is what its `CHOOSE` says.  Only the innermost frame is about to take a
  result, which is there (`Delivered`); an iterator that is not `end()` is of a generator that has yielded (`Iterators`).

* `RequestsProofs`: `TypeCorrect`, `NothingUsedAfterFree`, `ToldExactlyOnce`, `CursorStaysExact`, for any number of
  calls, any nesting of user code in the callbacks, any set of entries and any width of a uid.  The two middle ones
  are not inductive: neither says what the library may still do with a pack once its callback returns, nor which
  of timer and operation comes first.  `StateOK` says which states of pack, operation, timer and caller go
  together; it is what makes a lookup that is not answered have an armed timer, so that `removeAllServices` cuts off no
  lookup, and a call that is cut off belong to a shutdown.  `FrameOK` says of each callback on the stack what it will find
  when the user code returns (`ThenOK`), its connection included; `OneFrame` that no call has two.  `NotWalked` is why `waitForInit`
  calls that were answered at once, but stay in `init_cbs`, are not answered again.  `CursorOK` says that what the
  iteration has passed over it has yielded.  A step changes the state of one call and leaves the stack alone,
  pushes a frame or pops one (`StayStep`, `PushStep`, `PopStep`), or changes none (`NoCallStep`); only
  `ObserversDone`, `Destroy` and what closes connections (`CutOffStep`) are about many calls.  `RequestsAssumption` has
  `2^UidBits \in Nat \ {0}`, a fact of arithmetic that the provers lack, and no entry has the largest uid:
  `NextUid` of that one is 0, where the iteration would begin again.

The inductive invariants were checked with TLC before they were proved.

## 7. Only model-checked

Liveness (`TaskSettles`, `ShutdownCompletes`, `ShutdownStopsLoop`, `AddedRuns`, both `SearchEnds`,
`ConsumerResumed`, `FramesFreed`, `LookupAnswered`, `Acknowledged`, and the fairness parts of `StreamSpec` and `CallSpec`) is outside
of what TLAPS proves here.  `EndedOnce` and the others of section 6 are proved as well as checked; the type
invariants that are proved are no longer among the runs' invariants, but for those of `QueuedAwaiter`, `Lifecycle`, `Coroutines`
and `Requests`.  The violation runs show counterexamples, not
facts about every instance.

## 8. Findings

1. `scheduler_worker` (`gnunetpp-scheduler.cpp:58`): off GNUnet's thread, `runDelay` writes the handle through
   a reference to an entry that GNUnet's thread may have erased, once the delay is over before the
   call returns.
2. `wakeup_burst` (`Infra.cpp:34`): the pipe blocks and is read again after every full buffer; a multiple
   of 1024 unread wake-ups stops GNUnet's thread in `read`.
3. `handles_remote` (`gnunetpp-cadet.cpp:69`): when GNUnet ends a channel made with `connect`, because the other peer
   does or because this side shuts CADET down (TLC's trace), its wrapper keeps the pointer and destroys the ended
   channel again.

Seen on the way, each named by a property as the one thing that goes wrong, excluded by a named rule, or listed as a hazard:

* `cancelAll` visits the table once: a run_on_shutdown task added meanwhile with an id smaller than the iterator's
  is cancelled without being run, against `gnunetpp-scheduler.hpp:23`.  `SearchEnds` of `DhtGet` exempts these searches.
* `scheduler::shutdown` acts once per process (`gnunetpp-scheduler.cpp:141`), so a second `run()` is never ended by
  `shutdown()`: `MaxRuns = 2` violates `ShutdownStopsLoop`.
* `scheduler::cancel` does not notice that it is too late (`gnunetpp-scheduler.cpp:111-117`): of the running task, or, in
  a function that `cancelAll` runs, of one it has been to, it hands GNUnet a freed handle and takes the entry away
  from the code that needs it; of an id that is gone it throws.  `OnlyLateCancelFaults` says that nothing else fails.
* A file search that two parties end is stopped again when GNUnet has freed it (`gnunetpp-fs.cpp:193, 216, 228`): its
  callback says no, or `cancel()` is called, while the timeout is due or shutdown runs it; the callback says no twice;
  or `cancel()` comes after the timeout, of which the caller is not told.  `OnlySecondEndsFault` says that nothing else
  fails.
* `search` throws with the handle open when the keywords make no URI (`gnunetpp-fs.cpp:203`), `download` does not
  look at what `GNUNET_FS_download_start` returns (291): handle and pack stay for ever.
* A generator whose consumer caught an exception rethrows a null `exception_ptr` when it is asked again
  (`coroutine.hpp:609-616`); no service reports exceptions.
* A file search crashes on a result without a file name, and after a search error (`gnunetpp-fs.cpp:171-186`).
* `CADET::shutdown` erases from the container it walks (`gnunetpp-cadet.cpp:137`).
* The `&&` overload of `Task<>`'s `co_await` resumes a task that is done (`coroutine.hpp:285`).

## 9. Abstractions and what is not modelled

* Time: delays are nondeterministic; `Disciplined` stands for a worker's delay outlasting its call, and for workers that
  have returned before `shutdown()`.
* `Scheduler` calls `cancel` on GNUnet's thread only, where every caller in the library is; a cancel from another
  thread races with the table (`gnunetpp-scheduler.cpp:113`) and is listed as a hazard.  It stops at the first fault.
* `UniqueData`'s own mutex makes each insertion, lookup and removal atomic, and `Scheduler` takes them so;
  `cancelAll` walks the map without that mutex, which no step of the model splits.  `QueuedAwaiter`
  takes the unlocked push in `finish` and pop in `await_resume` as atomic.  Both are data races when
  another thread is in the same container, and are listed as hazards.
* `Wakeup` takes an insertion into GNUnet's lists as atomic.
* `DhtGet` assumes of the user: a callback ends its own search by returning false and not through its
  handle, handles are not used after the user was told of the end, no generator is dropped while a
  coroutine is suspended in it, and the DHT object outlives its searches.
* `Lifecycle` assumes that disconnect callbacks leave services alone once `shutdown()` was called
  (`CallbacksCare`; otherwise the registry's mutex is locked by the thread that holds it), that
  services are created and destroyed on GNUnet's thread or after `run` has returned, and that none
  is created after `cancelAll` has run.
* `Coroutines` stays on GNUnet's thread.  A named task is awaited again only if it is a `Task<>` that is done, an rvalue
  only before it starts, and a task or generator stays with the frame that made it.
* `Requests` takes as rules that no lookup is started from an error callback that `cancelAll` calls, that no ego
  changes between the end of a listing and its disconnection, that `identity_callback` comes once and is not
  re-entered by `waitForInit`, that a service is destroyed when its calls have been answered, and that DHT, datastore
  and peerinfo are not destroyed in their own callbacks.  A start whose result the code does not look at succeeds.
* `FileSharing` stops at the first fault.  It takes as rules that downloads are of single files, and that a download is stopped by nobody but GNUnet or a caller who
  knows it is running.  Functions still queued when the loop ends are lost with their packs.
* `Handles` stops at the first fault.  It takes as rules that a channel's own callbacks do not disconnect it (they may
  send, read its peer, keep it and let it go), that `disconnect`'s callback keeps the channel, that rooms are gone before
  their messenger, that CADET is not shut down from a callback about a channel, and that no channel is made and no port
  opened or closed while CADET is being shut down or afterwards.
* Not modelled: exceptions of user callbacks that unwind through C; the data of requests (records, sizes, hello
  texts, kinds of messages); `NSE::watch`; parameters by reference that a lazily started task outlives; generators
  of `getIdentities` dropped early; `shutdown()` from two threads at once.
* GNUnet itself (scheduler, DHT service) is external, modelled from the calls in `src/`.
* `sync_wait`, `when_all`, `Mutex`, `MainThreadAwaiter`, and `crypto`, `RawOperator`, `NonCopyable`, the examples and
  the tests.
