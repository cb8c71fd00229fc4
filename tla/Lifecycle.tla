----------------------------- MODULE Lifecycle -----------------------------
(***************************************************************************)
(* run(), shutdown() and the registry of services of Infra.cpp, with the   *)
(* constructors, destructors and shutdown() functions of the services and  *)
(* scheduler::shutdown.                                                    *)
(*                                                                         *)
(* A service is disconnected by its destructor or by the closure that      *)
(* gnunetpp::shutdown() queues, which also asks GNUnet to end its loop.  A *)
(* signal asks GNUnet first, and GNUnet calls gnunetpp::shutdown().  All   *)
(* of it happens on GNUnet's thread, nested: CADET's disconnection calls   *)
(* the user, who may create and destroy services, and removeAllServices    *)
(* holds the registry's mutex meanwhile.  What can go wrong is a service   *)
(* disconnected twice or never, a registry entry that outlives its object, *)
(* the mutex locked by the thread that holds it, and a loop that does not  *)
(* end.                                                                    *)
(***************************************************************************)
EXTENDS Naturals, Sequences

CONSTANTS
    Services,       \* the objects of classes derived from Service
    Deferred,       \* GNS, identity, namestore: shutdown() queues the disconnection
    Calling,        \* CADET: disconnecting calls the channels' disconnect callbacks
    CallbacksCare,  \* these callbacks leave services alone once shutdown() was called
    MaxRuns,        \* bound: calls of run()
    Stop            \* the closure of shutdown() in GNUnet's ready list

ASSUME LifecycleAssumption ==
    /\ Deferred \subseteq Services /\ Calling \subseteq Services \ Deferred
    /\ CallbacksCare \in BOOLEAN
    /\ MaxRuns \in Nat
    /\ Stop \notin Services

VARIABLES
    object,         \* each service: "none", "live", "dying" (in its destructor)
    handle,         \* its GNUnet handle: NULL (FALSE) or not
    connection,     \* GNUnet's side of it: "none", "open", "closing"
    g_services,     \* the registry
    locked,         \* g_mtx_services is held, by GNUnet's thread
    todo,           \* removeAllServices' loop: the services it has yet to reach
    stack,          \* what GNUnet's thread is doing, innermost call last
    ready,          \* GNUnet's ready list: Stop, and services to be disconnected
    g_running,      \* Infra.cpp's flag
    running,        \* scheduler.cpp's flag: GNUnet has not been asked to stop
    asked,          \* GNUnet has been asked to stop
    tasks,          \* the shutdown tasks registered with GNUnet: "fds", "shutdown"
    loop,           \* GNUnet's loop runs
    started,        \* calls of run() so far
    fault           \* undefined behaviour

vars == <<object, handle, connection, g_services, locked, todo, stack, ready,
          g_running, running, asked, tasks, loop, started, fault>>

-----------------------------------------------------------------------------
Frames == [op : {"user", "stop", "all"}, s : {Stop}]
          \cup [op : {"callback", "dtor"}, s : Services]

Top == stack[Len(stack)]
Frame(op, s) == [op |-> op, s |-> s]
Popped == SubSeq(stack, 1, Len(stack) - 1)
At(op) == stack # <<>> /\ Top.op = op /\ ~fault
Idle == loop /\ stack = <<>> /\ ~fault

\* User code, which may touch services: always in tasks and in what cancelAll runs,
\* in a disconnect callback only with care.
InUser == At("user") \/ At("callback")
Touches == At("user") \/ (At("callback") /\ (CallbacksCare => g_running))

TypeOK ==
    /\ object \in [Services -> {"none", "live", "dying"}]
    /\ handle \in [Services -> BOOLEAN]
    /\ connection \in [Services -> {"none", "open", "closing"}]
    /\ g_services \subseteq Services /\ todo \subseteq Services
    /\ locked \in BOOLEAN /\ fault \in BOOLEAN /\ loop \in BOOLEAN
    /\ stack \in Seq(Frames)
    /\ ready \in Seq(Services \cup {Stop})
    /\ g_running \in BOOLEAN /\ running \in BOOLEAN /\ asked \in BOOLEAN
    /\ tasks \subseteq {"fds", "shutdown"}
    /\ started \in 0..MaxRuns

Init ==
    /\ object = [s \in Services |-> "none"]
    /\ handle = [s \in Services |-> FALSE]
    /\ connection = [s \in Services |-> "none"]
    /\ g_services = {} /\ todo = {} /\ tasks = {}
    /\ stack = <<>> /\ ready = <<>>
    /\ locked = FALSE /\ fault = FALSE /\ loop = FALSE
    /\ g_running = FALSE /\ running = TRUE /\ asked = FALSE
    /\ started = 0

-----------------------------------------------------------------------------
(***************************************************************************)
(* run and GNUnet's loop                                                   *)
(***************************************************************************)

\* run: the notify pipe and its shutdown task, the flag, the shutdown task that calls
\* shutdown(), and the user's function.
Run ==
    /\ ~loop /\ stack = <<>> /\ ~g_running /\ ~fault
    /\ started < MaxRuns
    /\ started' = started + 1
    /\ loop' = TRUE /\ g_running' = TRUE /\ asked' = FALSE
    /\ tasks' = {"fds", "shutdown"}
    /\ stack' = <<Frame("user", Stop)>>
    /\ UNCHANGED <<object, handle, connection, g_services, locked, todo, ready,
                   running, fault>>

\* A timer, a queued function or a service's callback, until cancelAll has run.
Callback ==
    /\ Idle
    /\ g_running \/ \E i \in DOMAIN ready : ready[i] = Stop
    /\ stack' = <<Frame("user", Stop)>>
    /\ UNCHANGED <<object, handle, connection, g_services, locked, todo, ready,
                   g_running, running, asked, tasks, loop, started, fault>>

\* GNUnet is interrupted.
Signal ==
    /\ Idle /\ ~asked
    /\ asked' = TRUE
    /\ UNCHANGED <<object, handle, connection, g_services, locked, todo, stack, ready,
                   g_running, running, tasks, loop, started, fault>>

\* shutdown(), for whoever calls it first: the closure is queued.
AskStop ==
    /\ g_running' = FALSE
    /\ ready' = IF g_running THEN Append(ready, Stop) ELSE ready

\* The user calls it, or GNUnet's shutdown task does.
Shutdown ==
    /\ InUser /\ g_running
    /\ AskStop
    /\ UNCHANGED <<object, handle, connection, g_services, locked, todo, stack,
                   running, asked, tasks, loop, started, fault>>

ShutdownTask(t) ==
    /\ Idle /\ asked
    /\ t \in tasks
    /\ tasks' = tasks \ {t}
    /\ IF t = "shutdown" THEN AskStop ELSE UNCHANGED <<g_running, ready>>
    /\ UNCHANGED <<object, handle, connection, g_services, locked, todo, stack,
                   running, asked, loop, started, fault>>

\* The disconnection that a deferred service has queued.
Disconnect ==
    /\ Idle /\ ready # <<>> /\ Head(ready) # Stop
    /\ connection' = [connection EXCEPT ![Head(ready)] = "none"]
    /\ fault' = (connection[Head(ready)] = "none")
    /\ ready' = Tail(ready)
    /\ UNCHANGED <<object, handle, g_services, locked, todo, stack, g_running, running,
                   asked, tasks, loop, started>>

\* The loop ends when GNUnet has nothing to wait for: no shutdown task, no closure,
\* no connection.
Exit ==
    /\ Idle
    /\ tasks = {} /\ ready = <<>>
    /\ \A s \in Services : connection[s] = "none"
    /\ loop' = FALSE
    /\ UNCHANGED <<object, handle, connection, g_services, locked, todo, stack, ready,
                   g_running, running, asked, tasks, started, fault>>

-----------------------------------------------------------------------------
(***************************************************************************)
(* Services                                                                *)
(***************************************************************************)

\* What the queued closure captures, before the handle is cleared.
Captured_AfterReset(s) == FALSE
Captured(s) == s

\* A service's handle after disconnecting.
Closed_KeepsHandle(s) == handle
Closed(s) == [handle EXCEPT ![s] = FALSE]

\* The service's own shutdown(): nothing without a handle.  CADET's handle is cleared
\* after its channels' callbacks have returned.  `below` is what it returns to.
ServiceShutdown(s, below) ==
    \/ /\ ~handle[s]
       /\ stack' = below
       /\ UNCHANGED <<handle, connection, ready, fault>>
    \/ /\ handle[s]
       /\ fault' = (connection[s] # "open" \/ ~loop)
       /\ \/ /\ s \in Deferred
             /\ ready' = Append(ready, Captured(s))
             /\ connection' = [connection EXCEPT ![s] = "closing"]
             /\ handle' = Closed(s) /\ stack' = below
          \/ /\ s \notin Deferred
             /\ connection' = [connection EXCEPT ![s] = "none"]
             /\ handle' = Closed(s) /\ stack' = below
             /\ UNCHANGED ready
          \/ /\ s \in Calling
             /\ connection' = [connection EXCEPT ![s] = "closing"]
             /\ stack' = Append(below, Frame("callback", s))
             /\ UNCHANGED <<handle, ready>>

\* A constructor: connects and registers.
Construct(s) ==
    /\ Touches
    /\ object[s] = "none" /\ connection[s] = "none"
    /\ object' = [object EXCEPT ![s] = "live"]
    /\ handle' = [handle EXCEPT ![s] = TRUE]
    /\ connection' = [connection EXCEPT ![s] = "open"]
    /\ g_services' = g_services \cup {s}
    /\ fault' = locked
    /\ UNCHANGED <<locked, todo, stack, ready, g_running, running, asked, tasks, loop,
                   started>>

\* A destructor, on GNUnet's thread or after run() has returned: shutdown() ...
Destroy(s) ==
    /\ Touches \/ (~loop /\ stack = <<>> /\ ~fault)
    /\ object[s] = "live"
    /\ object' = [object EXCEPT ![s] = "dying"]
    /\ ServiceShutdown(s, Append(stack, Frame("dtor", s)))
    /\ UNCHANGED <<g_services, locked, todo, g_running, running, asked, tasks, loop,
                   started>>

\* ... and removeService, which calls shutdown() again, with the mutex held.
Erased_Not(s) == g_services
Erased(s) == g_services \ {s}

RemoveService ==
    /\ At("dtor")
    /\ fault' = (locked \/ handle[Top.s])
    /\ g_services' = Erased(Top.s)
    /\ object' = [object EXCEPT ![Top.s] = "none"]
    /\ stack' = Popped
    /\ UNCHANGED <<handle, connection, locked, todo, ready, g_running, running, asked,
                   tasks, loop, started>>

\* User code returns; a disconnect callback to GNUNET_CADET_disconnect, after which
\* the handle is cleared.
UserReturns ==
    /\ At("user")
    /\ stack' = Popped
    /\ UNCHANGED <<object, handle, connection, g_services, locked, todo, ready,
                   g_running, running, asked, tasks, loop, started, fault>>

CallbackReturns ==
    /\ At("callback")
    /\ connection' = [connection EXCEPT ![Top.s] = "none"]
    /\ handle' = Closed(Top.s)
    /\ stack' = Popped
    /\ UNCHANGED <<object, g_services, locked, todo, ready, g_running, running, asked,
                   tasks, loop, started, fault>>

-----------------------------------------------------------------------------
(***************************************************************************)
(* The closure of shutdown()                                               *)
(***************************************************************************)

\* cancelAll runs user functions ...
BeginStop ==
    /\ Idle /\ ready # <<>> /\ Head(ready) = Stop
    /\ ready' = Tail(ready)
    /\ stack' = <<Frame("stop", Stop), Frame("user", Stop)>>
    /\ UNCHANGED <<object, handle, connection, g_services, locked, todo, g_running,
                   running, asked, tasks, loop, started, fault>>

\* ... removeAllServices disconnects every service, with the mutex held ...
LockServices ==
    /\ At("stop")
    /\ locked' = TRUE
    /\ todo' = g_services
    /\ stack' = <<Frame("all", Stop)>>
    /\ UNCHANGED <<object, handle, connection, g_services, ready, g_running, running,
                   asked, tasks, loop, started, fault>>

ShutdownNext(s) ==
    /\ At("all")
    /\ s \in todo
    /\ todo' = todo \ {s}
    /\ \/ /\ object[s] = "none" /\ fault' = TRUE
          /\ UNCHANGED <<handle, connection, ready, stack>>
       \/ object[s] # "none" /\ ServiceShutdown(s, stack)
    /\ UNCHANGED <<object, g_services, locked, g_running, running, asked, tasks, loop,
                   started>>

\* ... and scheduler::shutdown asks GNUnet to stop, unless it has asked before.
AsksGNUnet_Never == FALSE
AsksGNUnet == running

StopScheduler ==
    /\ At("all")
    /\ todo = {}
    /\ g_services' = {} /\ locked' = FALSE
    /\ asked' = (asked \/ AsksGNUnet)
    /\ running' = FALSE
    /\ stack' = <<>>
    /\ UNCHANGED <<object, handle, connection, todo, ready, g_running, tasks, loop,
                   started, fault>>

Ended == (fault \/ ~loop) /\ UNCHANGED vars

Unwind == UserReturns \/ CallbackReturns \/ RemoveService
StopStep == LockServices \/ (\E s \in Services : ShutdownNext(s)) \/ StopScheduler
LoopStep == (\E t \in tasks : ShutdownTask(t)) \/ Exit

Next ==
    \/ Run \/ Callback \/ Signal \/ Shutdown
    \/ \E s \in Services : Construct(s) \/ Destroy(s)
    \/ Disconnect \/ BeginStop
    \/ Unwind \/ StopStep \/ LoopStep
    \/ Ended

Spec == Init /\ [][Next]_vars

\* User code returns, after finitely many calls; straight-line code goes on; and GNUnet
\* takes what is ready in the order it came, although other callbacks run in between.
FairSpec ==
    /\ Spec
    /\ SF_vars(UserReturns) /\ SF_vars(CallbackReturns)
    /\ WF_vars(RemoveService) /\ WF_vars(StopStep)
    /\ SF_vars(Disconnect \/ BeginStop) /\ SF_vars(LoopStep)

-----------------------------------------------------------------------------
(***************************************************************************)
(* Properties                                                              *)
(***************************************************************************)

\* No service is disconnected twice, nor queued for it, or outside of GNUnet's loop, although up to three
\* calls of shutdown() reach it; removeAllServices meets no destroyed service; and the
\* registry's mutex is not locked by the thread that holds it.
QueuedOnce == \A i, j \in DOMAIN ready : ready[i] = ready[j] => i = j
NoFault == ~fault /\ QueuedOnce

\* Whatever is connected is in the registry or in its destructor, so that somebody
\* disconnects it, and what is in the registry exists.
RegistryComplete ==
    \A s \in Services :
        /\ handle[s] => s \in g_services
        /\ s \in g_services => object[s] # "none"
        /\ object[s] = "none" => ~handle[s]

\* shutdown() gets through the services and ends the loop: "Shutdown all services and
\* timer. Stop the event loop" (Infra.hpp).
ShutdownStopsLoop == loop /\ ~g_running ~> ~loop
=============================================================================
