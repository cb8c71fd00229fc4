------------------------------- MODULE Wakeup -------------------------------
(***************************************************************************)
(* How other threads hand work to GNUnet's thread: queue, runLater and     *)
(* shutdown() add a GNUnet task and then, when they are not on GNUnet's    *)
(* thread, write one byte into the pipe that GNUnet's select watches       *)
(* (wakeUp, notifyWakeup).  GNUnet's thread drains the pipe in             *)
(* onInbountMessages.                                                      *)
(*                                                                         *)
(* GNUnet's thread sleeps in select until a descriptor is readable or the  *)
(* earliest timer it knew when it fell asleep is due, so a task that       *)
(* another thread adds is noticed only through the pipe.  What can go      *)
(* wrong is a task that nobody notices, and a read of the (blocking) pipe  *)
(* that waits for a byte nobody sends.  A write that finds the pipe full   *)
(* waits too, but no instance fills the pipe and still keeps it drained:   *)
(* no property is about that wait.                                         *)
(*                                                                         *)
(* Inserting into GNUnet's task lists is one atomic step here.             *)
(***************************************************************************)
EXTENDS Naturals, FiniteSets

CONSTANTS
    Calls,      \* calls that are made again and again, on a thread of their own ...
    OnMain,     \* ... but for these, made by callbacks on GNUnet's thread
    Kind,       \* what each call is: "queue", "delay" (runLater, runEvery), "stop"
    BufSize,    \* sizeof(buf) in onInbountMessages
    PipeCap,    \* what the pipe holds before a write blocks
    Paced,      \* fewer than BufSize wake-ups are under way or unread at any time
    Nobody

Workers == Calls \ OnMain

ASSUME WakeupAssumption ==
    /\ OnMain \subseteq Calls
    /\ Kind \in [Calls -> {"queue", "delay", "stop"}]
    /\ IsFiniteSet(Workers)
    /\ BufSize \in Nat \ {0} /\ PipeCap \in Nat /\ BufSize <= PipeCap
    /\ Paced \in BOOLEAN
    /\ Nobody \notin Calls

VARIABLES
    at,         \* the step each call is about to take
    mutex,      \* g_scheduler_mutex: the call that holds it
    added,      \* the calls whose task is in GNUnet's lists, still to run
    fds,        \* g_notify_fds: "open", or "closed" and -1
    bytes,      \* bytes in the pipe
    g_running,  \* shutdown() has not been called yet
    main,       \* what GNUnet's thread is doing
    known       \* the timed tasks that the select it sleeps in has a timeout for

wakeupVars == <<at, mutex, added, fds, bytes, g_running, main, known>>

-----------------------------------------------------------------------------
Lesser(m, n) == IF m < n THEN m ELSE n

Started(c) == at[c] # "idle"

\* Calls that are on their way to writing a byte.
Waking == {c \in Workers : \/ at[c] \in {"lock", "add", "check", "write"}
                           \/ at[c] = "unlock" /\ Kind[c] = "delay"}

\* GNUnet runs these without waiting for time to pass.
ReadyTasks == {c \in added : Kind[c] # "delay"}

\* The order of the steps: runDelay wakes GNUnet's thread after unlocking, queue
\* does so before its lock_guard goes, shutdown() takes no lock; no call wakes the
\* thread it runs on.
AfterAdd(c) ==
    IF c \in OnMain THEN (IF Kind[c] = "stop" THEN "idle" ELSE "unlock")
    ELSE IF Kind[c] = "delay" THEN "unlock" ELSE "check"
AfterWakeUp(c) == IF Kind[c] = "queue" THEN "unlock" ELSE "idle"
AfterUnlock_NoWakeUp(c) == "idle"
AfterUnlock(c) == IF Kind[c] = "delay" /\ c \notin OnMain THEN "check" ELSE "idle"

WakeupTypeOK ==
    /\ at \in [Calls -> {"idle", "lock", "add", "check", "write", "unlock"}]
    /\ mutex \in Calls \cup {Nobody}
    /\ added \subseteq Calls /\ known \subseteq Calls
    /\ fds \in {"open", "closed"}
    /\ bytes \in 0..PipeCap
    /\ g_running \in BOOLEAN
    /\ main \in {"work", "callback", "asleep", "reading", "exited"}

\* GNUnet's thread starts inside the function given to run().
WakeupInit ==
    /\ at = [c \in Calls |-> "idle"]
    /\ mutex = Nobody
    /\ added = {} /\ known = {}
    /\ fds = "open"
    /\ bytes = 0
    /\ g_running = TRUE
    /\ main = "callback"

-----------------------------------------------------------------------------
(***************************************************************************)
(* The calls                                                               *)
(***************************************************************************)

\* A thread starts its call at any time, a callback one call at a time; the task of
\* the same call made earlier has run.  A second shutdown() returns at once.
Begin(c) ==
    /\ at[c] = "idle" /\ c \notin added
    /\ main # "exited"
    /\ Paced /\ c \in Workers => bytes + Cardinality(Waking) + 1 < BufSize
    /\ c \in OnMain => main = "callback" /\ \A d \in OnMain : ~Started(d)
    /\ Kind[c] = "stop" => g_running
    /\ g_running' = (g_running /\ Kind[c] # "stop")
    /\ at' = [at EXCEPT ![c] = IF Kind[c] = "stop" THEN "add" ELSE "lock"]
    /\ UNCHANGED <<mutex, added, fds, bytes, main, known>>

Lock(c) ==
    /\ at[c] = "lock"
    /\ mutex = Nobody
    /\ mutex' = c
    /\ at' = [at EXCEPT ![c] = "add"]
    /\ UNCHANGED <<added, fds, bytes, g_running, main, known>>

\* GNUNET_SCHEDULER_add_now or GNUNET_SCHEDULER_add_delayed.
AddTask(c) ==
    /\ at[c] = "add"
    /\ added' = added \cup {c}
    /\ at' = [at EXCEPT ![c] = AfterAdd(c)]
    /\ UNCHANGED <<mutex, fds, bytes, g_running, main, known>>

Unlock(c) ==
    /\ at[c] = "unlock"
    /\ mutex' = Nobody
    /\ at' = [at EXCEPT ![c] = AfterUnlock(c)]
    /\ UNCHANGED <<added, fds, bytes, g_running, main, known>>

\* notifyWakeup: the test against -1 ...
Check(c) ==
    /\ at[c] = "check"
    /\ at' = [at EXCEPT ![c] = IF fds = "open" THEN "write" ELSE AfterWakeUp(c)]
    /\ UNCHANGED <<mutex, added, fds, bytes, g_running, main, known>>

\* ... and the write of one byte, which waits for room, and fails on a descriptor
\* that is closed.
Sent == 1

Write(c) ==
    /\ at[c] = "write"
    /\ \/ fds = "open" /\ bytes + Sent <= PipeCap /\ bytes' = bytes + Sent
       \/ fds = "closed" /\ UNCHANGED bytes
    /\ at' = [at EXCEPT ![c] = AfterWakeUp(c)]
    /\ UNCHANGED <<mutex, added, fds, g_running, main, known>>

-----------------------------------------------------------------------------
(***************************************************************************)
(* GNUnet's thread                                                         *)
(***************************************************************************)

\* Between two tasks, or out of select: a task that is ready or due runs.
Run(c) ==
    /\ c \in added
    /\ \/ main = "work"
       \/ main = "asleep" /\ c \in known
    /\ added' = added \ {c}
    /\ known' = {}
    /\ main' = "callback"
    /\ UNCHANGED <<at, mutex, fds, bytes, g_running>>

\* A callback returns, after the calls it makes.
Return ==
    /\ main = "callback"
    /\ \A c \in OnMain : ~Started(c)
    /\ main' = "work"
    /\ UNCHANGED <<at, mutex, added, fds, bytes, g_running, known>>

\* select without a task to run: it sleeps with a timeout for the timers there are.
Sleep ==
    /\ main = "work"
    /\ ReadyTasks = {}
    /\ fds = "closed" => added # {}
    /\ main' = "asleep"
    /\ known' = added
    /\ UNCHANGED <<at, mutex, added, fds, bytes, g_running>>

\* select reports the pipe: onInbountMessages is called.
Readable ==
    /\ main \in {"work", "asleep"}
    /\ fds = "open" /\ bytes > 0
    /\ main' = "reading"
    /\ known' = {}
    /\ UNCHANGED <<at, mutex, added, fds, bytes, g_running>>

\* What a read() that finds n bytes takes, and whether another one follows.
Taken(n) == Lesser(n, BufSize)
MoreToRead_UntilEmpty(n) == TRUE
MoreToRead(n) == n >= BufSize

\* One turn of the loop; read() waits while the pipe is empty.
Read ==
    /\ main = "reading"
    /\ bytes > 0
    /\ bytes' = bytes - Taken(bytes)
    /\ main' = IF MoreToRead(bytes) THEN "reading" ELSE "work"
    /\ UNCHANGED <<at, mutex, added, fds, g_running, known>>

\* GNUnet runs its shutdown tasks, after the closure that shutdown() queues or at
\* once on a signal: the task of installNotifyFds closes the pipe.
CloseFds ==
    /\ main \in {"work", "asleep"}
    /\ fds = "open"
    /\ fds' = "closed"
    /\ bytes' = 0
    /\ main' = "work" /\ known' = {}
    /\ UNCHANGED <<at, mutex, added, g_running>>

\* The loop ends when GNUnet has neither a task nor a descriptor to wait for.
Exit ==
    /\ main = "work"
    /\ fds = "closed" /\ added = {}
    /\ main' = "exited"
    /\ UNCHANGED <<at, mutex, added, fds, bytes, g_running, known>>

Ended == main = "exited" /\ UNCHANGED wakeupVars

CallStep(c) == Lock(c) \/ AddTask(c) \/ Unlock(c) \/ Check(c) \/ Write(c)
MainStep == Return \/ Sleep \/ Readable \/ Read \/ Exit

WakeupNext ==
    \/ \E c \in Calls : Begin(c)
    \/ \E c \in Calls : CallStep(c)
    \/ \E c \in Calls : Run(c)
    \/ MainStep
    \/ CloseFds
    \/ Ended

WakeupSpec == WakeupInit /\ [][WakeupNext]_wakeupVars

\* Running threads go on and obtain a mutex that is released again and again; so does
\* GNUnet's loop, which takes ready tasks in the order they came and timers in the
\* order they are due: none is overtaken for ever.
WakeupFairSpec ==
    /\ WakeupSpec
    /\ \A c \in Calls : WF_wakeupVars(CallStep(c)) /\ SF_wakeupVars(Lock(c)) /\ SF_wakeupVars(Run(c))
    /\ WF_wakeupVars(MainStep)

-----------------------------------------------------------------------------
(***************************************************************************)
(* Properties                                                              *)
(***************************************************************************)

\* wakeUp comes after the task is in GNUnet's lists: while GNUnet's thread sleeps
\* in a select that does not know of a task another thread has added, a byte is in
\* the pipe or that thread is still to write it, so the sleep ends.
NoLostWakeup ==
    main = "asleep" /\ fds = "open" =>
        \A c \in added \ known : bytes > 0 \/ c \in Waking

\* onInbountMessages reads a pipe without O_NONBLOCK: GNUnet's thread never enters
\* read() on an empty pipe, where it would serve no task until the next wake-up.
NeverBlocksInRead == main = "reading" => bytes > 0

\* Whatever another thread queues, delays or asks to stop is run by GNUnet's thread
\* while the pipe is there to tell it: "Run a function immediately after the main
\* thread enters the scheduler" (scheduler.hpp).
AddedRuns == \A c \in Calls : c \in added ~> (c \notin added \/ fds = "closed")
=============================================================================
