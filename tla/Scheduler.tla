----------------------------- MODULE Scheduler -----------------------------
(***************************************************************************)
(* The task table of gnunetpp-scheduler.cpp: runLater, runEvery, queue,    *)
(* cancel, cancelAll and the timer trampoline, over the GNUnet scheduler   *)
(* that fires the timers.                                                  *)
(*                                                                         *)
(* Every timed task lives twice: as an entry of g_tasks under its TaskID,  *)
(* and as a GNUnet task whose closure argument is that TaskID.  What can   *)
(* go wrong is that the two get out of step: a handle that is cancelled    *)
(* after GNUnet has freed it, a timer that fires for an entry that is      *)
(* gone, an entry that nothing will ever fire.  GNUnet reuses the memory   *)
(* of freed tasks, so a handle here is one of a small set of addresses     *)
(* that any later task may be given again.                                 *)
(***************************************************************************)
EXTENDS Naturals, Sequences

CONSTANTS
    TaskIds,        \* the values g_rng may draw for a TaskID
    Handles,        \* the addresses GNUnet may give a task
    Workers,        \* threads other than GNUnet's that call runLater or runEvery
    LaterPhases,    \* the phases in which callbacks call runLater or runEvery
    Disciplined,    \* workers' delays outlast the runDelay call that starts them, and
                    \* workers have returned from runDelay for good before shutdown()
    MaxReady,       \* bound: functions queued at once
    NullHandle, NoTask, NoEntry

Phases == {"running", "stopping", "stopped"}

\* What UniqueData stores for a task (the function itself is abstracted).
TaskData == [handle : Handles \cup {NullHandle},
             repeat : BOOLEAN, run_on_shutdown : BOOLEAN]

ASSUME SchedulerAssumption ==
    /\ TaskIds \subseteq Nat
    /\ LaterPhases \subseteq Phases
    /\ Disciplined \in BOOLEAN
    /\ MaxReady \in Nat
    /\ NullHandle \notin Handles
    /\ NoTask \notin TaskIds
    /\ NoEntry \notin TaskData

VARIABLES
    g_tasks,    \* UniqueData<TaskData>: TaskID -> entry
    timer,      \* GNUnet's timed tasks: handle -> closure argument, a TaskID
    ready,      \* GNUnet's ready list, without the due timers: user functions and
                \* the closure that shutdown() queues
    g_running,  \* Infra.cpp's flag: shutdown() has not been called yet
    phase,      \* where the stop closure is: not begun, in cancelAll, done
    pc,         \* what GNUnet's thread is executing
    active,     \* the task whose function that thread runs, if any
    current,    \* the GNUnet task being executed: freed when its callback returns
    visited,    \* cancelAll's local vector ids
    worker,     \* each worker's progress through runDelay
    runs,       \* history: times the latest task of each id ran (0, 1, 2 = more)
    owed,       \* history: run_on_shutdown tasks in the table when cancelAll began,
                \* without those its functions cancelled
    fault       \* the undefined behaviour or abort the code ran into, or "none"

vars == <<g_tasks, timer, ready, g_running, phase, pc, active, current, visited,
          worker, runs, owed, fault>>

-----------------------------------------------------------------------------
(***************************************************************************)
(* State functions                                                         *)
(***************************************************************************)
Present(id) == g_tasks[id] # NoEntry
Pending(h) == h \in Handles /\ timer[h] # NoTask

\* An address GNUnet may hand out: no task holds it, not even the running one.
FreeHandle(h) == h \in Handles /\ timer[h] = NoTask /\ h # current

\* UniqueData::add draws until the id is unused, except that 0 passes at once.
FreshId(id) == id = 0 \/ ~Present(id)

InCallback == fault = "none" /\ pc \in {"timer", "queued", "atShutdown"}
InLoop == fault = "none" /\ pc = "loop"

\* GNUNET_SCHEDULER_add_delayed and GNUNET_SCHEDULER_cancel.
Arm_Dropped(id, h) == timer
Arm(id, h) == [timer EXCEPT ![h] = id]
Disarm(h) == [timer EXCEPT ![h] = NoTask]

\* UniqueData::remove, and data.handle = h.
Remove_Skipped(id) == g_tasks
Remove(id) == [g_tasks EXCEPT ![id] = NoEntry]
StoreHandle_Skipped(id, h) == g_tasks
StoreHandle(id, h) == [g_tasks EXCEPT ![id].handle = h]

\* The ids a worker is still inserting; no caller has been told them yet.
UnderConstruction == {worker[w].id : w \in Workers}

\* The loop of cancelAll walks a std::map: ids in increasing order, and an id
\* inserted behind the iterator is never seen.
Unvisited_NoIterator == {id \in TaskIds : Present(id)}
Unvisited == {id \in TaskIds : Present(id) /\ \A v \in visited : v < id}
IsNext(id) == id \in Unvisited /\ \A other \in Unvisited : id <= other

\* cancelAll runs the functions of these tasks.
RunsAtShutdown_Never(id) == FALSE
RunsAtShutdown(id) == g_tasks[id].run_on_shutdown

\* Tasks that are still to run: cancel is for these.
Waiting(id) ==
    /\ Present(id) /\ id # active
    /\ id \notin visited \cup UnderConstruction
    /\ phase # "stopped"

\* History: one more run of a one-shot task; a repeating task only has run or not.
Ran(id) == IF runs[id] = 0 \/ g_tasks[id].repeat THEN 1 ELSE 2

Fail(kind) ==
    /\ fault' = kind
    /\ UNCHANGED <<g_tasks, timer, ready, g_running, phase, pc, active, current,
                   visited, worker, runs, owed>>

-----------------------------------------------------------------------------
Idle == [pc |-> "idle", id |-> NoTask, handle |-> NullHandle]

TypeOK ==
    /\ g_tasks \in [TaskIds -> TaskData \cup {NoEntry}]
    /\ timer \in [Handles -> TaskIds \cup {NoTask}]
    /\ ready \in Seq({"fn", "stop"})
    /\ g_running \in BOOLEAN
    /\ phase \in Phases
    /\ pc \in {"loop", "timer", "queued", "visit", "atShutdown", "exited"}
    /\ active \in TaskIds \cup {NoTask}
    /\ pc \in {"timer", "atShutdown"} => active \in TaskIds
    /\ current \in Handles \cup {NullHandle}
    /\ visited \in SUBSET TaskIds
    /\ worker \in [Workers -> [pc : {"idle", "added", "armed"},
                               id : TaskIds \cup {NoTask},
                               handle : Handles \cup {NullHandle}]]
    /\ \A w \in Workers : worker[w].pc # "idle" => worker[w].id \in TaskIds
    /\ runs \in [TaskIds -> 0..2]
    /\ owed \in SUBSET TaskIds
    /\ fault \in {"none", "invalid_id", "bad_cancel", "dangling_entry", "remove_absent",
                  "late_cancel"}

\* GNUnet's thread starts inside the function given to run(), in GNUnet's own
\* start-up task.
Init ==
    /\ g_tasks = [id \in TaskIds |-> NoEntry]
    /\ timer = [h \in Handles |-> NoTask]
    /\ ready = <<>>
    /\ g_running = TRUE
    /\ phase = "running"
    /\ pc = "queued"
    /\ active = NoTask
    /\ current = NullHandle
    /\ visited = {}
    /\ worker = [w \in Workers |-> Idle]
    /\ runs = [id \in TaskIds |-> 0]
    /\ owed = {}
    /\ fault = "none"

-----------------------------------------------------------------------------
(***************************************************************************)
(* What a callback on GNUnet's thread may call                             *)
(***************************************************************************)

\* runLater(delay, fn, run_on_shutdown) and runEvery(delay, fn).
Flags == {[repeat |-> FALSE, run_on_shutdown |-> FALSE],
          [repeat |-> FALSE, run_on_shutdown |-> TRUE],
          [repeat |-> TRUE,  run_on_shutdown |-> FALSE]}

NewEntry(h, f) ==
    [handle |-> h, repeat |-> f.repeat, run_on_shutdown |-> f.run_on_shutdown]

\* runDelay called on GNUnet's thread: nothing fires before it returns.
RunDelay(id, h, f) ==
    /\ InCallback
    /\ phase \in LaterPhases
    /\ FreshId(id)
    /\ FreeHandle(h)
    /\ g_tasks' = [g_tasks EXCEPT ![id] = NewEntry(h, f)]
    /\ timer' = Arm(id, h)
    /\ runs' = [runs EXCEPT ![id] = 0]
    /\ UNCHANGED <<ready, g_running, phase, pc, active, current, visited, worker,
                   owed, fault>>

\* cancel(id) for a task that waits, also from a function that cancelAll runs.
Cancel(id) ==
    /\ InCallback
    /\ Waiting(id)
    /\ \/ /\ Pending(g_tasks[id].handle)
          /\ timer' = Disarm(g_tasks[id].handle)
          /\ g_tasks' = Remove(id)
          /\ owed' = owed \ {id}
          /\ UNCHANGED <<ready, g_running, phase, pc, active, current, visited,
                         worker, runs, fault>>
       \/ /\ ~Pending(g_tasks[id].handle)
          /\ Fail("bad_cancel")

\* cancel(id) when it is too late.  An id that is gone: operator[] throws (a caller who
\* catches that has changed nothing).  The task
\* whose function runs, one that cancelAll has visited, or one it left in the table:
\* its handle is freed, or is already another task's, and the entry goes while the
\* trampoline or cancelAll still needs it.  The model stops here.
LateCancel(id) ==
    /\ InCallback
    /\ ~Waiting(id) /\ id \notin UnderConstruction
    /\ Fail("late_cancel")

\* queue(fn), from a callback or from any other thread.
Queue ==
    /\ fault = "none" /\ pc # "exited"
    /\ Len(ready) < MaxReady
    /\ ready' = Append(ready, "fn")
    /\ UNCHANGED <<g_tasks, timer, g_running, phase, pc, active, current, visited,
                   worker, runs, owed, fault>>

\* gnunetpp::shutdown(), from a callback or from GNUnet's handling of a signal.
Shutdown ==
    /\ fault = "none" /\ g_running
    /\ Disciplined => \A w \in Workers : worker[w].pc = "idle"
    /\ g_running' = FALSE
    /\ ready' = Append(ready, "stop")
    /\ UNCHANGED <<g_tasks, timer, phase, pc, active, current, visited, worker,
                   runs, owed, fault>>

-----------------------------------------------------------------------------
(***************************************************************************)
(* runDelay called on another thread: three steps that GNUnet's thread can *)
(* run between (the mutex covers the second alone).                        *)
(***************************************************************************)
WorkerAdd(w, id, f) ==
    /\ fault = "none" /\ pc # "exited"
    /\ phase \in LaterPhases /\ (Disciplined => g_running)
    /\ worker[w].pc = "idle"
    /\ FreshId(id)
    /\ g_tasks' = [g_tasks EXCEPT ![id] = NewEntry(NullHandle, f)]
    /\ runs' = [runs EXCEPT ![id] = 0]
    /\ worker' = [worker EXCEPT ![w] = [pc |-> "added", id |-> id, handle |-> NullHandle]]
    /\ UNCHANGED <<timer, ready, g_running, phase, pc, active, current, visited,
                   owed, fault>>

WorkerArm(w, h) ==
    /\ fault = "none" /\ pc # "exited"
    /\ worker[w].pc = "added"
    /\ FreeHandle(h)
    /\ timer' = Arm(worker[w].id, h)
    /\ worker' = [worker EXCEPT ![w].pc = "armed", ![w].handle = h]
    /\ UNCHANGED <<g_tasks, ready, g_running, phase, pc, active, current, visited,
                   runs, owed, fault>>

\* data.handle = handle, through the reference g_tasks.add returned.
WorkerStore(w) ==
    /\ fault = "none" /\ pc # "exited"
    /\ worker[w].pc = "armed"
    /\ \/ /\ Present(worker[w].id)
          /\ g_tasks' = StoreHandle(worker[w].id, worker[w].handle)
          /\ worker' = [worker EXCEPT ![w] = Idle]
          /\ UNCHANGED <<timer, ready, g_running, phase, pc, active, current,
                         visited, runs, owed, fault>>
       \/ /\ ~Present(worker[w].id)
          /\ Fail("dangling_entry")

-----------------------------------------------------------------------------
(***************************************************************************)
(* GNUnet's main loop                                                      *)
(***************************************************************************)

\* A timer is due: GNUnet takes the task off its lists and calls the trampoline,
\* whose lookup throws through C frames when the id is gone.
FireTimer(h) ==
    /\ InLoop
    /\ timer[h] # NoTask
    /\ Disciplined => \A w \in Workers : worker[w].handle # h
    /\ \/ /\ Present(timer[h])
          /\ timer' = Disarm(h)
          /\ pc' = "timer"
          /\ active' = timer[h]
          /\ current' = h
          /\ runs' = [runs EXCEPT ![timer[h]] = Ran(timer[h])]
          /\ UNCHANGED <<g_tasks, ready, g_running, phase, visited, worker, owed, fault>>
       \/ /\ ~Present(timer[h])
          /\ Fail("invalid_id")

\* The function returned to timer_callback_trampoline, and that to GNUnet.
Rearm(h) ==
    /\ InCallback /\ pc = "timer"
    /\ Present(active) /\ g_tasks[active].repeat
    /\ FreeHandle(h)
    /\ timer' = Arm(active, h)
    /\ g_tasks' = StoreHandle(active, h)
    /\ pc' = "loop" /\ active' = NoTask /\ current' = NullHandle
    /\ UNCHANGED <<ready, g_running, phase, visited, worker, runs, owed, fault>>

Retire ==
    /\ InCallback /\ pc = "timer"
    /\ \/ /\ Present(active) /\ ~g_tasks[active].repeat
          /\ g_tasks' = Remove(active)
          /\ pc' = "loop" /\ active' = NoTask /\ current' = NullHandle
          /\ UNCHANGED <<timer, ready, g_running, phase, visited, worker, runs,
                         owed, fault>>
       \/ /\ ~Present(active)
          /\ Fail("dangling_entry")

\* The head of the ready list: a queued function, or the closure of shutdown().
RunQueued ==
    /\ InLoop
    /\ ready # <<>> /\ Head(ready) = "fn"
    /\ ready' = Tail(ready)
    /\ pc' = "queued"
    /\ UNCHANGED <<g_tasks, timer, g_running, phase, active, current, visited,
                   worker, runs, owed, fault>>

ReturnQueued ==
    /\ InCallback /\ pc = "queued"
    /\ pc' = "loop"
    /\ UNCHANGED <<g_tasks, timer, ready, g_running, phase, active, current,
                   visited, worker, runs, owed, fault>>

BeginStop ==
    /\ InLoop
    /\ ready # <<>> /\ Head(ready) = "stop"
    /\ ready' = Tail(ready)
    /\ phase' = "stopping"
    /\ pc' = "visit"
    /\ owed' = {id \in TaskIds : Present(id) /\ g_tasks[id].run_on_shutdown}
    /\ UNCHANGED <<g_tasks, timer, g_running, active, current, visited, worker,
                   runs, fault>>

-----------------------------------------------------------------------------
(***************************************************************************)
(* cancelAll, on GNUnet's thread inside the stop closure                   *)
(***************************************************************************)
InVisit == fault = "none" /\ pc = "visit"

CancelVisited(id) ==
    \/ /\ Pending(g_tasks[id].handle)
       /\ timer' = Disarm(g_tasks[id].handle)
       /\ visited' = visited \cup {id}
       /\ pc' = "visit" /\ active' = NoTask
       /\ UNCHANGED <<g_tasks, ready, g_running, phase, current, worker, runs, owed,
                      fault>>
    \/ /\ ~Pending(g_tasks[id].handle)
       /\ Fail("bad_cancel")

VisitPlain(id) ==
    /\ InVisit /\ IsNext(id)
    /\ ~RunsAtShutdown(id)
    /\ CancelVisited(id)

\* data.fn() for a run_on_shutdown task: user code, which may add and cancel tasks.
VisitRun(id) ==
    /\ InVisit /\ IsNext(id)
    /\ RunsAtShutdown(id)
    /\ pc' = "atShutdown"
    /\ active' = id
    /\ runs' = [runs EXCEPT ![id] = Ran(id)]
    /\ UNCHANGED <<g_tasks, timer, ready, g_running, phase, current, visited,
                   worker, owed, fault>>

ReturnAtShutdown ==
    /\ InCallback /\ pc = "atShutdown"
    /\ \/ Present(active) /\ CancelVisited(active)
       \/ ~Present(active) /\ Fail("dangling_entry")

\* The rest of cancelAll, under g_scheduler_mutex: the visited entries go, the
\* entries the visit missed stay but lose their timer.
Missed_Ignored == {}
Missed == {id \in TaskIds : Present(id)} \ visited

Purge ==
    /\ InVisit
    /\ Unvisited = {}
    /\ \/ /\ \A id \in visited : Present(id)
          /\ \A id \in Missed : Pending(g_tasks[id].handle)
          /\ g_tasks' = [id \in TaskIds |-> IF id \in visited THEN NoEntry ELSE g_tasks[id]]
          /\ timer' = [h \in Handles |-> IF \E id \in Missed : g_tasks[id].handle = h
                                         THEN NoTask ELSE timer[h]]
          /\ visited' = {}
          /\ phase' = "stopped"
          /\ pc' = "loop"
          /\ UNCHANGED <<ready, g_running, active, current, worker, runs, owed, fault>>
       \/ /\ \E id \in visited : ~Present(id)
          /\ Fail("remove_absent")
       \/ /\ \E id \in Missed : ~Pending(g_tasks[id].handle)
          /\ Fail("bad_cancel")

\* GNUnet's loop ends once the scheduler is shut down and no task is left.
Exit ==
    /\ InLoop
    /\ phase = "stopped"
    /\ ready = <<>>
    /\ \A h \in Handles : timer[h] = NoTask
    /\ pc' = "exited"
    /\ UNCHANGED <<g_tasks, timer, ready, g_running, phase, active, current, visited,
                   worker, runs, owed, fault>>

\* The program ended, or died of what fault says.
Ended ==
    /\ pc = "exited" \/ fault # "none"
    /\ UNCHANGED vars

-----------------------------------------------------------------------------
Next ==
    \/ \E id \in TaskIds, h \in Handles, f \in Flags : RunDelay(id, h, f)
    \/ \E id \in TaskIds : Cancel(id)
    \/ \E id \in TaskIds : LateCancel(id)
    \/ Queue
    \/ Shutdown
    \/ \E w \in Workers, id \in TaskIds, f \in Flags : WorkerAdd(w, id, f)
    \/ \E w \in Workers, h \in Handles : WorkerArm(w, h)
    \/ \E w \in Workers : WorkerStore(w)
    \/ \E h \in Handles : FireTimer(h)
    \/ \E h \in Handles : Rearm(h)
    \/ Retire
    \/ RunQueued
    \/ ReturnQueued
    \/ BeginStop
    \/ \E id \in TaskIds : VisitPlain(id)
    \/ \E id \in TaskIds : VisitRun(id)
    \/ ReturnAtShutdown
    \/ Purge
    \/ Exit
    \/ Ended

Spec == Init /\ [][Next]_vars

(***************************************************************************)
(* Fairness.  User functions return, cancelAll is a loop that runs to its  *)
(* end, and GNUnet appends what becomes due to a first-in first-out ready  *)
(* list: nothing that stays due is overtaken for ever, although it waits   *)
(* while other callbacks run, hence the strong fairness.  A worker inside  *)
(* runDelay is a running thread.                                           *)
(***************************************************************************)
Return == (\E h \in Handles : Rearm(h)) \/ Retire \/ ReturnQueued \/ ReturnAtShutdown
CancelAllStep == (\E id \in TaskIds : VisitPlain(id) \/ VisitRun(id)) \/ Purge

FairSpec ==
    /\ Spec
    /\ WF_vars(Return)
    /\ WF_vars(CancelAllStep)
    /\ SF_vars(RunQueued \/ BeginStop)
    /\ \A h \in Handles : SF_vars(FireTimer(h))
    /\ \A w \in Workers : WF_vars((\E h \in Handles : WorkerArm(w, h)) \/ WorkerStore(w))

-----------------------------------------------------------------------------
(***************************************************************************)
(* Properties                                                              *)
(***************************************************************************)

\* Only a late cancel breaks the scheduler.  Nothing else, in whatever order timers,
\* cancels of waiting tasks, cancelAll and the functions it runs come, cancels a GNUnet
\* task that was freed or looks up, erases or writes through an entry that is gone
\* (runDelay, the trampoline, cancel and cancelAll).
OnlyLateCancelFaults == fault \in {"none", "late_cancel"}

\* Between a runLater and the end of its task the table and GNUnet agree: a task
\* that is neither running nor already visited by cancelAll has a pending GNUnet
\* timer of its own (it will fire, and cancel will hit it and no other) ...
HandleOwned ==
    phase # "stopped" =>
        \A id \in TaskIds :
            Present(id) /\ (pc = "timer" => id # active)
                        /\ id \notin visited \cup UnderConstruction =>
                Pending(g_tasks[id].handle) /\ timer[g_tasks[id].handle] = id

\* ... and every GNUnet timer belongs to the one entry that holds its handle, or is
\* about to be given it by a worker, so the trampoline finds its id.
TimerOwned ==
    \A h \in Handles : timer[h] # NoTask =>
        /\ Present(timer[h])
        /\ \/ g_tasks[timer[h]].handle = h
           \/ \E w \in Workers : worker[w].id = timer[h] /\ worker[w].handle = h

TableMatchesGNUnet == HandleOwned /\ TimerOwned

\* A function given to runLater runs at most once, whichever of its timeout and
\* cancelAll comes first.
OneShotOnce == \A id \in TaskIds : runs[id] <= 1

\* A run_on_shutdown task that was waiting when cancelAll began has run, exactly
\* once, and left the table when cancelAll is done, whatever the functions that
\* cancelAll calls add and whichever other tasks they cancel.
WaitingRanAtShutdown ==
    phase = "stopped" => \A id \in owed : runs[id] = 1 /\ ~Present(id)

\* cancelAll leaves GNUnet no timer: one would keep GNUnet's loop, and run(), from
\* returning (nothing is added after cancelAll in this instance).
NoTimerSurvives == phase = "stopped" => \A h \in Handles : timer[h] = NoTask

\* A task is run or cancelled as long as nobody shuts down: no entry is left behind
\* without a timer that fires it (a late cancel stops the model).
TaskSettles ==
    \A id \in TaskIds :
        (Present(id) /\ runs[id] = 0) ~>
            (runs[id] > 0 \/ ~Present(id) \/ phase # "running" \/ fault = "late_cancel")

\* shutdown() gets through cancelAll, even though the functions it runs add tasks
\* to the table it walks and take others out of it.
ShutdownCompletes == ~g_running ~> (phase = "stopped" \/ fault = "late_cancel")

\* runDelay stores the handle through a reference to an entry that still exists, on
\* whichever thread it runs: the API is offered to threads other than GNUnet's.
RunDelayReferenceValid == fault # "dangling_entry"
=============================================================================
