-------------------------- MODULE SchedulerProofs --------------------------
(***************************************************************************)
(* Proofs about Scheduler for every set of ids, handles and workers.       *)
(*                                                                         *)
(* Type correctness needs no hypothesis.  The rest is proved for           *)
(* programs that keep the rules under which the code is sound: workers are *)
(* disciplined, the generator does not draw id 0 and nothing is added once *)
(* cancelAll is done.  Callbacks cancel what they like, whenever they      *)
(* like: a cancel that comes too late is the one fault left.               *)
(***************************************************************************)
EXTENDS Scheduler, TLAPS

Rules ==
    /\ Disciplined
    /\ 0 \notin TaskIds
    /\ "stopped" \notin LaterPhases

Busy(w) == worker[w].pc # "idle"

\* The stop closure is queued once, by the call that clears g_running.
StopOnce ==
    /\ g_running => phase = "running"
    /\ g_running \/ phase # "running" =>
            \A i \in DOMAIN ready : ready[i] # "stop"
    /\ \A i, j \in DOMAIN ready : ready[i] = "stop" /\ ready[j] = "stop" => i = j

PhaseInv ==
    /\ pc \in {"visit", "atShutdown"} <=> phase = "stopping"
    /\ pc = "timer" => phase = "running"
    /\ phase # "stopping" => visited = {}
    /\ phase = "stopped" => \A h \in Handles : timer[h] = NoTask

\* A busy worker holds an entry nobody else knows, without a handle; disciplined
\* workers are busy only before shutdown().
WorkerInv ==
    /\ \A w \in Workers :
        /\ ~Busy(w) => worker[w] = Idle
        /\ Busy(w) =>
            /\ g_running
            /\ Present(worker[w].id)
            /\ g_tasks[worker[w].id].handle = NullHandle
            /\ pc = "timer" => worker[w].id # active
        /\ worker[w].pc = "added" => worker[w].handle = NullHandle
        /\ worker[w].pc = "armed" =>
            worker[w].handle \in Handles /\ timer[worker[w].handle] = worker[w].id
    /\ \A v, w \in Workers :
        Busy(v) /\ Busy(w) /\ worker[v].id = worker[w].id => v = w

\* TimerOwned, and a timer is never left to a task that ran or was visited.
TimerInv ==
    \A h \in Handles : timer[h] # NoTask =>
        /\ Present(timer[h])
        /\ timer[h] \notin visited
        /\ pc = "timer" => timer[h] # active
        /\ \/ g_tasks[timer[h]].handle = h
           \/ \E w \in Workers : worker[w].pc = "armed" /\ worker[w].id = timer[h]
                                                     /\ worker[w].handle = h

ActiveInv ==
    /\ pc \in {"timer", "atShutdown"} => Present(active)
    /\ pc = "atShutdown" => \A v \in visited : v < active
    /\ \A v \in visited : Present(v)

\* A one-shot task has not run before its turn.
RunsInv ==
    /\ \A id \in TaskIds : runs[id] <= 1
    /\ phase # "stopped" =>
        \A id \in TaskIds :
            /\ Present(id) /\ ~g_tasks[id].repeat /\ id \notin visited
            /\ pc \in {"timer", "atShutdown"} => id # active
            => runs[id] = 0

\* cancelAll walks the tasks that were waiting when it began in order.
OwedInv ==
    /\ phase = "running" => owed = {}
    /\ phase = "stopping" =>
        \A id \in owed :
            /\ Present(id) /\ g_tasks[id].run_on_shutdown
            /\ id \in visited => runs[id] = 1
            /\ pc = "atShutdown" /\ id = active => runs[id] = 1
            /\ pc = "atShutdown" /\ id < active => id \in visited
            /\ \A v \in visited : id < v => id \in visited
    /\ WaitingRanAtShutdown

IInv ==
    /\ TypeOK /\ OnlyLateCancelFaults
    /\ StopOnce /\ PhaseInv /\ WorkerInv /\ TimerInv /\ HandleOwned /\ ActiveInv
    /\ RunsInv /\ OwedInv

-----------------------------------------------------------------------------
(***************************************************************************)
(* Lemmas about the table                                                  *)
(***************************************************************************)

\* What runDelay inserts is an entry, and keeps the flags it was given.
LEMMA NewEntryData ==
    ASSUME NEW h \in Handles \cup {NullHandle}, NEW f \in Flags
    PROVE  /\ NewEntry(h, f) \in TaskData
           /\ NewEntry(h, f) # NoEntry
           /\ NewEntry(h, f).handle = h
           /\ NewEntry(h, f).repeat = f.repeat
           /\ NewEntry(h, f).run_on_shutdown = f.run_on_shutdown
  <1>1. f.repeat \in BOOLEAN /\ f.run_on_shutdown \in BOOLEAN
    <2>1. CASE f = [repeat |-> FALSE, run_on_shutdown |-> FALSE]
      BY <2>1
    <2>2. CASE f = [repeat |-> FALSE, run_on_shutdown |-> TRUE]
      BY <2>2
    <2>3. CASE f = [repeat |-> TRUE, run_on_shutdown |-> FALSE]
      BY <2>3
    <2> QED
      BY <2>1, <2>2, <2>3 DEF Flags
  <1>2. NewEntry(h, f) \in TaskData
    BY <1>1 DEF NewEntry, TaskData
  <1>3. NewEntry(h, f) # NoEntry
    BY <1>2, SchedulerAssumption
  <1> QED
    BY <1>2, <1>3 DEF NewEntry

\* Storing a handle changes that field of a present entry and nothing else.
LEMMA StoreHandleData ==
    ASSUME g_tasks \in [TaskIds -> TaskData \cup {NoEntry}],
           NEW id \in TaskIds, Present(id), NEW h \in Handles \cup {NullHandle}
    PROVE  /\ StoreHandle(id, h) \in [TaskIds -> TaskData \cup {NoEntry}]
           /\ \A other \in TaskIds : other # id => StoreHandle(id, h)[other] = g_tasks[other]
           /\ StoreHandle(id, h)[id] # NoEntry
           /\ StoreHandle(id, h)[id].handle = h
           /\ StoreHandle(id, h)[id].repeat = g_tasks[id].repeat
           /\ StoreHandle(id, h)[id].run_on_shutdown = g_tasks[id].run_on_shutdown
  <1>1. g_tasks[id] \in TaskData
    BY DEF Present
  <1>2. StoreHandle(id, h) = [g_tasks EXCEPT ![id] = [g_tasks[id] EXCEPT !.handle = h]]
    BY DEF StoreHandle
  <1>3. [g_tasks[id] EXCEPT !.handle = h] \in TaskData
    BY <1>1 DEF TaskData
  <1>4. /\ [g_tasks[id] EXCEPT !.handle = h].handle = h
        /\ [g_tasks[id] EXCEPT !.handle = h].repeat = g_tasks[id].repeat
        /\ [g_tasks[id] EXCEPT !.handle = h].run_on_shutdown = g_tasks[id].run_on_shutdown
    BY <1>1 DEF TaskData
  <1>5. [g_tasks[id] EXCEPT !.handle = h] # NoEntry
    BY <1>3, SchedulerAssumption
  <1> QED
    BY <1>2, <1>3, <1>4, <1>5

-----------------------------------------------------------------------------
(***************************************************************************)
(* Type correctness                                                        *)
(***************************************************************************)
LEMMA TypeInit == Init => TypeOK
  BY SchedulerAssumption DEF Init, TypeOK, Idle, Phases

LEMMA TypeStep == TypeOK /\ [Next]_vars => TypeOK'
  <1> SUFFICES ASSUME TypeOK, [Next]_vars PROVE TypeOK'
    OBVIOUS
  <1> USE SchedulerAssumption
  <1>a. ASSUME NEW kind \in {"invalid_id", "bad_cancel", "dangling_entry", "remove_absent",
                            "late_cancel"},
               Fail(kind)
        PROVE  TypeOK'
    BY <1>a DEF TypeOK, Fail
  <1>1. ASSUME NEW id \in TaskIds, NEW h \in Handles, NEW f \in Flags, RunDelay(id, h, f)
        PROVE  TypeOK'
    BY <1>1, NewEntryData DEF TypeOK, RunDelay, Arm
  <1>2. ASSUME NEW id \in TaskIds, Cancel(id) PROVE TypeOK'
    BY <1>2, <1>a DEF TypeOK, Cancel, Disarm, Remove
  <1>20. ASSUME NEW id \in TaskIds, LateCancel(id) PROVE TypeOK'
    BY <1>20, <1>a DEF LateCancel
  <1>3. CASE Queue
    BY <1>3 DEF TypeOK, Queue
  <1>4. CASE Shutdown
    <2>1. ready' \in Seq({"fn", "stop"})
      BY <1>4 DEF TypeOK, Shutdown
    <2>2. g_running' \in BOOLEAN
      BY <1>4 DEF Shutdown
    <2> QED
      BY <1>4, <2>1, <2>2 DEF TypeOK, Shutdown
  <1>5. ASSUME NEW w \in Workers, NEW id \in TaskIds, NEW f \in Flags, WorkerAdd(w, id, f)
        PROVE  TypeOK'
    BY <1>5, NewEntryData DEF TypeOK, WorkerAdd
  <1>6. ASSUME NEW w \in Workers, NEW h \in Handles, WorkerArm(w, h) PROVE TypeOK'
    <2>1. worker[w].id \in TaskIds
      BY <1>6 DEF TypeOK, WorkerArm
    <2>2. timer' \in [Handles -> TaskIds \cup {NoTask}]
      BY <1>6, <2>1 DEF TypeOK, WorkerArm, Arm
    <2>3. worker'[w] = [pc |-> "armed", id |-> worker[w].id, handle |-> h]
      BY <1>6 DEF TypeOK, WorkerArm
    <2>4. \A v \in Workers : v # w => worker'[v] = worker[v]
      BY <1>6 DEF TypeOK, WorkerArm
    <2>5. worker' = [v \in Workers |-> worker'[v]]
      BY <1>6 DEF TypeOK, WorkerArm
    <2> QED
      BY <1>6, <2>1, <2>2, <2>3, <2>4, <2>5 DEF TypeOK, WorkerArm
  <1>7. ASSUME NEW w \in Workers, WorkerStore(w) PROVE TypeOK'
    <2>1. CASE Fail("dangling_entry")
      BY <2>1, <1>a
    <2>2. CASE ~Fail("dangling_entry")
      <3>1. worker[w].id \in TaskIds /\ worker[w].handle \in Handles \cup {NullHandle}
           /\ Present(worker[w].id)
        BY <1>7, <2>2 DEF TypeOK, WorkerStore
      <3>2. g_tasks' \in [TaskIds -> TaskData \cup {NoEntry}]
        <4>1. g_tasks' = StoreHandle(worker[w].id, worker[w].handle)
          BY <1>7, <2>2 DEF WorkerStore
        <4>2. g_tasks \in [TaskIds -> TaskData \cup {NoEntry}]
          BY DEF TypeOK
        <4> QED
          BY <3>1, <4>1, <4>2, StoreHandleData
      <3>3. worker' = [worker EXCEPT ![w] = Idle]
        BY <1>7, <2>2 DEF WorkerStore
      <3> QED
        BY <1>7, <2>2, <3>2, <3>3 DEF TypeOK, WorkerStore, Idle
    <2> QED
      BY <2>1, <2>2
  <1>8. ASSUME NEW h \in Handles, FireTimer(h) PROVE TypeOK'
    <2>1. CASE Fail("invalid_id")
      BY <2>1, <1>a
    <2>2. CASE ~Fail("invalid_id")
      <3>1. timer[h] \in TaskIds
        BY <1>8 DEF TypeOK, FireTimer
      <3>2. Ran(timer[h]) \in 0..2
        BY DEF Ran
      <3>3. timer' \in [Handles -> TaskIds \cup {NoTask}] /\ runs' \in [TaskIds -> 0..2]
        BY <1>8, <2>2, <3>1, <3>2 DEF TypeOK, FireTimer, Disarm
      <3> QED
        BY <1>8, <2>2, <3>1, <3>3 DEF TypeOK, FireTimer
    <2> QED
      BY <2>1, <2>2
  <1>9. ASSUME NEW h \in Handles, Rearm(h) PROVE TypeOK'
    BY <1>9, StoreHandleData DEF TypeOK, Rearm, Arm
  <1>10. CASE Retire
    BY <1>10, <1>a DEF TypeOK, Retire, Remove
  <1>11. CASE RunQueued
    BY <1>11 DEF TypeOK, RunQueued
  <1>12. CASE ReturnQueued
    BY <1>12 DEF TypeOK, ReturnQueued
  <1>13. CASE BeginStop
    BY <1>13 DEF TypeOK, BeginStop, Phases
  <1>14. ASSUME NEW id \in TaskIds, CancelVisited(id) PROVE TypeOK'
    BY <1>14, <1>a DEF TypeOK, CancelVisited, Disarm
  <1>15. ASSUME NEW id \in TaskIds, VisitRun(id) PROVE TypeOK'
    BY <1>15 DEF TypeOK, VisitRun, Ran
  <1>16. CASE ReturnAtShutdown
    BY <1>16, <1>14, <1>a DEF TypeOK, ReturnAtShutdown
  <1>17. CASE Purge
    BY <1>17, <1>a DEF TypeOK, Purge, Phases
  <1>18. CASE Exit
    BY <1>18 DEF TypeOK, Exit
  <1>19. CASE UNCHANGED vars
    BY <1>19 DEF TypeOK, vars
  <1> QED
    BY <1>1, <1>2, <1>3, <1>4, <1>5, <1>6, <1>7, <1>8, <1>9, <1>10, <1>11, <1>12,
       <1>13, <1>14, <1>15, <1>16, <1>17, <1>18, <1>19, <1>20
    DEF Next, VisitPlain, Ended

\* Every variable keeps its type, whatever the callers do.
THEOREM TypeCorrect == Spec => []TypeOK
  BY TypeInit, TypeStep, PTL DEF Spec

-----------------------------------------------------------------------------
(***************************************************************************)
(* The inductive invariant, one lemma per action                           *)
(***************************************************************************)
LEMMA InvInit == Rules /\ Init => IInv
  <1> SUFFICES ASSUME Rules, Init PROVE IInv
    OBVIOUS
  <1>1. StopOnce /\ PhaseInv
    BY DEF Init, StopOnce, PhaseInv
  <1>2. WorkerInv
    BY DEF Init, WorkerInv, Busy, Idle
  <1>3. TimerInv /\ HandleOwned /\ ActiveInv /\ RunsInv
    BY DEF Init, TimerInv, HandleOwned, ActiveInv, RunsInv, Present
  <1>4. OwedInv /\ OnlyLateCancelFaults
    BY DEF Init, OwedInv, WaitingRanAtShutdown, OnlyLateCancelFaults
  <1> QED
    BY <1>1, <1>2, <1>3, <1>4, TypeInit DEF IInv

LEMMA RunDelayInv ==
    ASSUME IInv, Rules, TypeOK',
           NEW id \in TaskIds, NEW h \in Handles, NEW f \in Flags, RunDelay(id, h, f)
    PROVE  IInv'
  <1>1. ~Present(id) /\ id \notin visited /\ phase # "stopped"
    BY DEF IInv, Rules, RunDelay, FreshId, ActiveInv
  <1>2. /\ g_tasks'[id] = NewEntry(h, f) /\ g_tasks'[id] # NoEntry
        /\ g_tasks'[id].handle = h
        /\ \A other \in TaskIds : other # id => g_tasks'[other] = g_tasks[other]
    BY NewEntryData DEF IInv, TypeOK, RunDelay
  <1>3. /\ timer[h] = NoTask /\ timer'[h] = id
        /\ \A other \in Handles : other # h => timer'[other] = timer[other]
    BY DEF IInv, TypeOK, RunDelay, FreeHandle, Arm
  <1>4. /\ runs'[id] = 0
        /\ \A other \in TaskIds : other # id => runs'[other] = runs[other]
    BY DEF IInv, TypeOK, RunDelay
  <1>5. UNCHANGED <<ready, g_running, phase, pc, active, current, visited, worker, owed, fault>>
    BY DEF RunDelay
  <1>6. pc \in {"timer", "atShutdown"} => active # id
    BY <1>1 DEF IInv, ActiveInv
  <1>7. \A w \in Workers : Busy(w) => worker[w].id # id
    BY <1>1 DEF IInv, WorkerInv
  <1>8. StopOnce' /\ OnlyLateCancelFaults'
    BY <1>5 DEF IInv, StopOnce, OnlyLateCancelFaults
  <1>9. PhaseInv'
    BY <1>1, <1>5 DEF IInv, PhaseInv
  <1>10. WorkerInv'
    <2>1. ASSUME NEW w \in Workers, Busy(w)
          PROVE  g_tasks'[worker[w].id] = g_tasks[worker[w].id]
      BY <1>2, <1>7, <2>1 DEF IInv, TypeOK, Busy
    <2>2. ASSUME NEW w \in Workers, worker[w].pc = "armed"
          PROVE  timer'[worker[w].handle] = timer[worker[w].handle]
      <3>1. worker[w].handle \in Handles /\ timer[worker[w].handle] \in TaskIds
        BY <2>2 DEF IInv, TypeOK, WorkerInv
      <3> QED
        BY <1>3, <3>1, SchedulerAssumption
    <2> QED
      BY <1>5, <2>1, <2>2 DEF IInv, WorkerInv, Busy, Present
  <1>11. TimerInv'
    <2> SUFFICES ASSUME NEW k \in Handles, timer'[k] # NoTask
                 PROVE  /\ Present(timer[k])' /\ timer'[k] \notin visited'
                        /\ pc' = "timer" => timer'[k] # active'
                        /\ \/ g_tasks'[timer'[k]].handle = k
                           \/ \E w \in Workers : worker'[w].pc = "armed"
                                /\ worker'[w].id = timer'[k] /\ worker'[w].handle = k
      BY DEF TimerInv
    <2>1. CASE k = h
      BY <1>1, <1>2, <1>3, <1>5, <1>6, <2>1 DEF Present
    <2>2. CASE k # h
      <3>1. timer'[k] = timer[k] /\ timer[k] \in TaskIds /\ timer[k] # id
        BY <1>1, <1>3, <2>2 DEF IInv, TypeOK, TimerInv
      <3>2. g_tasks'[timer[k]] = g_tasks[timer[k]]
        BY <1>2, <3>1
      <3> QED
        BY <1>5, <3>1, <3>2 DEF IInv, TimerInv, Present
    <2> QED
      BY <2>1, <2>2
  <1>12. HandleOwned'
    BY <1>1, <1>2, <1>3, <1>5, SchedulerAssumption
    DEF IInv, TypeOK, HandleOwned, Present, Pending, UnderConstruction
  <1>13. ActiveInv'
    BY <1>1, <1>2, <1>5, <1>6 DEF IInv, TypeOK, ActiveInv, Present
  <1>14. RunsInv'
    BY <1>1, <1>2, <1>4, <1>5 DEF IInv, TypeOK, RunsInv, Present
  <1>15. OwedInv'
    BY <1>1, <1>2, <1>4, <1>5 DEF IInv, TypeOK, OwedInv, Present, WaitingRanAtShutdown
  <1> QED
    BY <1>8, <1>9, <1>10, <1>11, <1>12, <1>13, <1>14, <1>15 DEF IInv

LEMMA CancelInv ==
    ASSUME IInv, Rules, TypeOK', NEW id \in TaskIds, Cancel(id)
    PROVE  IInv'
  <1> DEFINE h == g_tasks[id].handle
  <1>1. phase # "stopped" /\ id \notin visited
    BY DEF Cancel, Waiting
  <1>2. Present(id) /\ id # active /\ id \notin UnderConstruction
    BY DEF Cancel, Waiting
  <1>3. Pending(h) /\ timer[h] = id
    BY <1>1, <1>2 DEF IInv, HandleOwned
  <1>4. /\ timer' = Disarm(h) /\ g_tasks' = Remove(id) /\ owed' = owed \ {id}
        /\ UNCHANGED <<ready, g_running, phase, pc, active, current, visited, worker,
                       runs, fault>>
    BY <1>3 DEF Cancel
  <1>5. /\ h \in Handles /\ timer'[h] = NoTask
        /\ \A other \in Handles : other # h => timer'[other] = timer[other]
    BY <1>3, <1>4 DEF IInv, TypeOK, Disarm, Pending
  <1>6. /\ g_tasks'[id] = NoEntry
        /\ \A other \in TaskIds : other # id => g_tasks'[other] = g_tasks[other]
    BY <1>4 DEF IInv, TypeOK, Remove
  <1>7. \A w \in Workers : worker[w].id # id
    BY <1>2 DEF UnderConstruction
  <1>8. \A other \in Handles : other # h => timer[other] # id
    BY <1>2, <1>7, SchedulerAssumption DEF IInv, TimerInv
  <1>9. StopOnce' /\ OnlyLateCancelFaults' /\ PhaseInv'
    BY <1>1, <1>4 DEF IInv, StopOnce, OnlyLateCancelFaults, PhaseInv
  <1>10. WorkerInv'
    BY <1>3, <1>4, <1>5, <1>6, <1>7 DEF IInv, TypeOK, WorkerInv, Busy, Present
  <1>11. TimerInv'
    BY <1>4, <1>5, <1>6, <1>8 DEF IInv, TypeOK, TimerInv, Present
  <1>12. HandleOwned'
    BY <1>3, <1>4, <1>5, <1>6 DEF IInv, TypeOK, HandleOwned, Present, Pending, UnderConstruction
  <1>13. ActiveInv'
    BY <1>1, <1>2, <1>4, <1>6 DEF IInv, TypeOK, ActiveInv, Present
  <1>14. RunsInv'
    BY <1>4, <1>6 DEF IInv, TypeOK, RunsInv, Present
  <1>15. OwedInv'
    BY <1>1, <1>4, <1>6 DEF IInv, TypeOK, OwedInv, Present, WaitingRanAtShutdown
  <1> QED
    BY <1>9, <1>10, <1>11, <1>12, <1>13, <1>14, <1>15 DEF IInv

LEMMA LateCancelInv ==
    ASSUME IInv, TypeOK', NEW id \in TaskIds, LateCancel(id)
    PROVE  IInv'
  <1>1. /\ UNCHANGED <<g_tasks, timer, ready, g_running, phase, pc, active, current,
                       visited, worker, runs, owed>>
        /\ fault' = "late_cancel"
    BY DEF LateCancel, Fail
  <1> QED
    BY <1>1
    DEF IInv, OnlyLateCancelFaults, StopOnce, PhaseInv, WorkerInv, Busy, TimerInv, HandleOwned,
        UnderConstruction, ActiveInv, RunsInv, OwedInv, WaitingRanAtShutdown, Present, Pending

\* Appending to or taking from the ready list.
LEMMA AppendReady ==
    ASSUME ready \in Seq({"fn", "stop"}), NEW x \in {"fn", "stop"}, ready' = Append(ready, x)
    PROVE  /\ DOMAIN ready' = 1..(Len(ready) + 1) /\ DOMAIN ready = 1..Len(ready)
           /\ Len(ready) \in Nat
           /\ \A i \in DOMAIN ready : ready'[i] = ready[i]
           /\ ready'[Len(ready) + 1] = x
  OBVIOUS

LEMMA TailReady ==
    ASSUME ready \in Seq({"fn", "stop"}), ready # <<>>, ready' = Tail(ready)
    PROVE  /\ DOMAIN ready' = 1..(Len(ready) - 1) /\ DOMAIN ready = 1..Len(ready)
           /\ Len(ready) \in Nat \ {0}
           /\ \A i \in DOMAIN ready' : ready'[i] = ready[i + 1] /\ i + 1 \in DOMAIN ready
           /\ Head(ready) = ready[1] /\ 1 \in DOMAIN ready
  OBVIOUS

LEMMA QueueInv == ASSUME IInv, TypeOK', Queue PROVE IInv'
  <1>1. ready' = Append(ready, "fn") /\ ready \in Seq({"fn", "stop"})
    BY DEF IInv, TypeOK, Queue
  <1>2. UNCHANGED <<g_tasks, timer, g_running, phase, pc, active, current, visited,
                    worker, runs, owed, fault>>
    BY DEF Queue
  <1>3. StopOnce'
    BY <1>1, <1>2, AppendReady DEF IInv, StopOnce
  <1> QED
    BY <1>2, <1>3
    DEF IInv, OnlyLateCancelFaults, PhaseInv, WorkerInv, Busy, TimerInv, HandleOwned, UnderConstruction,
        ActiveInv, RunsInv, OwedInv, WaitingRanAtShutdown, Present, Pending

LEMMA ShutdownInv == ASSUME IInv, Rules, TypeOK', Shutdown PROVE IInv'
  <1>1. ready' = Append(ready, "stop") /\ ready \in Seq({"fn", "stop"}) /\ g_running
    BY DEF IInv, TypeOK, Shutdown
  <1>2. ~g_running' /\ UNCHANGED <<g_tasks, timer, phase, pc, active, current, visited,
                                   worker, runs, owed, fault>>
    BY DEF Shutdown
  <1>3. StopOnce'
    <2>1. phase = "running" /\ \A i \in DOMAIN ready : ready[i] # "stop"
      BY <1>1 DEF IInv, StopOnce
    <2> QED
      BY <1>1, <1>2, <2>1, AppendReady DEF StopOnce
  <1>4. \A w \in Workers : ~Busy(w)
    BY DEF Shutdown, Rules, Busy
  <1>5. WorkerInv'
    BY <1>2, <1>4 DEF IInv, WorkerInv, Busy
  <1> QED
    BY <1>2, <1>3, <1>5
    DEF IInv, OnlyLateCancelFaults, PhaseInv, TimerInv, HandleOwned, UnderConstruction,
        ActiveInv, RunsInv, OwedInv, WaitingRanAtShutdown, Present, Pending

LEMMA WorkerAddInv ==
    ASSUME IInv, Rules, TypeOK',
           NEW w \in Workers, NEW id \in TaskIds, NEW f \in Flags, WorkerAdd(w, id, f)
    PROVE  IInv'
  <1>1. /\ ~Present(id) /\ id \notin visited /\ g_running /\ phase = "running"
        /\ visited = {} /\ worker[w].pc = "idle"
    BY DEF IInv, Rules, WorkerAdd, FreshId, ActiveInv, StopOnce, PhaseInv
  <1>2. /\ g_tasks'[id] = NewEntry(NullHandle, f) /\ g_tasks'[id] # NoEntry
        /\ g_tasks'[id].handle = NullHandle
        /\ \A other \in TaskIds : other # id => g_tasks'[other] = g_tasks[other]
    <2>1. NewEntry(NullHandle, f) # NoEntry /\ NewEntry(NullHandle, f).handle = NullHandle
      BY NewEntryData
    <2>2. g_tasks' = [g_tasks EXCEPT ![id] = NewEntry(NullHandle, f)]
      BY DEF WorkerAdd
    <2> QED
      BY <2>1, <2>2 DEF IInv, TypeOK
  <1>3. /\ worker'[w] = [pc |-> "added", id |-> id, handle |-> NullHandle]
        /\ \A v \in Workers : v # w => worker'[v] = worker[v]
    BY DEF IInv, TypeOK, WorkerAdd
  <1>4. /\ runs'[id] = 0
        /\ \A other \in TaskIds : other # id => runs'[other] = runs[other]
    BY DEF IInv, TypeOK, WorkerAdd
  <1>5. UNCHANGED <<timer, ready, g_running, phase, pc, active, current, visited, owed, fault>>
    BY DEF WorkerAdd
  <1>6. pc \in {"timer", "atShutdown"} => active # id
    BY <1>1 DEF IInv, ActiveInv
  <1>7. \A v \in Workers : Busy(v) => worker[v].id # id
    BY <1>1 DEF IInv, WorkerInv
  <1>8. \A k \in Handles : timer[k] # id
    BY <1>1, SchedulerAssumption DEF IInv, TimerInv
  <1>9. StopOnce' /\ OnlyLateCancelFaults' /\ PhaseInv'
    BY <1>5 DEF IInv, StopOnce, OnlyLateCancelFaults, PhaseInv
  <1>10. WorkerInv'
    <2>1. ASSUME NEW v \in Workers, v # w, Busy(v)
          PROVE  g_tasks'[worker[v].id] = g_tasks[worker[v].id]
      BY <1>2, <1>7, <2>1 DEF IInv, TypeOK, Busy
    <2> QED
      BY <1>1, <1>2, <1>3, <1>5, <1>6, <1>7, <2>1 DEF IInv, WorkerInv, Busy, Present
  <1>11. TimerInv'
    <2> SUFFICES ASSUME NEW k \in Handles, timer[k] # NoTask
                 PROVE  /\ Present(timer[k])'
                        /\ \/ g_tasks'[timer[k]].handle = k
                           \/ \E v \in Workers : worker'[v].pc = "armed"
                                /\ worker'[v].id = timer[k] /\ worker'[v].handle = k
      BY <1>5 DEF IInv, TimerInv
    <2>1. timer[k] \in TaskIds /\ timer[k] # id
      BY <1>8 DEF IInv, TypeOK
    <2>2. g_tasks'[timer[k]] = g_tasks[timer[k]]
      BY <1>2, <2>1
    <2>3. \A v \in Workers : worker[v].pc = "armed" => worker'[v] = worker[v]
      BY <1>1, <1>3
    <2> QED
      BY <1>5, <2>1, <2>2, <2>3 DEF IInv, TimerInv, Present
  <1>12. HandleOwned'
    <2> SUFFICES ASSUME NEW other \in TaskIds, Present(other)',
                        (pc = "timer" => other # active), other \notin UnderConstruction'
                 PROVE  Pending(g_tasks'[other].handle) /\ timer[g_tasks'[other].handle] = other
      BY <1>1, <1>5 DEF HandleOwned, Pending
    <2>1. id \in UnderConstruction'
      BY <1>3 DEF UnderConstruction
    <2>2. other # id /\ Present(other)
      BY <1>2, <2>1 DEF Present
    <2>3. other \notin UnderConstruction
      <3>1. worker[w].id = NoTask
        BY <1>1 DEF IInv, WorkerInv, Busy, Idle
      <3> QED
        BY <1>3, <3>1, SchedulerAssumption DEF UnderConstruction
    <2>4. Pending(g_tasks[other].handle) /\ timer[g_tasks[other].handle] = other
      BY <1>1, <2>2, <2>3 DEF IInv, HandleOwned
    <2> QED
      BY <1>2, <2>2, <2>4 DEF Pending
  <1>13. ActiveInv'
    BY <1>1, <1>2, <1>5, <1>6 DEF IInv, TypeOK, ActiveInv, Present
  <1>14. RunsInv'
    <2>1. \A other \in TaskIds : runs'[other] <= 1
      BY <1>4 DEF IInv, RunsInv
    <2>2. ASSUME NEW other \in TaskIds, other # id, Present(other)', ~g_tasks'[other].repeat,
                 other \notin visited, pc \in {"timer", "atShutdown"} => other # active
          PROVE  runs'[other] = 0
      BY <1>1, <1>2, <1>4, <2>2 DEF IInv, RunsInv, Present
    <2> QED
      BY <1>4, <1>5, <2>1, <2>2 DEF RunsInv
  <1>15. OwedInv'
    BY <1>1, <1>5 DEF IInv, OwedInv, WaitingRanAtShutdown
  <1> QED
    BY <1>9, <1>10, <1>11, <1>12, <1>13, <1>14, <1>15 DEF IInv

LEMMA WorkerArmInv ==
    ASSUME IInv, TypeOK', NEW w \in Workers, NEW h \in Handles, WorkerArm(w, h)
    PROVE  IInv'
  <1> DEFINE id == worker[w].id
  <1>1. /\ worker[w].pc = "added" /\ id \in TaskIds /\ Present(id)
        /\ g_running /\ phase = "running" /\ visited = {}
        /\ g_tasks[id].handle = NullHandle /\ (pc = "timer" => id # active)
    BY DEF IInv, TypeOK, WorkerArm, WorkerInv, Busy, StopOnce, PhaseInv
  <1>2. /\ timer[h] = NoTask /\ timer'[h] = id
        /\ \A other \in Handles : other # h => timer'[other] = timer[other]
    BY DEF IInv, TypeOK, WorkerArm, FreeHandle, Arm
  <1>3. /\ worker'[w].pc = "armed" /\ worker'[w].id = id /\ worker'[w].handle = h
        /\ \A v \in Workers : v # w => worker'[v] = worker[v]
    BY DEF IInv, TypeOK, WorkerArm
  <1>4. UNCHANGED <<g_tasks, ready, g_running, phase, pc, active, current, visited,
                    runs, owed, fault>>
    BY DEF WorkerArm
  <1>5. StopOnce' /\ OnlyLateCancelFaults' /\ PhaseInv'
    BY <1>1, <1>4 DEF IInv, StopOnce, OnlyLateCancelFaults, PhaseInv
  <1>6. WorkerInv'
    <2>1. ASSUME NEW v \in Workers, worker[v].pc = "armed"
          PROVE  timer'[worker[v].handle] = timer[worker[v].handle]
      <3>1. worker[v].handle \in Handles /\ timer[worker[v].handle] \in TaskIds
        BY <2>1 DEF IInv, TypeOK, WorkerInv
      <3> QED
        BY <1>2, <3>1, SchedulerAssumption
    <2> QED
      BY <1>1, <1>2, <1>3, <1>4, <2>1 DEF IInv, WorkerInv, Busy, Present
  <1>7. TimerInv'
    BY <1>1, <1>2, <1>3, <1>4 DEF IInv, TimerInv, Present
  <1>8. HandleOwned'
    <2>1. UnderConstruction' = UnderConstruction
      BY <1>3 DEF UnderConstruction
    <2>2. ASSUME NEW other \in TaskIds, Pending(g_tasks[other].handle)
          PROVE  timer'[g_tasks[other].handle] = timer[g_tasks[other].handle]
      BY <1>2, <2>2 DEF Pending
    <2> QED
      BY <1>4, <2>1, <2>2 DEF IInv, HandleOwned, Present, Pending
  <1>9. ActiveInv' /\ RunsInv' /\ OwedInv'
    BY <1>4 DEF IInv, ActiveInv, RunsInv, OwedInv, WaitingRanAtShutdown, Present
  <1> QED
    BY <1>5, <1>6, <1>7, <1>8, <1>9 DEF IInv

LEMMA WorkerStoreInv ==
    ASSUME IInv, TypeOK', NEW w \in Workers, WorkerStore(w)
    PROVE  IInv'
  <1> DEFINE id == worker[w].id
             h == worker[w].handle
  <1>1. /\ worker[w].pc = "armed" /\ id \in TaskIds /\ Present(id) /\ h \in Handles
        /\ timer[h] = id /\ phase = "running" /\ visited = {}
    BY DEF IInv, TypeOK, WorkerStore, WorkerInv, Busy, StopOnce, PhaseInv
  <1>2. /\ g_tasks' = StoreHandle(id, h) /\ worker' = [worker EXCEPT ![w] = Idle]
        /\ UNCHANGED <<timer, ready, g_running, phase, pc, active, current, visited,
                       runs, owed, fault>>
    BY <1>1 DEF WorkerStore
  <1>3. /\ \A other \in TaskIds : other # id => g_tasks'[other] = g_tasks[other]
        /\ g_tasks'[id] # NoEntry /\ g_tasks'[id].handle = h
        /\ g_tasks'[id].repeat = g_tasks[id].repeat
        /\ g_tasks'[id].run_on_shutdown = g_tasks[id].run_on_shutdown
    <2>1. g_tasks \in [TaskIds -> TaskData \cup {NoEntry}] /\ h \in Handles \cup {NullHandle}
      BY <1>1 DEF IInv, TypeOK
    <2>2. id \in TaskIds /\ Present(id)
      BY <1>1
    <2>3. /\ \A other \in TaskIds : other # id => StoreHandle(id, h)[other] = g_tasks[other]
          /\ StoreHandle(id, h)[id] # NoEntry
          /\ StoreHandle(id, h)[id].handle = h
          /\ StoreHandle(id, h)[id].repeat = g_tasks[id].repeat
          /\ StoreHandle(id, h)[id].run_on_shutdown = g_tasks[id].run_on_shutdown
      BY <2>1, <2>2, StoreHandleData
    <2> QED
      BY <1>2, <2>3
  <1>4. worker'[w] = Idle /\ \A v \in Workers : v # w => worker'[v] = worker[v]
    BY <1>2 DEF IInv, TypeOK
  <1>5. \A v \in Workers : v # w /\ Busy(v) => worker[v].id # id
    BY <1>1 DEF IInv, WorkerInv, Busy
  <1>6. \A k \in Handles : timer[k] = id => k = h
    BY <1>1, <1>5, SchedulerAssumption DEF IInv, TimerInv, WorkerInv, Busy
  <1>7. \A other \in TaskIds : Present(other)' <=> Present(other)
    BY <1>1, <1>3 DEF Present
  <1>8. StopOnce' /\ OnlyLateCancelFaults' /\ PhaseInv'
    BY <1>2 DEF IInv, StopOnce, OnlyLateCancelFaults, PhaseInv
  <1>9. WorkerInv'
    <2>1. ~Busy(w)' /\ worker'[w].pc \notin {"added", "armed"}
      BY <1>4 DEF Busy, Idle
    <2>2. ASSUME NEW v \in Workers, v # w
          PROVE  /\ ~Busy(v)' => worker'[v] = Idle
                 /\ Busy(v)' => /\ g_running' /\ Present(worker[v].id)'
                                /\ g_tasks'[worker[v].id].handle = NullHandle
                                /\ pc' = "timer" => worker[v].id # active'
                 /\ worker'[v].pc = "added" => worker'[v].handle = NullHandle
                 /\ worker'[v].pc = "armed" =>
                       worker'[v].handle \in Handles /\ timer'[worker'[v].handle] = worker'[v].id
      <3>1. worker'[v] = worker[v] /\ (Busy(v)' <=> Busy(v))
        BY <1>4, <2>2 DEF Busy
      <3>2. Busy(v) => worker[v].id \in TaskIds /\ worker[v].id # id
        <4>1. Busy(v) => worker[v].id \in TaskIds
          BY DEF IInv, TypeOK, Busy
        <4>2. Busy(v) => worker[v].id # id
          BY <1>5, <2>2
        <4> QED
          BY <4>1, <4>2
      <3>3. Busy(v) => g_tasks'[worker[v].id] = g_tasks[worker[v].id]
        BY <1>3, <3>2
      <3>4. Busy(v) => Present(worker[v].id)'
        BY <3>1, <3>3 DEF IInv, WorkerInv, Present
      <3> QED
        BY <1>2, <3>1, <3>3, <3>4 DEF IInv, WorkerInv
    <2>3. \A v, u \in Workers :
             Busy(v)' /\ Busy(u)' /\ worker'[v].id = worker'[u].id => v = u
      BY <1>4, <2>1 DEF IInv, WorkerInv, Busy
    <2> QED
      BY <1>4, <2>1, <2>2, <2>3 DEF WorkerInv
  <1>10. TimerInv'
    <2> SUFFICES ASSUME NEW k \in Handles, timer[k] # NoTask
                 PROVE  \/ g_tasks'[timer[k]].handle = k
                        \/ \E v \in Workers : worker'[v].pc = "armed"
                             /\ worker'[v].id = timer[k] /\ worker'[v].handle = k
      BY <1>2, <1>7 DEF IInv, TypeOK, TimerInv
    <2>1. CASE timer[k] = id
      BY <1>3, <1>6, <2>1
    <2>2. CASE timer[k] # id
      BY <1>3, <1>4, <2>2 DEF IInv, TypeOK, TimerInv
    <2> QED
      BY <2>1, <2>2
  <1>11. HandleOwned'
    <2> SUFFICES ASSUME NEW other \in TaskIds, Present(other)',
                        (pc = "timer" => other # active), other \notin UnderConstruction'
                 PROVE  Pending(g_tasks'[other].handle) /\ timer[g_tasks'[other].handle] = other
      BY <1>1, <1>2 DEF HandleOwned, Pending
    <2>1. CASE other = id
      BY <1>1, <1>3, <2>1, SchedulerAssumption DEF Pending
    <2>2. CASE other # id
      <3>1. other \notin UnderConstruction
        BY <1>4, <2>2 DEF UnderConstruction
      <3> QED
        BY <1>1, <1>3, <1>7, <2>2, <3>1 DEF IInv, HandleOwned
    <2> QED
      BY <2>1, <2>2
  <1>12. ActiveInv' /\ RunsInv' /\ OwedInv'
    BY <1>1, <1>2, <1>3, <1>7 DEF IInv, TypeOK, ActiveInv, RunsInv, OwedInv, WaitingRanAtShutdown
  <1> QED
    BY <1>8, <1>9, <1>10, <1>11, <1>12 DEF IInv

LEMMA FireTimerInv ==
    ASSUME IInv, Rules, TypeOK', NEW h \in Handles, FireTimer(h)
    PROVE  IInv'
  <1> DEFINE id == timer[h]
  <1>1. /\ pc = "loop" /\ id \in TaskIds /\ Present(id) /\ id \notin visited
        /\ phase = "running"
    BY DEF IInv, TypeOK, FireTimer, InLoop, TimerInv, PhaseInv, Phases
  <1>2. /\ timer' = Disarm(h) /\ pc' = "timer" /\ active' = id
        /\ runs' = [runs EXCEPT ![id] = Ran(id)]
        /\ UNCHANGED <<g_tasks, ready, g_running, phase, visited, worker, owed, fault>>
    BY <1>1 DEF FireTimer
  <1>3. timer'[h] = NoTask /\ \A other \in Handles : other # h => timer'[other] = timer[other]
    BY <1>2 DEF IInv, TypeOK, Disarm
  <1>4. \A w \in Workers : worker[w].handle # h
    BY DEF FireTimer, Rules
  <1>5. g_tasks[id].handle = h
    BY <1>1, <1>4, SchedulerAssumption DEF IInv, TimerInv
  <1>6. \A other \in Handles : timer[other] = id => other = h
    <2> SUFFICES ASSUME NEW other \in Handles, timer[other] = id PROVE other = h
      OBVIOUS
    <2>1. CASE g_tasks[id].handle = other
      BY <1>5, <2>1
    <2>2. CASE \E w \in Workers : worker[w].pc = "armed" /\ worker[w].id = id
      <3>1. g_tasks[id].handle = NullHandle
        BY <2>2 DEF IInv, WorkerInv, Busy
      <3> QED
        BY <1>5, <3>1, SchedulerAssumption
    <2> QED
      BY <1>1, <2>1, <2>2, SchedulerAssumption DEF IInv, TimerInv
  <1>7. \A w \in Workers : Busy(w) => worker[w].id # id
    BY <1>5, SchedulerAssumption DEF IInv, WorkerInv
  <1>8. StopOnce' /\ OnlyLateCancelFaults' /\ PhaseInv'
    BY <1>1, <1>2 DEF IInv, StopOnce, OnlyLateCancelFaults, PhaseInv
  <1>9. WorkerInv'
    <2>1. ASSUME NEW w \in Workers, worker[w].pc = "armed"
          PROVE  timer'[worker[w].handle] = timer[worker[w].handle]
      BY <1>3, <1>4, <2>1 DEF IInv, WorkerInv
    <2> QED
      BY <1>2, <1>7, <2>1 DEF IInv, WorkerInv, Busy, Present
  <1>10. TimerInv'
    <2> SUFFICES ASSUME NEW k \in Handles, timer'[k] # NoTask
                 PROVE  k # h /\ timer'[k] = timer[k] /\ timer[k] # id
      BY <1>2 DEF IInv, TimerInv, Present
    <2> QED
      BY <1>3, <1>6
  <1>11. HandleOwned'
    <2> SUFFICES ASSUME NEW other \in TaskIds, Present(other), other # id,
                        other \notin visited \cup UnderConstruction
                 PROVE  /\ Pending(g_tasks[other].handle)
                        /\ g_tasks[other].handle # h
                        /\ timer[g_tasks[other].handle] = other
      BY <1>2, <1>3 DEF HandleOwned, Present, Pending, UnderConstruction
    <2> QED
      BY <1>1 DEF IInv, HandleOwned
  <1>12. ActiveInv'
    BY <1>1, <1>2 DEF IInv, ActiveInv, Present
  <1>13. RunsInv'
    <2>1. Ran(id) <= 1
      BY <1>1 DEF IInv, RunsInv, Ran
    <2> QED
      BY <1>1, <1>2, <2>1 DEF IInv, TypeOK, RunsInv, Present
  <1>14. OwedInv'
    BY <1>1, <1>2 DEF IInv, OwedInv, WaitingRanAtShutdown
  <1> QED
    BY <1>8, <1>9, <1>10, <1>11, <1>12, <1>13, <1>14 DEF IInv

LEMMA RearmInv ==
    ASSUME IInv, TypeOK', NEW h \in Handles, Rearm(h)
    PROVE  IInv'
  <1>1. /\ pc = "timer" /\ active \in TaskIds /\ Present(active) /\ g_tasks[active].repeat
        /\ phase # "stopping" /\ visited = {}
    BY DEF IInv, TypeOK, Rearm, PhaseInv
  <1>2. /\ timer' = Arm(active, h) /\ g_tasks' = StoreHandle(active, h)
        /\ pc' = "loop" /\ active' = NoTask
        /\ UNCHANGED <<ready, g_running, phase, visited, worker, runs, owed, fault>>
    BY DEF Rearm
  <1>3. /\ timer[h] = NoTask /\ timer'[h] = active
        /\ \A other \in Handles : other # h => timer'[other] = timer[other]
    BY <1>2 DEF IInv, TypeOK, Rearm, FreeHandle, Arm
  <1>4. /\ \A other \in TaskIds : other # active => g_tasks'[other] = g_tasks[other]
        /\ g_tasks'[active] # NoEntry /\ g_tasks'[active].handle = h
        /\ g_tasks'[active].repeat = g_tasks[active].repeat
        /\ g_tasks'[active].run_on_shutdown = g_tasks[active].run_on_shutdown
    <2>1. g_tasks \in [TaskIds -> TaskData \cup {NoEntry}] /\ h \in Handles \cup {NullHandle}
      BY DEF IInv, TypeOK
    <2>2. active \in TaskIds /\ Present(active)
      BY <1>1
    <2>3. /\ \A other \in TaskIds : other # active => StoreHandle(active, h)[other] = g_tasks[other]
          /\ StoreHandle(active, h)[active] # NoEntry
          /\ StoreHandle(active, h)[active].handle = h
          /\ StoreHandle(active, h)[active].repeat = g_tasks[active].repeat
          /\ StoreHandle(active, h)[active].run_on_shutdown = g_tasks[active].run_on_shutdown
      BY <2>1, <2>2, StoreHandleData
    <2> QED
      BY <1>2, <2>3
  <1>5. \A w \in Workers : Busy(w) => worker[w].id # active
    BY <1>1 DEF IInv, WorkerInv
  <1>6. \A k \in Handles : timer[k] # active
    BY <1>1, SchedulerAssumption DEF IInv, TimerInv
  <1>7. \A other \in TaskIds : Present(other)' <=> Present(other)
    BY <1>1, <1>4 DEF Present
  <1>8. StopOnce' /\ OnlyLateCancelFaults' /\ phase # "stopped"
    BY <1>1, <1>2 DEF PhaseInv, IInv, StopOnce, OnlyLateCancelFaults, Rearm
  <1>9. PhaseInv'
    BY <1>1, <1>2, <1>8 DEF IInv, PhaseInv
  <1>10. WorkerInv'
    <2>1. ASSUME NEW w \in Workers, worker[w].pc = "armed"
          PROVE  timer'[worker[w].handle] = timer[worker[w].handle]
      <3>1. worker[w].handle \in Handles /\ timer[worker[w].handle] \in TaskIds
        BY <2>1 DEF IInv, TypeOK, WorkerInv
      <3> QED
        BY <1>3, <3>1, SchedulerAssumption
    <2>2. ASSUME NEW w \in Workers, Busy(w)
          PROVE  g_tasks'[worker[w].id] = g_tasks[worker[w].id]
      BY <1>4, <1>5, <2>2 DEF IInv, TypeOK, Busy
    <2>3. ASSUME NEW w \in Workers, Busy(w)
          PROVE  /\ g_running' /\ Present(worker[w].id)'
                 /\ g_tasks'[worker[w].id].handle = NullHandle
      BY <1>2, <2>2, <2>3 DEF IInv, WorkerInv, Present
    <2>4. \A w \in Workers : (Busy(w)' <=> Busy(w)) /\ (~Busy(w) => worker[w] = Idle)
      BY <1>2 DEF IInv, WorkerInv, Busy
    <2>5. ASSUME NEW w \in Workers, worker[w].pc = "armed"
          PROVE  worker[w].handle \in Handles /\ timer'[worker[w].handle] = worker[w].id
      BY <2>1, <2>5 DEF IInv, WorkerInv
    <2>6. /\ \A w \in Workers : worker[w].pc = "added" => worker[w].handle = NullHandle
          /\ \A v, w \in Workers :
                Busy(v) /\ Busy(w) /\ worker[v].id = worker[w].id => v = w
      BY DEF IInv, WorkerInv
    <2> QED
      BY <1>2, <2>3, <2>4, <2>5, <2>6 DEF WorkerInv
  <1>11. TimerInv'
    <2> SUFFICES ASSUME NEW k \in Handles, timer'[k] # NoTask
                 PROVE  /\ Present(timer[k])' /\ timer'[k] \notin visited'
                        /\ \/ g_tasks'[timer'[k]].handle = k
                           \/ \E w \in Workers : worker'[w].pc = "armed"
                                /\ worker'[w].id = timer'[k] /\ worker'[w].handle = k
      BY <1>2 DEF TimerInv
    <2>1. CASE k = h
      BY <1>1, <1>2, <1>3, <1>4, <2>1 DEF Present
    <2>2. CASE k # h
      <3>1. timer'[k] = timer[k] /\ timer[k] \in TaskIds /\ timer[k] # active
        BY <1>3, <1>6, <2>2 DEF IInv, TypeOK, TimerInv
      <3>2. g_tasks'[timer[k]] = g_tasks[timer[k]]
        BY <1>4, <3>1
      <3> QED
        BY <1>2, <2>2, <3>1, <3>2 DEF IInv, TimerInv, Present
    <2> QED
      BY <2>1, <2>2
  <1>12. HandleOwned'
    <2> SUFFICES ASSUME NEW other \in TaskIds, Present(other),
                        other \notin visited \cup UnderConstruction
                 PROVE  /\ g_tasks'[other].handle \in Handles
                        /\ timer'[g_tasks'[other].handle] = other
      BY <1>2, <1>7, SchedulerAssumption DEF HandleOwned, Pending, UnderConstruction
    <2>1. CASE other = active
      BY <1>3, <1>4, <2>1
    <2>2. CASE other # active
      <3>1. Pending(g_tasks[other].handle) /\ timer[g_tasks[other].handle] = other
        BY <1>8, <2>2 DEF IInv, HandleOwned
      <3> QED
        BY <1>3, <1>4, <2>2, <3>1, SchedulerAssumption DEF Pending
    <2> QED
      BY <2>1, <2>2
  <1>13. ActiveInv'
    BY <1>1, <1>2, <1>7 DEF IInv, ActiveInv
  <1>14. RunsInv'
    BY <1>1, <1>2, <1>4, <1>7 DEF IInv, RunsInv
  <1>15. OwedInv'
    BY <1>1, <1>2, <1>7, <1>8 DEF IInv, OwedInv, WaitingRanAtShutdown
  <1> QED
    BY <1>8, <1>9, <1>10, <1>11, <1>12, <1>13, <1>14, <1>15 DEF IInv

LEMMA RetireInv ==
    ASSUME IInv, TypeOK', Retire
    PROVE  IInv'
  <1>1. /\ pc = "timer" /\ active \in TaskIds /\ Present(active)
        /\ phase # "stopping" /\ visited = {}
    BY DEF IInv, TypeOK, Retire, PhaseInv, ActiveInv
  <1>2. /\ g_tasks' = Remove(active) /\ pc' = "loop" /\ active' = NoTask
        /\ UNCHANGED <<timer, ready, g_running, phase, visited, worker, runs, owed, fault>>
    BY <1>1 DEF Retire
  <1>3. /\ g_tasks'[active] = NoEntry
        /\ \A other \in TaskIds : other # active => g_tasks'[other] = g_tasks[other]
    BY <1>1, <1>2 DEF IInv, TypeOK, Remove
  <1>4. \A w \in Workers : Busy(w) => worker[w].id # active
    BY <1>1 DEF IInv, WorkerInv
  <1>5. \A k \in Handles : timer[k] # active
    BY <1>1, SchedulerAssumption DEF IInv, TimerInv
  <1>6. StopOnce' /\ OnlyLateCancelFaults' /\ PhaseInv'
    BY <1>1, <1>2 DEF IInv, StopOnce, OnlyLateCancelFaults, PhaseInv
  <1>7. WorkerInv'
    <2>1. ASSUME NEW w \in Workers, Busy(w)
          PROVE  g_tasks'[worker[w].id] = g_tasks[worker[w].id]
      BY <1>3, <1>4, <2>1 DEF IInv, TypeOK, Busy
    <2> QED
      BY <1>2, <2>1 DEF IInv, WorkerInv, Busy, Present
  <1>8. TimerInv'
    BY <1>2, <1>3, <1>5 DEF IInv, TypeOK, TimerInv, Present
  <1>9. HandleOwned'
    BY <1>1, <1>2, <1>3 DEF IInv, HandleOwned, Present, Pending, UnderConstruction
  <1>10. ActiveInv' /\ RunsInv'
    BY <1>1, <1>2, <1>3 DEF IInv, ActiveInv, RunsInv, Present
  <1>11. OwedInv'
    BY <1>1, <1>2, <1>3 DEF IInv, TypeOK, OwedInv, WaitingRanAtShutdown, Present
  <1> QED
    BY <1>6, <1>7, <1>8, <1>9, <1>10, <1>11 DEF IInv

LEMMA RunQueuedInv ==
    ASSUME IInv, TypeOK', RunQueued
    PROVE  IInv'
  <1>1. ready' = Tail(ready) /\ ready # <<>> /\ ready \in Seq({"fn", "stop"}) /\ pc = "loop"
    BY DEF IInv, TypeOK, RunQueued, InLoop
  <1>2. pc' = "queued" /\ UNCHANGED <<g_tasks, timer, g_running, phase, active, current,
                                      visited, worker, runs, owed, fault>>
    BY DEF RunQueued
  <1>3. StopOnce'
    BY <1>1, <1>2, TailReady DEF IInv, StopOnce
  <1> QED
    BY <1>1, <1>2, <1>3
    DEF IInv, OnlyLateCancelFaults, PhaseInv, WorkerInv, Busy, TimerInv, HandleOwned, UnderConstruction,
        ActiveInv, RunsInv, OwedInv, WaitingRanAtShutdown, Present, Pending

LEMMA ReturnQueuedInv ==
    ASSUME IInv, TypeOK', ReturnQueued
    PROVE  IInv'
  <1>1. pc = "queued" /\ pc' = "loop"
    BY DEF ReturnQueued
  <1>2. UNCHANGED <<g_tasks, timer, ready, g_running, phase, active, current, visited,
                    worker, runs, owed, fault>>
    BY DEF ReturnQueued
  <1> QED
    BY <1>1, <1>2
    DEF IInv, OnlyLateCancelFaults, StopOnce, PhaseInv, WorkerInv, Busy, TimerInv, HandleOwned,
        UnderConstruction, ActiveInv, RunsInv, OwedInv, WaitingRanAtShutdown, Present, Pending

LEMMA BeginStopInv ==
    ASSUME IInv, TypeOK', BeginStop
    PROVE  IInv'
  <1>1. /\ ready' = Tail(ready) /\ ready # <<>> /\ Head(ready) = "stop"
        /\ ready \in Seq({"fn", "stop"}) /\ pc = "loop"
    BY DEF IInv, TypeOK, BeginStop, InLoop
  <1>2. /\ phase' = "stopping" /\ pc' = "visit"
        /\ owed' = {id \in TaskIds : Present(id) /\ g_tasks[id].run_on_shutdown}
        /\ UNCHANGED <<g_tasks, timer, g_running, active, current, visited, worker, runs, fault>>
    BY DEF BeginStop
  <1>3. ready[1] = "stop" /\ 1 \in DOMAIN ready
    BY <1>1, TailReady
  <1>4. ~g_running /\ phase = "running" /\ visited = {}
    BY <1>3 DEF IInv, StopOnce, PhaseInv
  <1>5. StopOnce'
    BY <1>1, <1>2, <1>3, <1>4, TailReady DEF IInv, StopOnce
  <1>6. PhaseInv' /\ OnlyLateCancelFaults'
    BY <1>2 DEF IInv, PhaseInv, OnlyLateCancelFaults
  <1>7. WorkerInv' /\ TimerInv'
    BY <1>1, <1>2 DEF IInv, WorkerInv, Busy, TimerInv, Present
  <1>8. HandleOwned' /\ ActiveInv' /\ RunsInv'
    BY <1>1, <1>2, <1>4 DEF IInv, HandleOwned, ActiveInv, RunsInv, Present, Pending,
       UnderConstruction
  <1>9. OwedInv'
    BY <1>2, <1>4 DEF OwedInv, WaitingRanAtShutdown, Present
  <1> QED
    BY <1>5, <1>6, <1>7, <1>8, <1>9 DEF IInv

\* While cancelAll runs no worker is busy.
LEMMA NobodyBusy ==
    ASSUME IInv, phase = "stopping"
    PROVE  UnderConstruction \cap TaskIds = {} /\ \A w \in Workers : worker[w] = Idle
  BY SchedulerAssumption DEF IInv, StopOnce, WorkerInv, Busy, UnderConstruction, Idle

\* One turn of cancelAll's loop, for the entry the iterator is at.
LEMMA CancelVisitedInv ==
    ASSUME IInv, TypeOK', phase = "stopping", NEW id \in TaskIds, Present(id), id \notin visited,
           id \in owed => runs[id] = 1,
           \A other \in owed : other < id => other \in visited,
           \A v \in visited : v < id,
           pc = "atShutdown" => id = active,
           CancelVisited(id)
    PROVE  IInv'
  <1> DEFINE h == g_tasks[id].handle
  <1>1. \A w \in Workers : worker[w] = Idle
    BY NobodyBusy
  <1>2. id \notin UnderConstruction /\ pc # "timer"
    BY NobodyBusy DEF IInv, PhaseInv
  <1>3. Pending(h) /\ timer[h] = id
    BY <1>2 DEF IInv, HandleOwned
  <1>4. /\ timer' = Disarm(h) /\ visited' = visited \cup {id} /\ pc' = "visit"
        /\ UNCHANGED <<g_tasks, ready, g_running, phase, current, worker, runs, owed, fault>>
    BY <1>3 DEF CancelVisited
  <1>5. /\ h \in Handles /\ timer'[h] = NoTask
        /\ \A other \in Handles : other # h => timer'[other] = timer[other]
    BY <1>3, <1>4 DEF IInv, TypeOK, Disarm, Pending
  <1>6. \A other \in Handles : other # h => timer[other] # id
    BY <1>1, SchedulerAssumption DEF IInv, TimerInv, Idle
  <1>7. StopOnce' /\ OnlyLateCancelFaults' /\ PhaseInv'
    BY <1>4 DEF IInv, StopOnce, OnlyLateCancelFaults, PhaseInv
  <1>8. WorkerInv'
    BY <1>1, <1>4 DEF IInv, WorkerInv, Busy, Idle
  <1>9. TimerInv'
    BY <1>4, <1>5, <1>6 DEF IInv, TimerInv, Present
  <1>10. HandleOwned'
    <2> SUFFICES ASSUME NEW other \in TaskIds, Present(other), other # id,
                        other \notin visited \cup UnderConstruction
                 PROVE  /\ Pending(g_tasks[other].handle)
                        /\ g_tasks[other].handle # h
                        /\ timer[g_tasks[other].handle] = other
      BY <1>4, <1>5 DEF HandleOwned, Present, Pending, UnderConstruction
    <2> QED
      BY <1>2, <1>3 DEF IInv, HandleOwned
  <1>11. ActiveInv'
    BY <1>4 DEF IInv, ActiveInv, Present
  <1>12. RunsInv'
    BY <1>2, <1>4 DEF IInv, RunsInv, Present
  <1>13. OwedInv'
    BY <1>4 DEF IInv, TypeOK, OwedInv, WaitingRanAtShutdown, Present
  <1> QED
    BY <1>7, <1>8, <1>9, <1>10, <1>11, <1>12, <1>13 DEF IInv

LEMMA VisitPlainInv ==
    ASSUME IInv, TypeOK', NEW id \in TaskIds, VisitPlain(id)
    PROVE  IInv'
  <1>1. phase = "stopping" /\ pc = "visit"
    BY DEF IInv, PhaseInv, VisitPlain, InVisit
  <1>2. Present(id) /\ id \notin visited /\ \A v \in visited : v < id
    BY SchedulerAssumption DEF VisitPlain, IsNext, Unvisited
  <1>3. id \notin owed
    BY <1>1 DEF IInv, OwedInv, VisitPlain, RunsAtShutdown
  <1>4. \A other \in owed : other < id => other \in visited
    <2> SUFFICES ASSUME NEW other \in owed, other < id, other \notin visited PROVE FALSE
      OBVIOUS
    <2>1. other \in TaskIds /\ Present(other)
      BY <1>1 DEF IInv, TypeOK, OwedInv
    <2>2. \A v \in visited : v < other
      BY <1>1, <2>1, SchedulerAssumption DEF IInv, TypeOK, OwedInv
    <2>3. other \in Unvisited
      BY <2>1, <2>2 DEF Unvisited
    <2> QED
      BY <2>1, <2>3, SchedulerAssumption DEF VisitPlain, IsNext
  <1> QED
    BY <1>1, <1>2, <1>3, <1>4, CancelVisitedInv DEF VisitPlain

LEMMA VisitRunInv ==
    ASSUME IInv, TypeOK', NEW id \in TaskIds, VisitRun(id)
    PROVE  IInv'
  <1>1. phase = "stopping" /\ pc = "visit"
    BY DEF IInv, PhaseInv, VisitRun, InVisit
  <1>2. Present(id) /\ id \notin visited /\ \A v \in visited : v < id
    BY SchedulerAssumption DEF VisitRun, IsNext, Unvisited
  <1>3. /\ pc' = "atShutdown" /\ active' = id /\ runs' = [runs EXCEPT ![id] = Ran(id)]
        /\ UNCHANGED <<g_tasks, timer, ready, g_running, phase, current, visited, worker,
                       owed, fault>>
    BY DEF VisitRun
  <1>4. runs'[id] = 1 /\ \A other \in TaskIds : other # id => runs'[other] = runs[other]
    <2>1. runs[id] = 0 \/ g_tasks[id].repeat
      BY <1>1, <1>2 DEF IInv, RunsInv
    <2> QED
      BY <1>3, <2>1 DEF IInv, TypeOK, Ran
  <1>5. \A other \in owed : other < id => other \in visited
    <2> SUFFICES ASSUME NEW other \in owed, other < id, other \notin visited PROVE FALSE
      OBVIOUS
    <2>1. other \in TaskIds /\ Present(other)
      BY <1>1 DEF IInv, TypeOK, OwedInv
    <2>2. \A v \in visited : v < other
      BY <1>1, <2>1, SchedulerAssumption DEF IInv, TypeOK, OwedInv
    <2>3. other \in Unvisited
      BY <2>1, <2>2 DEF Unvisited
    <2> QED
      BY <2>1, <2>3, SchedulerAssumption DEF VisitRun, IsNext
  <1>6. \A w \in Workers : ~Busy(w)
    BY <1>1, NobodyBusy DEF Busy, Idle
  <1>7. StopOnce' /\ OnlyLateCancelFaults' /\ PhaseInv'
    BY <1>1, <1>3 DEF IInv, StopOnce, OnlyLateCancelFaults, PhaseInv
  <1>8. WorkerInv'
    BY <1>3, <1>6 DEF IInv, WorkerInv, Busy
  <1>9. TimerInv' /\ HandleOwned'
    BY <1>1, <1>3 DEF IInv, TimerInv, HandleOwned, Present, Pending, UnderConstruction
  <1>10. ActiveInv'
    BY <1>2, <1>3 DEF IInv, ActiveInv, Present
  <1>11. RunsInv'
    BY <1>1, <1>3, <1>4 DEF IInv, RunsInv, Present
  <1>12. OwedInv'
    BY <1>1, <1>3, <1>4, <1>5 DEF IInv, TypeOK, OwedInv, WaitingRanAtShutdown, Present
  <1> QED
    BY <1>7, <1>8, <1>9, <1>10, <1>11, <1>12 DEF IInv

LEMMA ReturnAtShutdownInv ==
    ASSUME IInv, TypeOK', ReturnAtShutdown
    PROVE  IInv'
  <1>1. pc = "atShutdown" /\ phase = "stopping" /\ active \in TaskIds
    BY DEF IInv, TypeOK, PhaseInv, ReturnAtShutdown
  <1>2. Present(active) /\ \A v \in visited : v < active
    BY <1>1 DEF IInv, ActiveInv
  <1>3. active \notin visited
    BY <1>1, <1>2, SchedulerAssumption
  <1>4. CancelVisited(active)
    BY <1>2 DEF ReturnAtShutdown
  <1>5. /\ active \in owed => runs[active] = 1
        /\ \A other \in owed : other < active => other \in visited
    BY <1>1 DEF IInv, OwedInv
  <1> QED
    BY <1>1, <1>2, <1>3, <1>4, <1>5, CancelVisitedInv

LEMMA PurgeInv ==
    ASSUME IInv, TypeOK', Purge
    PROVE  IInv'
  <1>1. phase = "stopping" /\ pc = "visit" /\ Unvisited = {}
    BY DEF IInv, PhaseInv, Purge, InVisit
  <1>2. \A id \in visited : id \in TaskIds /\ Present(id)
    BY DEF IInv, TypeOK, ActiveInv
  <1>3. \A id \in Missed : Pending(g_tasks[id].handle) /\ timer[g_tasks[id].handle] = id
    BY <1>1, NobodyBusy DEF IInv, HandleOwned, Missed
  <1>4. /\ g_tasks' = [id \in TaskIds |-> IF id \in visited THEN NoEntry ELSE g_tasks[id]]
        /\ timer' = [h \in Handles |-> IF \E id \in Missed : g_tasks[id].handle = h
                                       THEN NoTask ELSE timer[h]]
        /\ visited' = {} /\ phase' = "stopped" /\ pc' = "loop"
        /\ UNCHANGED <<ready, g_running, active, current, worker, runs, owed, fault>>
    BY <1>2, <1>3 DEF Purge
  <1>5. \A h \in Handles : timer'[h] = NoTask
    <2> SUFFICES ASSUME NEW h \in Handles, timer[h] # NoTask
                 PROVE  timer[h] \in Missed /\ g_tasks[timer[h]].handle = h
      BY <1>4
    <2>1. timer[h] \in TaskIds /\ Present(timer[h]) /\ timer[h] \notin visited
      BY DEF IInv, TypeOK, TimerInv
    <2>2. g_tasks[timer[h]].handle = h
      BY <1>1, NobodyBusy DEF IInv, TimerInv, Idle
    <2> QED
      BY <2>1, <2>2 DEF Missed
  <1>6. \A w \in Workers : worker[w] = Idle
    BY <1>1, NobodyBusy
  <1>7. \A id \in owed : id \in visited
    <2> SUFFICES ASSUME NEW id \in owed, id \notin visited PROVE FALSE
      OBVIOUS
    <2>1. id \in TaskIds /\ Present(id) /\ \A v \in visited : ~(id < v)
      BY <1>1 DEF IInv, TypeOK, OwedInv
    <2>2. ASSUME NEW v \in visited PROVE v < id
      <3>1. v \in Nat /\ id \in Nat /\ v # id /\ ~(id < v)
        BY <1>2, <2>1, SchedulerAssumption
      <3> QED
        BY <3>1
    <2> QED
      BY <1>1, <2>1, <2>2 DEF Unvisited
  <1>8. StopOnce' /\ OnlyLateCancelFaults' /\ PhaseInv'
    BY <1>1, <1>4, <1>5 DEF IInv, StopOnce, OnlyLateCancelFaults, PhaseInv
  <1>9. WorkerInv'
    BY <1>4, <1>6 DEF IInv, WorkerInv, Busy, Idle
  <1>10. TimerInv' /\ HandleOwned' /\ ActiveInv'
    BY <1>4, <1>5 DEF TimerInv, HandleOwned, ActiveInv
  <1>11. RunsInv'
    BY <1>4 DEF IInv, RunsInv
  <1>12. OwedInv'
    BY <1>1, <1>2, <1>4, <1>7 DEF IInv, OwedInv, WaitingRanAtShutdown, Present
  <1> QED
    BY <1>8, <1>9, <1>10, <1>11, <1>12 DEF IInv

LEMMA ExitInv ==
    ASSUME IInv, TypeOK', Exit
    PROVE  IInv'
  <1>1. pc = "loop" /\ pc' = "exited"
    BY DEF Exit, InLoop
  <1>2. UNCHANGED <<g_tasks, timer, ready, g_running, phase, active, current, visited,
                    worker, runs, owed, fault>>
    BY DEF Exit
  <1> QED
    BY <1>1, <1>2
    DEF IInv, OnlyLateCancelFaults, StopOnce, PhaseInv, WorkerInv, Busy, TimerInv, HandleOwned,
        UnderConstruction, ActiveInv, RunsInv, OwedInv, WaitingRanAtShutdown, Present, Pending

LEMMA InvStep == Rules /\ IInv /\ [Next]_vars => IInv'
  <1> SUFFICES ASSUME Rules, IInv, [Next]_vars PROVE IInv'
    OBVIOUS
  <1>1. TypeOK'
    BY TypeStep DEF IInv
  <1>2. CASE Next
    <2>1. ASSUME NEW id \in TaskIds, NEW h \in Handles, NEW f \in Flags, RunDelay(id, h, f)
          PROVE  IInv'
      BY <1>1, <2>1, RunDelayInv
    <2>2. ASSUME NEW id \in TaskIds, Cancel(id) \/ LateCancel(id) \/ VisitPlain(id)
                                          \/ VisitRun(id)
          PROVE  IInv'
      BY <1>1, <2>2, CancelInv, LateCancelInv, VisitPlainInv, VisitRunInv
    <2>3. CASE Queue \/ Shutdown \/ Retire \/ RunQueued \/ ReturnQueued \/ BeginStop
                 \/ ReturnAtShutdown \/ Purge \/ Exit
      BY <1>1, <2>3, QueueInv, ShutdownInv, RetireInv, RunQueuedInv, ReturnQueuedInv,
         BeginStopInv, ReturnAtShutdownInv, PurgeInv, ExitInv
    <2>4. ASSUME NEW w \in Workers, NEW id \in TaskIds, NEW f \in Flags, WorkerAdd(w, id, f)
          PROVE  IInv'
      BY <1>1, <2>4, WorkerAddInv
    <2>5. ASSUME NEW w \in Workers, NEW h \in Handles, WorkerArm(w, h) PROVE IInv'
      BY <1>1, <2>5, WorkerArmInv
    <2>6. ASSUME NEW w \in Workers, WorkerStore(w) PROVE IInv'
      BY <1>1, <2>6, WorkerStoreInv
    <2>7. ASSUME NEW h \in Handles, FireTimer(h) \/ Rearm(h) PROVE IInv'
      BY <1>1, <2>7, FireTimerInv, RearmInv
    <2>8. CASE UNCHANGED vars
      BY <1>1, <2>8
      DEF vars, IInv, OnlyLateCancelFaults, StopOnce, PhaseInv, WorkerInv, Busy, TimerInv, HandleOwned,
          UnderConstruction, ActiveInv, RunsInv, OwedInv, WaitingRanAtShutdown, Present, Pending
    <2> QED
      BY <1>2, <2>1, <2>2, <2>3, <2>4, <2>5, <2>6, <2>7, <2>8 DEF Next, Ended
  <1>3. CASE UNCHANGED vars
    BY <1>1, <1>3
    DEF vars, IInv, OnlyLateCancelFaults, StopOnce, PhaseInv, WorkerInv, Busy, TimerInv, HandleOwned,
        UnderConstruction, ActiveInv, RunsInv, OwedInv, WaitingRanAtShutdown, Present, Pending
  <1> QED
    BY <1>2, <1>3

LEMMA Invariance == Rules => (Spec => []IInv)
  <1> SUFFICES ASSUME Rules PROVE Spec => []IInv
    OBVIOUS
  <1>1. Init => IInv
    BY InvInit
  <1>2. IInv /\ [Next]_vars => IInv'
    BY InvStep
  <1> QED
    BY <1>1, <1>2, PTL DEF Spec

-----------------------------------------------------------------------------
(***************************************************************************)
(* The theorems                                                            *)
(***************************************************************************)

\* Under the rules the code touches a freed GNUnet task or a missing entry only in a
\* cancel that comes too late, also when functions that cancelAll runs cancel others.
THEOREM FaultsOnlyOnLateCancel == Rules => (Spec => []OnlyLateCancelFaults)
  <1> SUFFICES ASSUME Rules PROVE Spec => []OnlyLateCancelFaults
    OBVIOUS
  <1>1. IInv => OnlyLateCancelFaults
    BY DEF IInv
  <1> QED
    BY <1>1, Invariance, PTL

\* g_tasks and GNUnet's timers stay in step: every waiting entry owns its timer and
\* every timer finds its entry.
THEOREM TableStaysInStep == Rules => (Spec => []TableMatchesGNUnet)
  <1> SUFFICES ASSUME Rules PROVE Spec => []TableMatchesGNUnet
    OBVIOUS
  <1>1. IInv => TableMatchesGNUnet
    BY DEF IInv, TimerInv, TimerOwned, TableMatchesGNUnet
  <1> QED
    BY <1>1, Invariance, PTL

\* A runLater function runs at most once.
THEOREM AtMostOnce == Rules => (Spec => []OneShotOnce)
  <1> SUFFICES ASSUME Rules PROVE Spec => []OneShotOnce
    OBVIOUS
  <1>1. IInv => OneShotOnce
    BY DEF IInv, RunsInv, OneShotOnce
  <1> QED
    BY <1>1, Invariance, PTL

\* cancelAll runs each waiting run_on_shutdown function exactly once and retires it.
THEOREM WaitingRun == Rules => (Spec => []WaitingRanAtShutdown)
  <1> SUFFICES ASSUME Rules PROVE Spec => []WaitingRanAtShutdown
    OBVIOUS
  <1>1. IInv => WaitingRanAtShutdown
    BY DEF IInv, OwedInv
  <1> QED
    BY <1>1, Invariance, PTL

\* No GNUnet timer outlives cancelAll.
THEOREM NoneSurvives == Rules => (Spec => []NoTimerSurvives)
  <1> SUFFICES ASSUME Rules PROVE Spec => []NoTimerSurvives
    OBVIOUS
  <1>1. IInv => NoTimerSurvives
    BY DEF IInv, PhaseInv, NoTimerSurvives
  <1> QED
    BY <1>1, Invariance, PTL
=============================================================================
