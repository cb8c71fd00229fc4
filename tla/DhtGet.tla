------------------------------- MODULE DhtGet -------------------------------
(***************************************************************************)
(* The searches of DHT::get: each has a GetCallbackPack, a get handle of   *)
(* GNUnet, a timer in the task table and, when the coroutine overload      *)
(* started it, a QueuedAwaiter owned by the generator.                     *)
(*                                                                         *)
(* A search ends in one of five ways: its timer, its callback returning    *)
(* false, cancel(), its generator being dropped, and cancelAll, which runs *)
(* the timer's function.  Everything happens on GNUnet's thread, but       *)
(* nested: callback, finished_callback, addValue and finish run user code, *)
(* which starts, cancels and drops other searches, and the caller goes on  *)
(* with its pack afterwards.  What can go wrong is a pack, a get handle,   *)
(* a timer or an awaiter used after it is gone, and a search nobody ends.  *)
(***************************************************************************)
EXTENDS Naturals, Sequences

CONSTANTS
    Searches,       \* the calls of get that are made
    Generators,     \* those made through the coroutine overload
    MaxUnread,      \* bound: results that wait in an awaiter's queue
    NoSearch        \* stands for the search in a frame of the user's own

ASSUME DhtGetAssumption ==
    /\ Generators \subseteq Searches
    /\ MaxUnread \in Nat \ {0}
    /\ NoSearch \notin Searches

VARIABLES
    pack,       \* each search's GetCallbackPack: "none", "live", "freed"
    active,     \* the get handles that were started and not stopped
    timer,      \* its entry in the task table: "off", "armed", "firing"
    awaiter,    \* its QueuedAwaiter: "none", "live", "freed"
    finished_,  \* the awaiters that finish() was called on
    unread,     \* entries in its queue, the end of the stream included
    waiting,    \* the searches whose coroutine is suspended in the queue
    stack,      \* what GNUnet's thread is doing, innermost call last
    phase,      \* "running", "cancelAll", "disconnected"
    missed,     \* started in cancelAll with an id it has passed already
    fault       \* something was used that is gone

vars == <<pack, active, timer, awaiter, finished_, unread, waiting, stack,
          phase, missed, fault>>

-----------------------------------------------------------------------------
\* The calls that end a search, and the calls that may run user code.
Ends == {"timer", "visit", "cancel", "reject", "drop"}
Frames == [op : Ends \cup {"result"}, s : Searches, user : BOOLEAN]
          \cup [op : {"task"}, s : {NoSearch}, user : {TRUE}]

Top == stack[Len(stack)]
Pushed(op, s, user) == Append(stack, [op |-> op, s |-> s, user |-> user])
Popped == SubSeq(stack, 1, Len(stack) - 1)
Idle == stack = <<>> /\ ~fault
InUser == stack # <<>> /\ Top.user /\ ~fault
Returning == stack # <<>> /\ ~Top.user /\ ~fault

\* Somebody is ending s: the call is on the stack.
Ending(s) == \E i \in DOMAIN stack : stack[i].op \in Ends /\ stack[i].s = s

TypeOK ==
    /\ pack \in [Searches -> {"none", "live", "freed"}]
    /\ active \subseteq Searches /\ missed \subseteq Searches
    /\ timer \in [Searches -> {"off", "armed", "firing"}]
    /\ awaiter \in [Searches -> {"none", "live", "freed"}]
    /\ finished_ \subseteq Generators /\ waiting \subseteq Generators
    /\ unread \in [Searches -> 0..MaxUnread + 1]
    /\ stack \in Seq(Frames)
    /\ phase \in {"running", "cancelAll", "disconnected"}
    /\ fault \in BOOLEAN

Init ==
    /\ pack = [s \in Searches |-> "none"]
    /\ active = {} /\ missed = {} /\ finished_ = {} /\ waiting = {}
    /\ timer = [s \in Searches |-> "off"]
    /\ awaiter = [s \in Searches |-> "none"]
    /\ unread = [s \in Searches |-> 0]
    /\ stack = <<>>
    /\ phase = "running"
    /\ fault = FALSE

-----------------------------------------------------------------------------
(***************************************************************************)
(* Ending a search                                                         *)
(***************************************************************************)

\* What happens to the timer: scheduler::cancel takes it out of the table, GNUnet and
\* cancelAll have called its function already.
Cancels_Never(op) == FALSE
Cancels(op) == op \in {"cancel", "reject", "drop"}

\* The end of the stream goes into the queue, and a coroutine that waits runs.
FinishAwaiter_NoResume(s) ==
    /\ finished_' = finished_ \cup {s}
    /\ unread' = [unread EXCEPT ![s] = @ + 1]
    /\ waiting' = waiting
FinishAwaiter(s) ==
    /\ finished_' = finished_ \cup {s}
    /\ unread' = [unread EXCEPT ![s] = @ + 1]
    /\ waiting' = waiting \ {s}

\* The order in the code: get_stop, scheduler::cancel, finished_callback; the pack is
\* deleted when these return.  `below` is the stack that the call returns to.
EndSearch(s, op, below) ==
    /\ active' = active \ {s}
    /\ timer' = [timer EXCEPT ![s] = IF Cancels(op) THEN "off"
                                     ELSE IF op \in {"timer", "visit"} THEN "firing" ELSE @]
    /\ fault' = \/ pack[s] # "live" \/ s \notin active
                \/ Cancels(op) /\ timer[s] # "armed"
                \/ s \in Generators /\ (awaiter[s] # "live" \/ s \in finished_)
    /\ IF s \in Generators
       THEN /\ FinishAwaiter(s)
            /\ stack' = Append(below, [op |-> op, s |-> s, user |-> s \in waiting])
       ELSE /\ \E given \in BOOLEAN :      \* finished_callback may be empty
                  stack' = Append(below, [op |-> op, s |-> s, user |-> given])
            /\ UNCHANGED <<finished_, unread, waiting>>

\* delete pack, when finished_callback has returned; a generator that was dropped now
\* loses its awaiter, and a timer that fired or was visited its entry.
Freed(s) == [pack EXCEPT ![s] = "freed"]

Delete ==
    /\ Returning /\ Top.op \in Ends
    /\ pack' = Freed(Top.s)
    /\ timer' = [timer EXCEPT ![Top.s] = IF @ = "firing" THEN "off" ELSE @]
    /\ awaiter' = [awaiter EXCEPT ![Top.s] = IF Top.op = "drop" THEN "freed" ELSE @]
    /\ stack' = Popped
    /\ UNCHANGED <<active, finished_, unread, waiting, phase, missed, fault>>

-----------------------------------------------------------------------------
(***************************************************************************)
(* User code: what a callback or a resumed coroutine may do                *)
(***************************************************************************)

\* A task of the user's, or the function given to run().
Task ==
    /\ Idle /\ phase = "running"
    /\ stack' = Pushed("task", NoSearch, TRUE)
    /\ UNCHANGED <<pack, active, timer, awaiter, finished_, unread, waiting, phase,
                   missed, fault>>

\* get: the timer's random id may be one that cancelAll has passed.
Get(s) ==
    /\ InUser /\ phase # "disconnected"
    /\ pack[s] = "none"
    /\ pack' = [pack EXCEPT ![s] = "live"]
    /\ active' = active \cup {s}
    /\ timer' = [timer EXCEPT ![s] = "armed"]
    /\ awaiter' = [awaiter EXCEPT ![s] = IF s \in Generators THEN "live" ELSE "none"]
    /\ \/ missed' = missed
       \/ phase = "cancelAll" /\ missed' = missed \cup {s}
    /\ UNCHANGED <<finished_, unread, waiting, stack, phase, fault>>

\* cancel, for a search that was started by a callback and whose end the user has not
\* been told; to stop its own search a callback returns false.
Cancel(s) ==
    /\ InUser
    /\ s \notin Generators
    /\ pack[s] = "live" /\ \A i \in DOMAIN stack : stack[i].s # s
    /\ EndSearch(s, "cancel", stack)
    /\ UNCHANGED <<pack, awaiter, phase, missed>>

\* ~GeneratorWrapper, in whatever code owns the generator, while no coroutine is
\* suspended in it: cleanup only if finish() was not called.
NeedsCleanup_Always(s) == TRUE
NeedsCleanup(s) == s \notin finished_

Drop(s) ==
    /\ InUser
    /\ awaiter[s] = "live" /\ s \notin waiting
    /\ IF NeedsCleanup(s)
       THEN EndSearch(s, "drop", stack) /\ UNCHANGED awaiter
       ELSE /\ awaiter' = [awaiter EXCEPT ![s] = "freed"]
            /\ UNCHANGED <<active, timer, finished_, unread, waiting, stack, fault>>
    /\ UNCHANGED <<pack, phase, missed>>

\* next(), until the end of the stream was seen: the first entry, or the coroutine
\* suspends and whoever resumed or started it goes on.
Ask(s) ==
    /\ InUser
    /\ awaiter[s] = "live" /\ s \notin waiting
    /\ ~(s \in finished_ /\ unread[s] = 0)
    /\ IF unread[s] > 0
       THEN unread' = [unread EXCEPT ![s] = @ - 1] /\ UNCHANGED waiting
       ELSE waiting' = waiting \cup {s} /\ UNCHANGED unread
    /\ UNCHANGED <<pack, active, timer, awaiter, finished_, stack, phase, missed, fault>>

\* User code returns to the library ...
UserReturns ==
    /\ InUser
    /\ IF Top.op = "task"
       THEN stack' = Popped
       ELSE stack' = [stack EXCEPT ![Len(stack)].user = FALSE]
    /\ UNCHANGED <<pack, active, timer, awaiter, finished_, unread, waiting, phase,
                   missed, fault>>

\* ... and getCallback to GNUnet, if the search is to go on: a callback says so, the
\* generator's always does.
MayReject_Generators(s) == TRUE
MayReject(s) == s \notin Generators

KeepRunning ==
    /\ Returning /\ Top.op = "result"
    /\ stack' = Popped
    /\ UNCHANGED <<pack, active, timer, awaiter, finished_, unread, waiting, phase,
                   missed, fault>>

Reject ==
    /\ Returning /\ Top.op = "result"
    /\ MayReject(Top.s)
    /\ EndSearch(Top.s, "reject", Popped)
    /\ UNCHANGED <<pack, awaiter, phase, missed>>

-----------------------------------------------------------------------------
(***************************************************************************)
(* GNUnet's thread                                                         *)
(***************************************************************************)

\* A result: addValue for a generator, the user's function otherwise.
Result(s) ==
    /\ Idle /\ phase = "running"
    /\ s \in active
    /\ unread[s] < MaxUnread
    /\ fault' = \/ pack[s] # "live"
                \/ s \in Generators /\ awaiter[s] # "live"
    /\ IF s \in Generators
       THEN /\ unread' = [unread EXCEPT ![s] = @ + 1]
            /\ waiting' = waiting \ {s}
            /\ stack' = Pushed("result", s, s \in waiting)
       ELSE stack' = Pushed("result", s, TRUE) /\ UNCHANGED <<unread, waiting>>
    /\ UNCHANGED <<pack, active, timer, awaiter, finished_, phase, missed>>

\* search_timeout has passed.
Timer(s) ==
    /\ Idle /\ phase = "running"
    /\ timer[s] = "armed"
    /\ EndSearch(s, "timer", stack)
    /\ UNCHANGED <<pack, awaiter, phase, missed>>

\* The stop closure: cancelAll runs the timers' functions, for they were registered
\* with run_on_shutdown ...
Stop ==
    /\ Idle /\ phase = "running"
    /\ phase' = "cancelAll"
    /\ UNCHANGED <<pack, active, timer, awaiter, finished_, unread, waiting, stack,
                   missed, fault>>

Visited_None == {}
Visited == {s \in Searches : timer[s] = "armed" /\ s \notin missed}

Visit(s) ==
    /\ Idle /\ phase = "cancelAll"
    /\ s \in Visited
    /\ EndSearch(s, "visit", stack)
    /\ UNCHANGED <<pack, awaiter, phase, missed>>

\* ... cancels those it has missed, and the service disconnects.
Disconnect ==
    /\ Idle /\ phase = "cancelAll"
    /\ Visited = {}
    /\ phase' = "disconnected"
    /\ timer' = [s \in Searches |-> "off"]
    /\ active' = {}
    /\ UNCHANGED <<pack, awaiter, finished_, unread, waiting, stack, missed, fault>>

Ended == (phase = "disconnected" \/ fault) /\ UNCHANGED vars

UserStep(s) == Get(s) \/ Cancel(s) \/ Drop(s) \/ Ask(s)
Unwind == UserReturns \/ KeepRunning \/ Reject \/ Delete
CancelAllStep == (\E s \in Searches : Visit(s)) \/ Disconnect

Next ==
    \/ Task
    \/ \E s \in Searches : Result(s) \/ Timer(s)
    \/ \E s \in Searches : UserStep(s)
    \/ Unwind
    \/ Stop
    \/ CancelAllStep
    \/ Ended

Spec == Init /\ [][Next]_vars

\* User code returns, cancelAll goes on, and a timer that is due is not passed over
\* for ever by the callbacks in between.
FairSpec ==
    /\ Spec
    /\ WF_vars(Unwind) /\ WF_vars(CancelAllStep)
    /\ \A s \in Searches : SF_vars(Timer(s))

-----------------------------------------------------------------------------
(***************************************************************************)
(* Properties                                                              *)
(***************************************************************************)

\* Whatever user code does in between, no pack, get handle, timer or awaiter is used
\* after it is gone, and finish() is not called twice.
NoUseAfterFree == ~fault

\* Two calls on the stack never end the same search: each would delete its pack.
EndedOnce ==
    \A i, j \in DOMAIN stack :
        stack[i].op \in Ends /\ stack[j].op \in Ends /\ stack[i].s = stack[j].s => i = j

\* Until a search is being ended, its pack, its get handle and its timer exist or do
\* not exist together, but for a search that cancelAll has missed.
TimerGuardsSearch ==
    \A s \in Searches : ~Ending(s) =>
        /\ (timer[s] = "armed") = (s \in active)
        /\ s \in active => pack[s] = "live"
        /\ pack[s] = "live" => s \in active \/ s \in missed

\* A coroutine is suspended only in an awaiter that exists, whose queue is empty and
\* whose search is still to end: finish() is yet to come.
WaitingHasEnd ==
    \A s \in waiting :
        awaiter[s] = "live" /\ unread[s] = 0 /\ s \notin finished_ /\ pack[s] = "live"

\* Every search ends, by its timer or at shutdown, and is freed, but for those that
\* cancelAll misses: they are not run "at shutdown even if it hasn't timed out yet".
SearchEnds ==
    \A s \in Searches : pack[s] = "live" ~> (pack[s] = "freed" \/ s \in missed)

\* No coroutine waits for ever for the next result.
ConsumerResumed == \A s \in Generators : s \in waiting ~> (s \notin waiting \/ s \in missed)
=============================================================================
