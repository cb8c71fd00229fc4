----------------------------- MODULE Coroutines -----------------------------
(***************************************************************************)
(* The coroutine types: Task<T>, Task<void>, the AsyncTask of async_run,   *)
(* async_generator, and the awaiters that turn a callback of GNUnet into a *)
(* suspension point.                                                       *)
(*                                                                         *)
(* A coroutine is a frame.  It is owned by the coroutine whose frame holds *)
(* its Task or async_generator, and destroyed with it; an AsyncTask owns   *)
(* itself.  Control moves between frames by symmetric transfer: `stack` is *)
(* the nesting of resume() calls on GNUnet's thread, a transfer replaces   *)
(* its top, a suspension pops it.  The bodies are the user's: they make,   *)
(* await and drop coroutines, wait for GNUnet, yield, return and throw in  *)
(* every order.  What can go wrong is a frame resumed that is not          *)
(* suspended, one resumed or read after it was destroyed, one nobody       *)
(* resumes, and a caller that is told something else than its callee said. *)
(***************************************************************************)
EXTENDS Naturals, Sequences

CONSTANTS
    Asyncs,     \* frames of async_run's functor
    Tasks,      \* frames of coroutines that return a Task<T>
    VoidTasks,  \* frames of coroutines that return a Task<>
    Generators, \* frames of coroutines that return an async_generator
    NoCoro      \* no coroutine

Awaitables == Tasks \cup VoidTasks
Coros == Asyncs \cup Awaitables \cup Generators

\* What a coroutine waits for in GNUnet: an answer, a timer, a line, or the shutdown.
Awaiters == {"event", "shutdown"}

ASSUME CoroutinesAssumption ==
    /\ Asyncs \cap Awaitables = {} /\ Asyncs \cap Generators = {}
    /\ Awaitables \cap Generators = {} /\ Tasks \cap VoidTasks = {}
    /\ NoCoro \notin Coros
    /\ (Coros \cup {NoCoro}) \cap Awaiters = {}

VARIABLES
    st,         \* each frame: "none", "made", "running", "waiting", "yielded",
                \* "done" (suspended at its final suspension), "gone"
    owner,      \* the frame that holds its Task or generator
    cont,       \* continuation_, m_consumerCoroutine
    awaits,     \* what its co_await is about: a frame, an awaiter, or NoCoro
    result,     \* value_ and exception_: "none", "value", "error"; of a
                \* generator, m_currentValue and m_exception
    ended,      \* history: what the body of each task ended with
    told,       \* what await_resume gave the caller of each task
    iterating,  \* the generators whose iterator is not end()
    pending,    \* the frames whose callback is still to come
    stack,      \* the frames that run, the innermost resume() last
    phase,      \* "running", "stopping", "terminated"
    fault       \* undefined behaviour

vars == <<st, owner, cont, awaits, result, ended, told, iterating, pending,
          stack, phase, fault>>

TypeOK ==
    /\ st \in [Coros -> {"none", "made", "running", "waiting", "yielded", "done", "gone"}]
    /\ owner \in [Coros -> Coros \cup {NoCoro}]
    /\ cont \in [Coros -> Coros \cup {NoCoro}]
    /\ awaits \in [Coros -> Coros \cup {NoCoro} \cup Awaiters]
    /\ result \in [Coros -> {"none", "value", "error"}]
    /\ ended \in [Awaitables -> {"none", "value", "error"}]
    /\ told \in [Awaitables -> {"none", "value", "error"}]
    /\ iterating \subseteq Generators /\ pending \subseteq Coros
    /\ stack \in Seq(Coros)
    /\ phase \in {"running", "stopping", "terminated"}
    /\ fault \in BOOLEAN

Init ==
    /\ st = [c \in Coros |-> "none"]
    /\ owner = [c \in Coros |-> NoCoro] /\ cont = [c \in Coros |-> NoCoro]
    /\ awaits = [c \in Coros |-> NoCoro]
    /\ result = [c \in Coros |-> "none"]
    /\ ended = [c \in Awaitables |-> "none"] /\ told = [c \in Awaitables |-> "none"]
    /\ iterating = {} /\ pending = {} /\ stack = <<>>
    /\ phase = "running" /\ fault = FALSE

-----------------------------------------------------------------------------
(***************************************************************************)
(* Frames                                                                  *)
(***************************************************************************)

Top == stack[Len(stack)]
Popped == SubSeq(stack, 1, Len(stack) - 1)
Idle == stack = <<>> /\ phase # "terminated" /\ ~fault
OnTop(p) == stack # <<>> /\ Top = p /\ phase # "terminated" /\ ~fault
InBody(p) == OnTop(p) /\ awaits[p] = NoCoro /\ p \notin Asyncs

\* resume() wants a coroutine that is suspended, and not at its end.
Resumable(c) == c # NoCoro /\ st[c] \in {"made", "waiting", "yielded"}

\* The frames that live in c's frame, or in one that does, are destroyed with it; a
\* coroutine may be destroyed where it is suspended by its own doing, not while
\* somebody is to resume it.
Held(c) == CHOOSE S \in SUBSET Coros : \A d \in Coros : (d \in S) = (owner[d] \in S \cup {c})
Destroyable(S) == \A d \in S : st[d] \in {"none", "made", "yielded", "done", "gone"}
Destroyed(S) == [d \in Coros |-> IF d \in S THEN "gone" ELSE st[d]]

\* Task's and async_generator's destructors, when p lets go of c.
DropTask(p, c) ==
    /\ InBody(p)
    /\ c \in Awaitables /\ owner[c] = p /\ st[c] # "gone"
    /\ st' = Destroyed(Held(c) \cup {c})
    /\ fault' = ~Destroyable(Held(c) \cup {c})
    /\ UNCHANGED <<ended, owner, cont, awaits, result, told, iterating, pending, stack, phase>>

DropGenerator(p, g) ==
    /\ InBody(p)
    /\ g \in Generators /\ owner[g] = p /\ st[g] # "gone"
    /\ st' = Destroyed(Held(g) \cup {g})
    /\ iterating' = iterating \ (Held(g) \cup {g})
    /\ fault' = ~Destroyable(Held(g) \cup {g})
    /\ UNCHANGED <<ended, owner, cont, awaits, result, told, pending, stack, phase>>

\* A call of a coroutine: initial_suspend is suspend_always.
Make(p, c) ==
    /\ InBody(p)
    /\ c \notin Asyncs /\ st[c] = "none"
    /\ st' = [st EXCEPT ![c] = "made"]
    /\ owner' = [owner EXCEPT ![c] = p]
    /\ UNCHANGED <<ended, cont, awaits, result, told, iterating, pending, stack, phase, fault>>

-----------------------------------------------------------------------------
(***************************************************************************)
(* Task, AsyncTask and async_run                                           *)
(***************************************************************************)

\* async_run, from a callback or a coroutine: the functor's frame starts at once, makes
\* its `frame`, becomes its continuation and is transferred from.
AsyncRun(a, t) ==
    /\ a \in Asyncs /\ st[a] = "none"
    /\ t \in Awaitables /\ st[t] = "none"
    /\ \/ Idle /\ phase = "running"
       \/ \E p \in Coros : InBody(p)
    /\ st' = [st EXCEPT ![a] = "waiting", ![t] = "running"]
    /\ owner' = [owner EXCEPT ![t] = a]
    /\ cont' = [cont EXCEPT ![t] = a]
    /\ awaits' = [awaits EXCEPT ![a] = t]
    /\ stack' = Append(stack, t)
    /\ UNCHANGED <<ended, result, told, iterating, pending, phase, fault>>

\* Control goes from p, which is left in state s, to c; the frames in S are destroyed
\* on the way.
Transfer(p, s, c, S) ==
    /\ st' = [Destroyed(S) EXCEPT ![p] = s, ![c] = "running"]
    /\ stack' = Append(Popped, c)
    /\ iterating' = iterating \ S
    /\ fault' = (~Resumable(c) \/ c \in S \/ ~Destroyable(S))

\* await_suspend of a Task: setContinuation(handle), return coro_.
SetContinuation_Not(p, t) == UNCHANGED cont
SetContinuation(p, t) == cont' = [cont EXCEPT ![t] = p]

\* co_await of a Task<T>: once, for its result is moved from ...
Await(p, t) ==
    /\ InBody(p)
    /\ t \in Tasks /\ owner[t] = p /\ st[t] = "made"
    /\ SetContinuation(p, t)
    /\ awaits' = [awaits EXCEPT ![p] = t]
    /\ Transfer(p, "waiting", t, {})
    /\ UNCHANGED <<ended, owner, result, told, pending, phase>>

\* ... and of a Task<>: a named one may be awaited again, await_ready is true then; the
\* && overload says false even if the task is done.
ReadyVoid(t) == st[t] = "done"

AwaitVoid(p, t) ==
    /\ InBody(p)
    /\ t \in VoidTasks /\ owner[t] = p /\ st[t] \in {"made", "done"}
    /\ awaits' = [awaits EXCEPT ![p] = t]
    /\ IF ReadyVoid(t)
       THEN UNCHANGED <<st, cont, iterating, stack, fault>>
       ELSE SetContinuation(p, t) /\ Transfer(p, "waiting", t, {})
    /\ UNCHANGED <<ended, owner, result, told, pending, phase>>

\* return_value, return_void or unhandled_exception when the locals are gone, then
\* final_awaiter's transfer to continuation_.
FinalStep_Skips(p) == IF owner[p] = NoCoro THEN NoCoro ELSE cont[owner[p]]
FinalStep(p) == cont[p]
SetResult_Dropped(p, outcome) == [result EXCEPT ![p] = "value"]
SetResult(p, outcome) == [result EXCEPT ![p] = outcome]

Return(p, outcome) ==
    /\ InBody(p) /\ p \in Awaitables
    /\ result' = SetResult(p, outcome)
    /\ ended' = [ended EXCEPT ![p] = outcome]
    /\ Transfer(p, "done", FinalStep(p), Held(p))
    /\ UNCHANGED <<owner, cont, awaits, told, pending, phase>>

\* await_resume of a Task: result() rethrows, or moves the value out.
ResumeFromTask(p) ==
    /\ OnTop(p) /\ p \notin Asyncs
    /\ awaits[p] \in Awaitables
    /\ told' = [told EXCEPT ![awaits[p]] = result[awaits[p]]]
    /\ awaits' = [awaits EXCEPT ![p] = NoCoro]
    /\ fault' = (st[awaits[p]] # "done" \/ result[awaits[p]] = "none")
    /\ UNCHANGED <<ended, st, owner, cont, result, iterating, pending, stack, phase>>

\* The functor goes on: an exception ends the process; else `frame` is destroyed and,
\* final_suspend being ready, so is its own frame.
ResumeAsync(a) == st' = [st EXCEPT ![awaits[a]] = "gone", ![a] = "gone"]

EndAsync(a) ==
    /\ OnTop(a) /\ a \in Asyncs
    /\ told' = [told EXCEPT ![awaits[a]] = result[awaits[a]]]
    /\ fault' = (st[awaits[a]] # "done" \/ result[awaits[a]] = "none")
    /\ IF result[awaits[a]] = "error"
       THEN phase' = "terminated" /\ UNCHANGED <<st, awaits, stack>>
       ELSE /\ ResumeAsync(a)
            /\ awaits' = [awaits EXCEPT ![a] = NoCoro]
            /\ stack' = Popped
            /\ UNCHANGED phase
    /\ UNCHANGED <<ended, owner, cont, result, iterating, pending>>

-----------------------------------------------------------------------------
(***************************************************************************)
(* async_generator                                                         *)
(***************************************************************************)

\* begin(), once, and ++ on an iterator that is not end().
Advance(p, g) ==
    /\ InBody(p)
    /\ g \in Generators /\ owner[g] = p
    /\ st[g] = "made" \/ g \in iterating
    /\ cont' = [cont EXCEPT ![g] = p]
    /\ awaits' = [awaits EXCEPT ![p] = g]
    /\ Transfer(p, "waiting", g, {})
    /\ UNCHANGED <<ended, owner, result, told, pending, phase>>

\* co_yield: m_currentValue points to the value, the consumer goes on.
Yield(g) ==
    /\ InBody(g) /\ g \in Generators
    /\ result' = [result EXCEPT ![g] = "value"]
    /\ Transfer(g, "yielded", cont[g], {})
    /\ UNCHANGED <<ended, owner, cont, awaits, told, pending, phase>>

\* final_suspend: m_currentValue is null, m_exception is what escaped.
EndOfStream(g, outcome) == [result EXCEPT ![g] = outcome]

Finish(g, outcome) ==
    /\ InBody(g) /\ g \in Generators
    /\ result' = EndOfStream(g, outcome)
    /\ Transfer(g, "done", cont[g], Held(g))
    /\ UNCHANGED <<ended, owner, cont, awaits, told, pending, phase>>

\* await_resume of begin() and of ++: a value, or end() and, before that is returned, the
\* exception; ++ has set the iterator to end() when it throws.
Iterating(g) == IF result[g] = "value" THEN iterating \cup {g} ELSE iterating \ {g}

ResumeFromGenerator(p) ==
    /\ OnTop(p) /\ awaits[p] \in Generators
    /\ iterating' = Iterating(awaits[p])
    /\ awaits' = [awaits EXCEPT ![p] = NoCoro]
    /\ fault' = (st[awaits[p]] \notin {"yielded", "done"})
    /\ UNCHANGED <<ended, st, owner, cont, result, told, pending, stack, phase>>

-----------------------------------------------------------------------------
(***************************************************************************)
(* Waiting for GNUnet                                                      *)
(***************************************************************************)

\* The coroutine is suspended, and whoever resumed its caller goes on.
Suspend(p, k) ==
    /\ st' = [st EXCEPT ![p] = "waiting"]
    /\ awaits' = [awaits EXCEPT ![p] = k]
    /\ stack' = Popped

\* An EagerAwaiter in the frame: the request is made, then awaited; when the callback
\* came in between, await_suspend finds the result and resumes.
HasResult(answered) == answered

AwaitRequest(p) ==
    /\ InBody(p) /\ phase = "running"
    /\ \E answered \in BOOLEAN :
          /\ pending' = IF answered THEN pending ELSE pending \cup {p}
          /\ IF HasResult(answered)
             THEN UNCHANGED <<st, awaits, stack>>
             ELSE Suspend(p, "event")
    /\ UNCHANGED <<ended, owner, cont, result, told, iterating, phase, fault>>

\* sleep: a timer that is not run at shutdown; readStdin: a select task, cancelled by a
\* shutdown task; waitUntilShutdown: a shutdown task.
AwaitSleep(p) ==
    /\ InBody(p) /\ phase = "running"
    /\ Suspend(p, "event")
    /\ pending' = pending \cup {p}
    /\ UNCHANGED <<ended, owner, cont, result, told, iterating, phase, fault>>

AwaitStdin(p) ==
    /\ InBody(p) /\ phase = "running"
    /\ Suspend(p, "event")
    /\ pending' = pending \cup {p}
    /\ UNCHANGED <<ended, owner, cont, result, told, iterating, phase, fault>>

AwaitShutdown(p) ==
    /\ InBody(p) /\ phase = "running"
    /\ Suspend(p, "shutdown")
    /\ pending' = pending \cup {p}
    /\ UNCHANGED <<ended, owner, cont, result, told, iterating, phase, fault>>

\* The callback: setValue or setException, then handle_.resume().
Due(p) == awaits[p] = "shutdown" => phase = "stopping"

Resume(p) ==
    /\ Idle
    /\ p \in pending /\ Due(p)
    /\ pending' = pending \ {p}
    /\ st' = [st EXCEPT ![p] = "running"]
    /\ awaits' = [awaits EXCEPT ![p] = NoCoro]
    /\ stack' = <<p>>
    /\ fault' = ~Resumable(p)
    /\ UNCHANGED <<ended, owner, cont, result, told, iterating, phase>>

\* Shutdown: timers and the select task are cancelled, the services disconnect, and the
\* coroutines that wait for those are never resumed.
SurvivesStop_None == {}
SurvivesStop == {p \in pending : awaits[p] = "shutdown"}

Stop ==
    /\ Idle /\ phase = "running"
    /\ phase' = "stopping"
    /\ pending' = SurvivesStop
    /\ UNCHANGED <<ended, st, owner, cont, awaits, result, told, iterating, stack, fault>>

Ended ==
    /\ phase = "terminated" \/ fault \/ (phase = "stopping" /\ Idle /\ pending = {})
    /\ UNCHANGED vars

-----------------------------------------------------------------------------
Returns ==
    \/ \E p \in Coros : \E outcome \in {"value", "error"} : Return(p, outcome)
    \/ \E g \in Generators : \E outcome \in {"none", "error"} : Finish(g, outcome)
Resumes ==
    \E p \in Coros : ResumeFromTask(p) \/ EndAsync(p) \/ ResumeFromGenerator(p)
Waits(p) == AwaitRequest(p) \/ AwaitSleep(p) \/ AwaitStdin(p) \/ AwaitShutdown(p)

Next ==
    \/ \E a, t \in Coros : AsyncRun(a, t)
    \/ \E p, c \in Coros :
          Make(p, c) \/ DropTask(p, c) \/ DropGenerator(p, c) \/ Await(p, c)
          \/ AwaitVoid(p, c) \/ Advance(p, c)
    \/ Returns \/ Resumes
    \/ \E p \in Coros : Waits(p) \/ Yield(p) \/ Resume(p)
    \/ Stop \/ Ended

Spec == Init /\ [][Next]_vars

\* User code returns in the end, and what was asked of GNUnet is answered.
FairSpec ==
    /\ Spec
    /\ WF_vars(Resumes) /\ SF_vars(Returns)
    /\ \A p \in Coros : SF_vars(Resume(p))

-----------------------------------------------------------------------------
(***************************************************************************)
(* Properties                                                              *)
(***************************************************************************)

\* No coroutine is resumed unless it is suspended, none is destroyed that somebody is
\* to resume, and no result is read that is not there.
NoFault == ~fault

\* Who waits for a frame and whom a frame goes back to agree, however tasks, generators
\* and nested async_runs are mixed: a started frame has a continuation, which owns it, is
\* suspended in it and in nothing else, and is to be resumed by nobody else.
ContinuationWaits ==
    \A c \in Awaitables \cup Generators : st[c] \in {"running", "waiting"} /\ ~fault =>
        /\ cont[c] = owner[c] /\ cont[c] \in Coros
        /\ st[cont[c]] = "waiting" /\ awaits[cont[c]] = c
        /\ cont[c] \notin pending

\* A begun call ends once, and its caller is told what it ended with.
Calls == INSTANCE AsyncCall WITH
    Calls <- Awaitables,
    begun <- {t \in Awaitables : st[t] \notin {"none", "made"} /\ cont[t] # NoCoro}
CallSpec == Calls!Spec

\* Every coroutine that async_run starts comes to its end and is destroyed: nothing on
\* the way is forgotten, not even a waitUntilShutdown at shutdown.  But one that waits
\* for GNUnet when the program shuts down is never resumed, and its frames stay.
CutOff(p) == phase = "stopping" /\ st[p] = "waiting" /\ awaits[p] = "event"
AwaitsShutdown(p) == phase = "running" /\ p \in pending /\ awaits[p] = "shutdown"

FramesFreed ==
    \A a \in Asyncs : st[a] = "waiting" ~>
        \/ st[a] = "gone" /\ \A c \in Held(a) : st[c] = "gone"
        \/ phase = "terminated"
        \/ \E p \in Held(a) : CutOff(p) \/ AwaitsShutdown(p)
=============================================================================
