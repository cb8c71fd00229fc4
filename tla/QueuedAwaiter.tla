--------------------------- MODULE QueuedAwaiter ---------------------------
(***************************************************************************)
(* QueuedAwaiter and GeneratorWrapper of coroutine.hpp: the queue between  *)
(* the GNUnet callbacks that report the results of a search and the        *)
(* coroutine that iterates over them.                                      *)
(*                                                                         *)
(* The callbacks run on GNUnet's thread.  The coroutine may start out on   *)
(* another thread; once it has suspended in the queue it goes on inside    *)
(* the call of addValue or finish that resumes it, on that call's stack,   *)
(* until it suspends again.  What can go wrong is a result that is queued  *)
(* while the coroutine decides to suspend, so that nobody resumes it; a    *)
(* resumption that finds the queue empty; and a result given twice, out of *)
(* order or not at all.                                                    *)
(***************************************************************************)
EXTENDS Naturals, Sequences

CONSTANTS
    Results,        \* values a callback may report
    Failure,        \* an exception a callback may report
    End,            \* the std::nullopt that finish() pushes
    MaxReports      \* bound: results reported before finish()

ASSUME QueuedAwaiterAssumption ==
    /\ End \notin Results /\ Failure \notin Results /\ Failure # End
    /\ MaxReports \in Nat

Items == Results \cup {Failure, End}

VARIABLES
    queue_,         \* the results not yet taken
    handle_,        \* whether a suspended coroutine is registered
    finished_,      \* finish() has been called
    finishing,      \* finish() has pushed End, and is to resume the coroutine
    consumer,       \* what the coroutine is doing
    nested,         \* the coroutine runs on the stack of addValue or finish
    sent, got       \* history: what was reported, what the coroutine was given

vars == <<queue_, handle_, finished_, finishing, consumer, nested, sent, got>>

-----------------------------------------------------------------------------
\* GNUnet's thread is not inside an earlier call of addValue or finish.
ProducerFree == ~nested /\ ~finishing /\ consumer # "crashed"

TypeOK ==
    /\ queue_ \in Seq(Items) /\ sent \in Seq(Items) /\ got \in Seq(Items)
    /\ handle_ \in BOOLEAN /\ finished_ \in BOOLEAN
    /\ finishing \in BOOLEAN /\ nested \in BOOLEAN
    /\ consumer \in {"user", "suspending", "suspended", "taking", "ended", "failed",
                    "crashed"}
    /\ handle_ => consumer = "suspended"

Init ==
    /\ queue_ = <<>> /\ sent = <<>> /\ got = <<>>
    /\ handle_ = FALSE /\ finished_ = FALSE
    /\ finishing = FALSE /\ nested = FALSE
    /\ consumer = "user"

-----------------------------------------------------------------------------
(***************************************************************************)
(* GNUnet's thread                                                         *)
(***************************************************************************)

\* handle_ is taken under the lock; if it was set, its coroutine is resumed.
Resume_KeepHandle ==
    /\ handle_' = handle_
    /\ nested' = handle_
    /\ consumer' = IF handle_ THEN "taking" ELSE consumer
Resume ==
    /\ handle_' = FALSE
    /\ nested' = handle_
    /\ consumer' = IF handle_ THEN "taking" ELSE consumer

\* addValue and addException.
Add(x) ==
    /\ ProducerFree /\ ~finished_
    /\ Len(sent) < MaxReports
    /\ queue_' = Append(queue_, x)
    /\ sent' = Append(sent, x)
    /\ Resume
    /\ UNCHANGED <<finished_, finishing, got>>

\* finish: the flag and the push, outside of the lock ...
Finish ==
    /\ ProducerFree /\ ~finished_
    /\ finished_' = TRUE
    /\ queue_' = Append(queue_, End)
    /\ sent' = Append(sent, End)
    /\ finishing' = TRUE
    /\ UNCHANGED <<handle_, consumer, nested, got>>

\* ... and then the coroutine.
FinishResume ==
    /\ finishing /\ consumer # "crashed"
    /\ finishing' = FALSE
    /\ Resume
    /\ UNCHANGED <<queue_, finished_, sent, got>>

-----------------------------------------------------------------------------
(***************************************************************************)
(* The coroutine                                                           *)
(***************************************************************************)

\* begin, operator++ and next: co_await on the queue, await_ready first.
AskNext ==
    /\ consumer = "user"
    /\ consumer' = IF queue_ = <<>> THEN "suspending" ELSE "taking"
    /\ UNCHANGED <<queue_, handle_, finished_, finishing, nested, sent, got>>

\* await_suspend: looks again, under the lock that covers setting handle_.  With the
\* coroutine suspended, the call on whose stack it ran returns.
HasData_Stale == FALSE
HasData == queue_ # <<>>

AwaitSuspend ==
    /\ consumer = "suspending"
    /\ IF HasData
       THEN consumer' = "taking" /\ UNCHANGED <<handle_, nested>>
       ELSE consumer' = "suspended" /\ handle_' = TRUE /\ nested' = FALSE
    /\ UNCHANGED <<queue_, finished_, finishing, sent, got>>

\* await_resume: an exception is moved out and rethrown, and its empty hull stays at
\* the head of the queue; a value is popped, End makes next() return end().
Popped_Not == queue_
Popped == IF Head(queue_) = Failure THEN queue_ ELSE Tail(queue_)

AwaitResume ==
    /\ consumer = "taking"
    /\ queue_ # <<>>
    /\ got' = Append(got, Head(queue_))
    /\ queue_' = Popped
    /\ consumer' = CASE Head(queue_) = End -> "ended"
                     [] Head(queue_) = Failure -> "failed"
                     [] OTHER -> "user"
    /\ UNCHANGED <<handle_, finished_, finishing, nested, sent>>

\* A coroutine that caught the exception and asks again meets the hull: rethrowing a
\* null exception_ptr is undefined, and ends the program.
AskAfterFailure ==
    /\ consumer = "failed"
    /\ consumer' = "crashed"
    /\ UNCHANGED <<queue_, handle_, finished_, finishing, nested, sent, got>>

\* The coroutine's own code ends, or suspends on something else: the call of addValue
\* or finish that it ran in returns.
Leave ==
    /\ nested
    /\ consumer \in {"user", "ended", "failed"}
    /\ nested' = FALSE
    /\ UNCHANGED <<queue_, handle_, finished_, finishing, consumer, sent, got>>

\* The loop over the generator is over, or the program.
Over ==
    /\ \/ consumer \in {"ended", "failed"} /\ finished_ /\ ProducerFree
       \/ consumer = "crashed"
    /\ UNCHANGED vars

Consume == AwaitSuspend \/ AwaitResume

Next ==
    \/ \E x \in Results \cup {Failure} : Add(x)
    \/ Finish
    \/ FinishResume
    \/ AskNext
    \/ AskAfterFailure
    \/ Consume
    \/ Leave
    \/ Over

Spec == Init /\ [][Next]_vars

\* A coroutine that runs goes on, and a call of finish() returns.
FairSpec == Spec /\ WF_vars(Consume) /\ WF_vars(FinishResume)

-----------------------------------------------------------------------------
(***************************************************************************)
(* Properties                                                              *)
(***************************************************************************)

\* await_resume's assert(front.has_value()): whoever resumes the coroutine has put
\* something into the queue that nobody else takes.
ResumedWithItem == consumer = "taking" => queue_ # <<>>

\* A coroutine that is suspended is registered, and there is nothing it could have
\* taken instead, but for an End whose finish() is about to resume it.
NoLostResume ==
    consumer = "suspended" => handle_ /\ (queue_ = <<>> \/ finishing)

\* The generator implements the stream of results: each is given once, in order, and
\* a coroutine that waits for one that is there gets it.
Stream == INSTANCE ResultStream WITH
    Results <- Results \cup {Failure},
    asking <- consumer \in {"suspending", "suspended", "taking"}
StreamSpec == Stream!Spec
=============================================================================
