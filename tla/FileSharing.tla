---------------------------- MODULE FileSharing ----------------------------
(***************************************************************************)
(* Searches, downloads, publications and unindexing: each has a handle of  *)
(* its own to GNUnet's file sharing, a pack registered under the handle in *)
(* g_fs_handlers, and an operation of GNUnet's that reports to the pack.   *)
(*                                                                         *)
(* Nothing can be closed from inside its own report, so the functions that *)
(* stop a search, and those that clear up, are queued, and anything may    *)
(* happen before one runs: scheduler::queue promises no order with timers  *)
(* and reports.  What can go wrong is that two parties end the same        *)
(* operation: the caller's cancel, a callback that wants no more, the      *)
(* timeout, shutdown; or that a report comes when its pack is gone, or the *)
(* last one twice.                                                         *)
(***************************************************************************)
EXTENDS Naturals

CONSTANTS
    Ops,        \* the operations that are started
    MaxStops    \* bound: calls of search_stop queued at once for a search

ASSUME FileSharingAssumption == MaxStops \in Nat \ {0}

Kinds == {"search", "download", "publish", "unindex"}

\* The functions the library queues: search_stop; the clearing up of searches and of
\* downloads, which looks the handle up; that of the others, which holds the pack.
\* They run in any order here, more orders than the ready list allows.
Jobs == {"stop", "cleanup", "release"}

\* An assertion fails, a pack or handle is used when it is gone, GNUnet is handed a
\* search again that it has freed, or scheduler::cancel a task that is no more.
Faults == [op : Ops, what : {"asserted", "freed", "stopped twice", "late cancel"}]

VARIABLES
    kind,       \* what each operation is, "none" before it is started
    ctx,        \* GNUnet's side: "none", "scan", "active", "over" (it has reported the
                \* end), "stopped"
    handle,     \* its FS handle: "none", "open", "stopped"
    handlers,   \* g_fs_handlers: the operations whose handles are in it
    pack,       \* FSCallbackData: "none", "live", "freed", "lost"
    scan,       \* ScanCallbackData: "none", "live", "freed"
    timer,      \* a search's timeout is armed
    timeoutTask, \* the pack's timeout_task is not 0
    queued,     \* how many functions of each sort are queued for it
    ends,       \* history: how often it was ended, or asked to end (0, 1, 2 = more)
    phase,      \* "running", "cancelAll", "stopped", "crashed"
    faults      \* what went wrong; the program goes no further

vars == <<kind, ctx, handle, handlers, pack, scan, timer, timeoutTask, queued, ends,
          phase, faults>>

TypeOK ==
    /\ kind \in [Ops -> Kinds \cup {"none"}]
    /\ ctx \in [Ops -> {"none", "scan", "active", "over", "stopped"}]
    /\ handle \in [Ops -> {"none", "open", "stopped"}]
    /\ handlers \subseteq Ops
    /\ pack \in [Ops -> {"none", "live", "freed", "lost"}]
    /\ scan \in [Ops -> {"none", "live", "freed"}]
    /\ timer \in [Ops -> BOOLEAN] /\ timeoutTask \in [Ops -> BOOLEAN]
    /\ queued \in [Ops -> [Jobs -> Nat]]
    /\ ends \in [Ops -> 0..2]
    /\ phase \in {"running", "cancelAll", "stopped", "crashed"}
    /\ faults \subseteq Faults

NoJobs == [j \in Jobs |-> 0]

Init ==
    /\ kind = [o \in Ops |-> "none"] /\ ctx = [o \in Ops |-> "none"]
    /\ handle = [o \in Ops |-> "none"] /\ handlers = {}
    /\ pack = [o \in Ops |-> "none"] /\ scan = [o \in Ops |-> "none"]
    /\ timer = [o \in Ops |-> FALSE] /\ timeoutTask = [o \in Ops |-> FALSE]
    /\ queued = [o \in Ops |-> NoJobs]
    /\ ends = [o \in Ops |-> 0]
    /\ phase = "running" /\ faults = {}

Alive == phase # "crashed" /\ faults = {}

\* A step that finds these things wrong with the operation goes no further.
Fail(o, wrong) ==
    /\ wrong # {}
    /\ faults' = [op : {o}, what : wrong]
    /\ UNCHANGED <<kind, ctx, handle, handlers, pack, scan, timer, timeoutTask, queued, phase>>

Unless(ok, what) == IF ok THEN {} ELSE {what}

-----------------------------------------------------------------------------
(***************************************************************************)
(* Starting                                                                *)
(***************************************************************************)

\* makeHandle; what GNUnet has of the operation then, and what is left of the pack.
MakeHandle(o, k, x, p) ==
    /\ Alive /\ phase = "running" /\ kind[o] = "none"
    /\ kind' = [kind EXCEPT ![o] = k]
    /\ ctx' = [ctx EXCEPT ![o] = x]
    /\ handle' = [handle EXCEPT ![o] = "open"]
    /\ handlers' = handlers \cup {o}
    /\ pack' = [pack EXCEPT ![o] = p]
    /\ UNCHANGED <<queued, ends, phase, faults>>
Untimed == UNCHANGED <<timer, timeoutTask>>

Search(o) ==
    /\ MakeHandle(o, "search", "active", "live")
    /\ timer' = [timer EXCEPT ![o] = TRUE]
    /\ timeoutTask' = [timeoutTask EXCEPT ![o] = TRUE]
    /\ UNCHANGED scan

\* Keywords that make no URI: search() throws with the handle open and its pack
\* registered, without a search or a timer that would ever end them.
SearchWithoutUri(o) == MakeHandle(o, "search", "none", "live") /\ Untimed /\ UNCHANGED scan

\* GNUnet does not start the search: search() takes the handle back, but not the pack,
\* and throws.
SearchRefused(o) ==
    /\ Alive /\ phase = "running" /\ kind[o] = "none"
    /\ kind' = [kind EXCEPT ![o] = "search"]
    /\ handle' = [handle EXCEPT ![o] = "stopped"]
    /\ pack' = [pack EXCEPT ![o] = "lost"]
    /\ Untimed
    /\ UNCHANGED <<ctx, handlers, scan, queued, ends, phase, faults>>

\* A download that GNUnet does not start is not noticed, and keeps its handle.
Download(o) ==
    /\ \E x \in {"active", "none"} : MakeHandle(o, "download", x, "live")
    /\ Untimed /\ UNCHANGED scan

\* publish scans first; a scan that cannot start throws and leaves the handle.
Publish(o) ==
    /\ Untimed
    /\ \/ MakeHandle(o, "publish", "scan", "live") /\ scan' = [scan EXCEPT ![o] = "live"]
       \/ MakeHandle(o, "publish", "none", "live") /\ UNCHANGED scan

\* An unindexing that cannot start throws and leaves the handle too.
Unindex(o) ==
    /\ \E x \in {"active", "none"} : MakeHandle(o, "unindex", x, "live")
    /\ Untimed /\ UNCHANGED scan

-----------------------------------------------------------------------------
(***************************************************************************)
(* Reports                                                                 *)
(***************************************************************************)

\* fs_callback_trampoline: the report goes to the pack.
Report(o, k) ==
    /\ Alive /\ phase # "cancelAll"
    /\ kind[o] = k /\ ctx[o] = "active"
PackGone(o) == Unless(pack[o] = "live", "freed")
Registered(o) == Unless(o \in handlers, "asserted")

Queue(o, j) == queued' = [queued EXCEPT ![o][j] = @ + 1]
Ended(o) == ends' = [ends EXCEPT ![o] = IF @ = 0 THEN 1 ELSE 2]
Over(o) == ctx' = [ctx EXCEPT ![o] = "over"]

\* A result: the callback wants more, or has search_stop queued, also if an earlier
\* search_stop is still to run.
SearchResult(o) ==
    /\ Report(o, "search")
    /\ \/ Fail(o, PackGone(o)) /\ UNCHANGED ends
       \/ PackGone(o) = {} /\ UNCHANGED vars
       \/ /\ PackGone(o) \cup Registered(o) = {} /\ queued[o]["stop"] < MaxStops
          /\ Queue(o, "stop") /\ Ended(o)
          /\ UNCHANGED <<kind, ctx, handle, handlers, pack, scan, timer, timeoutTask, phase, faults>>

\* A result without a file name makes a string_view of NULL; an error queues search_stop
\* and goes on to read the result that is not there.
SearchCrashes(o) ==
    /\ Report(o, "search") /\ PackGone(o) = {}
    /\ phase' = "crashed"
    /\ UNCHANGED <<kind, ctx, handle, handlers, pack, scan, timer, timeoutTask, queued, ends, faults>>

\* Completed, failed, or stopped by a caller who knows that it is neither.  Rule: the
\* file is not a directory, for the files in it would report their completion too.
DownloadOver(o) ==
    /\ Report(o, "download")
    /\ \/ Fail(o, PackGone(o)) /\ UNCHANGED ends
       \/ /\ PackGone(o) = {}
          /\ \E x \in {"over", "stopped"} : ctx' = [ctx EXCEPT ![o] = x]
          /\ Ended(o) /\ Queue(o, "cleanup")
          /\ UNCHANGED <<kind, handle, handlers, pack, scan, timer, timeoutTask, phase, faults>>

\* The end of a publication or an unindexing: the callback, then the handle leaves the
\* map and the rest of the clearing up is queued.
Erase_Not(o) == handlers
Erase(o) == handlers \ {o}
Ends(o) ==
    \/ Fail(o, PackGone(o) \cup Registered(o)) /\ UNCHANGED ends
    \/ /\ PackGone(o) \cup Registered(o) = {}
       /\ Over(o) /\ Ended(o) /\ Queue(o, "release")
       /\ handlers' = Erase(o)
       /\ UNCHANGED <<kind, handle, pack, scan, timer, timeoutTask, phase, faults>>

\* Only the completion of the root ends it, a file's in a directory does not.
PublishReports(o) ==
    /\ Report(o, "publish")
    /\ \E root \in BOOLEAN : IF root THEN Ends(o) ELSE PackGone(o) = {} /\ UNCHANGED vars

UnindexOver(o) == Report(o, "unindex") /\ Ends(o)

\* directory_scan_trampoline: when the scan is over publish's function starts the
\* publication, or throws through GNUnet; then the scan's pack is deleted.  A scan that
\* fails is reported to nobody.
ScanOver(o) ==
    /\ Alive /\ phase # "cancelAll" /\ ctx[o] = "scan"
    /\ \/ Fail(o, Unless(scan[o] = "live", "freed"))
       \/ /\ scan[o] = "live"
          /\ \/ /\ \E x \in {"active", "none"} : ctx' = [ctx EXCEPT ![o] = x]
                /\ scan' = [scan EXCEPT ![o] = "freed"]
                /\ UNCHANGED phase
             \/ phase' = "crashed" /\ UNCHANGED <<ctx, scan>>
          /\ UNCHANGED <<kind, handle, handlers, pack, timer, timeoutTask, queued, faults>>
    /\ UNCHANGED ends

-----------------------------------------------------------------------------
(***************************************************************************)
(* Ending                                                                  *)
(***************************************************************************)

\* cancel() on the context search() returned, whether the search has ended or not: the
\* caller is not told that its timeout ended it.
Cancel(o) ==
    /\ Alive /\ kind[o] = "search" /\ ctx[o] # "none"
    /\ queued[o]["stop"] < MaxStops
    /\ Queue(o, "stop") /\ Ended(o)
    /\ UNCHANGED <<kind, ctx, handle, handlers, pack, scan, timer, timeoutTask, phase, faults>>

\* GNUNET_FS_search_stop frees the search and reports SEARCH_STOPPED, which has the
\* clearing up queued.
StopWrong(o) == IF ctx[o] = "active" THEN PackGone(o) ELSE {"stopped twice"}
SearchStop(o) == StopWrong(o) = {} /\ ctx' = [ctx EXCEPT ![o] = "stopped"]

RunStop(o) ==
    /\ Alive /\ phase # "cancelAll" /\ queued[o]["stop"] > 0
    /\ \/ Fail(o, StopWrong(o))
       \/ /\ SearchStop(o)
          /\ queued' = [queued EXCEPT ![o]["stop"] = @ - 1, ![o]["cleanup"] = @ + 1]
          /\ UNCHANGED <<kind, handle, handlers, pack, scan, timer, timeoutTask, phase, faults>>
    /\ UNCHANGED ends

\* The timeout, at its time or from cancelAll: it writes to the pack and stops the search.
Timeout(o) ==
    /\ Alive /\ timer[o]
    /\ Ended(o)
    /\ \/ Fail(o, StopWrong(o) \cup PackGone(o))
       \/ /\ SearchStop(o) /\ Queue(o, "cleanup")
          /\ timer' = [timer EXCEPT ![o] = FALSE]
          /\ timeoutTask' = [timeoutTask EXCEPT ![o] = FALSE]
          /\ UNCHANGED <<kind, handle, handlers, pack, scan, phase, faults>>
SearchTimeout(o) == phase = "running" /\ Timeout(o)

\* What search() asks of runLater.
RunOnShutdown_Not == FALSE
RunOnShutdown == TRUE
Visit(o) == phase = "cancelAll" /\ RunOnShutdown /\ Timeout(o)

\* Clearing up after a search or a download; a search's timer, if it has one, is cancelled.
HasTimeout(o) == kind[o] = "search" /\ timeoutTask[o]
CancelTimeout_Not(o) == timer
CancelTimeout(o) == IF HasTimeout(o) THEN [timer EXCEPT ![o] = FALSE] ELSE timer
CleanupWrong(o) == Registered(o) \cup Unless(HasTimeout(o) => timer[o], "late cancel")

RunCleanup(o) ==
    /\ Alive /\ phase # "cancelAll" /\ queued[o]["cleanup"] > 0
    /\ \/ Fail(o, CleanupWrong(o))
       \/ /\ CleanupWrong(o) = {}
          /\ queued' = [queued EXCEPT ![o]["cleanup"] = @ - 1]
          /\ timer' = CancelTimeout(o)
          /\ handlers' = Erase(o)
          /\ handle' = [handle EXCEPT ![o] = "stopped"]
          /\ ctx' = [ctx EXCEPT ![o] = "stopped"]
          /\ pack' = [pack EXCEPT ![o] = "freed"]
          /\ UNCHANGED <<kind, scan, timeoutTask, phase, faults>>
    /\ UNCHANGED ends

\* After a publication or an unindexing the function stops the handle and deletes the pack.
ReleaseWrong(o) == Unless(handle[o] = "open" /\ pack[o] = "live", "freed")

RunRelease(o) ==
    /\ Alive /\ phase # "cancelAll" /\ queued[o]["release"] > 0
    /\ \/ Fail(o, ReleaseWrong(o))
       \/ /\ ReleaseWrong(o) = {}
          /\ queued' = [queued EXCEPT ![o]["release"] = @ - 1]
          /\ handle' = [handle EXCEPT ![o] = "stopped"]
          /\ ctx' = [ctx EXCEPT ![o] = "stopped"]
          /\ pack' = [pack EXCEPT ![o] = "freed"]
          /\ UNCHANGED <<kind, handlers, scan, timer, timeoutTask, phase, faults>>
    /\ UNCHANGED ends

\* The closure of shutdown() runs, before or after anything else that is queued:
\* cancelAll calls the timers that ask for it and cancels the others.
Shutdown ==
    /\ Alive /\ phase = "running"
    /\ phase' = "cancelAll"
    /\ UNCHANGED <<kind, ctx, handle, handlers, pack, scan, timer, timeoutTask, queued, ends, faults>>

AllVisited ==
    /\ Alive /\ phase = "cancelAll"
    /\ RunOnShutdown => \A o \in Ops : ~timer[o]
    /\ timer' = [o \in Ops |-> FALSE]
    /\ phase' = "stopped"
    /\ UNCHANGED <<kind, ctx, handle, handlers, pack, scan, timeoutTask, queued, ends, faults>>

Terminated == (phase \in {"stopped", "crashed"} \/ faults # {}) /\ UNCHANGED vars

RunQueued(o) == RunStop(o) \/ RunCleanup(o) \/ RunRelease(o)

Next ==
    \/ \E o \in Ops :
          \/ Search(o) \/ SearchWithoutUri(o) \/ SearchRefused(o)
          \/ Download(o) \/ Publish(o) \/ Unindex(o)
          \/ SearchResult(o) \/ SearchCrashes(o) \/ DownloadOver(o)
          \/ PublishReports(o) \/ UnindexOver(o) \/ ScanOver(o)
          \/ Cancel(o) \/ SearchTimeout(o) \/ Visit(o) \/ RunQueued(o)
    \/ Shutdown \/ AllVisited \/ Terminated

Spec == Init /\ [][Next]_vars

\* GNUnet's thread runs what is queued and what is due, and cancelAll goes on.
FairSpec ==
    /\ Spec
    /\ \A o \in Ops : WF_vars(RunQueued(o)) /\ SF_vars(SearchTimeout(o)) /\ WF_vars(Visit(o))
    /\ WF_vars(AllVisited)

-----------------------------------------------------------------------------
(***************************************************************************)
(* Properties                                                              *)
(***************************************************************************)

\* The one thing that goes wrong is search_stop on a search that more than one party
\* ended, which nothing in fs.cpp prevents.  An operation that is ended once, by its
\* callback, cancel(), its timeout or shutdown, in whatever order the queued functions
\* run, meets no freed pack or search, no failed assertion and no late cancel; a
\* download, a publication and an unindexing never do.
OnlySecondEndsFault == \A f \in faults : f.what = "stopped twice" /\ ends[f.op] > 1

\* The map, the packs and the queued functions agree: a handle is in the map while its
\* pack is there and nobody is deleting it; GNUnet and an armed timer have a pack to use;
\* an operation that is over is being cleared up, once; and one that was ended, or asked
\* to end, is on its way: no end is forgotten.
Working(o) == ctx[o] \in {"active", "over"} \/ timer[o]
Ending(o) == queued[o]["cleanup"] + queued[o]["release"]
Accounted == \A o \in Ops :
    /\ o \in handlers <=> pack[o] = "live" /\ queued[o]["release"] = 0
    /\ Working(o) => pack[o] = "live" /\ handle[o] = "open"
    /\ pack[o] = "live" => (ctx[o] \in {"over", "stopped"} <=> Ending(o) = 1)
    /\ ends[o] > 0 => Ending(o) + queued[o]["stop"] >= 1 \/ pack[o] = "freed"

\* A search that GNUnet has started ends and its handle is given back, whatever its
\* callback says, unless the program dies of a result it cannot read or of an end too
\* many: by the callback, cancel(), its timeout or shutdown.  (One whose keywords make
\* no URI keeps its handle for ever.)
SearchEnds == \A o \in Ops :
    (kind[o] = "search" /\ ctx[o] = "active") ~>
        (handle[o] = "stopped" \/ phase = "crashed" \/ faults # {})
=============================================================================
