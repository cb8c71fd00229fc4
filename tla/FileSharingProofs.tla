------------------------- MODULE FileSharingProofs -------------------------
(***************************************************************************)
(* Proofs about FileSharing for any number of operations, any bound on the *)
(* stops that are queued, and every order in which queued functions,       *)
(* timers, reports and calls come.                                         *)
(*                                                                         *)
(* The invariant is about one operation at a time: what each function that *)
(* is queued for it will find, and how many parties must have ended it for *)
(* the queue and GNUnet's side to look as they do.                         *)
(***************************************************************************)
EXTENDS FileSharing, TLAPS

Stops(o) == queued[o]["stop"]
Cleanups(o) == queued[o]["cleanup"]
Releases(o) == queued[o]["release"]

Unstarted(o) ==
    kind[o] = "none" =>
        /\ ctx[o] = "none" /\ handle[o] = "none" /\ o \notin handlers /\ pack[o] = "none"
        /\ scan[o] = "none" /\ ~timer[o] /\ ~timeoutTask[o] /\ ends[o] = 0
        /\ Stops(o) = 0 /\ Cleanups(o) = 0 /\ Releases(o) = 0

\* What each of the queued functions will find.
JobsFind(o) ==
    /\ Stops(o) > 0 => kind[o] = "search" /\ ctx[o] \in {"active", "stopped"}
    /\ Cleanups(o) > 0 =>
        /\ Cleanups(o) = 1 /\ Releases(o) = 0
        /\ kind[o] \in {"search", "download"} /\ ctx[o] \in {"over", "stopped"}
        /\ o \in handlers
    /\ Releases(o) > 0 =>
        /\ Releases(o) = 1 /\ Cleanups(o) = 0
        /\ kind[o] \in {"publish", "unindex"} /\ ctx[o] = "over"
        /\ o \notin handlers /\ pack[o] = "live" /\ handle[o] = "open"

\* What GNUnet and the timer need is there.
InUse(o) ==
    /\ ctx[o] \in {"scan", "active"} => o \in handlers /\ Cleanups(o) = 0 /\ Releases(o) = 0
    /\ ctx[o] = "scan" => kind[o] = "publish" /\ scan[o] = "live"
    /\ o \in handlers => pack[o] = "live" /\ handle[o] = "open"
    /\ timer[o] =>
        /\ kind[o] = "search" /\ timeoutTask[o] /\ o \in handlers
        /\ ctx[o] = "active" \/ Cleanups(o) = 1
    /\ HasTimeout(o) /\ o \in handlers => timer[o]

\* Where the operation is on its way.
Phases(o) ==
    /\ kind[o] = "search" => ctx[o] \in {"none", "active", "stopped"}
    /\ pack[o] = "live" => o \in handlers \/ Releases(o) = 1
    /\ ctx[o] \in {"over", "stopped"} /\ pack[o] = "live" => Cleanups(o) + Releases(o) = 1
    /\ ctx[o] = "over" => pack[o] = "live"
    /\ ends[o] > 0 => Stops(o) > 0 \/ Cleanups(o) > 0 \/ Releases(o) > 0 \/ pack[o] = "freed"

\* Every stop that is queued, and the one GNUnet has carried out, has its own end.
EndsCounted(o) ==
    /\ Stops(o) > 0 \/ ctx[o] \in {"over", "stopped"} => ends[o] > 0
    /\ Stops(o) > 1 \/ (Stops(o) > 0 /\ ctx[o] = "stopped") => ends[o] > 1

OpInv(o) == Unstarted(o) /\ JobsFind(o) /\ InUse(o) /\ Phases(o) /\ EndsCounted(o)

IInv == TypeOK /\ OnlySecondEndsFault /\ \A o \in Ops : OpInv(o)

USE FileSharingAssumption

-----------------------------------------------------------------------------
(***************************************************************************)
(* Type correctness                                                        *)
(***************************************************************************)
LEMMA TypeInit == Init => TypeOK
  BY DEF Init, TypeOK, NoJobs, Jobs, Kinds

LEMMA JobNames == "stop" \in Jobs /\ "cleanup" \in Jobs /\ "release" \in Jobs
  BY DEF Jobs

\* Queueing a function adds one to its own count.
LEMMA QueueCounts ==
  ASSUME queued \in [Ops -> [Jobs -> Nat]], NEW o \in Ops, NEW j \in Jobs, Queue(o, j)
  PROVE  /\ queued' \in [Ops -> [Jobs -> Nat]]
         /\ queued'[o][j] = queued[o][j] + 1
         /\ \A k \in Jobs : k # j => queued'[o][k] = queued[o][k]
         /\ \A p \in Ops : p # o => queued'[p] = queued[p]
  BY DEF Queue

\* Running one takes one away.
LEMMA DequeueCounts ==
  ASSUME queued \in [Ops -> [Jobs -> Nat]], NEW o \in Ops, NEW j \in Jobs, queued[o][j] > 0,
         queued' = [queued EXCEPT ![o][j] = @ - 1]
  PROVE  /\ queued' \in [Ops -> [Jobs -> Nat]]
         /\ queued'[o][j] = queued[o][j] - 1
         /\ \A k \in Jobs : k # j => queued'[o][k] = queued[o][k]
         /\ \A p \in Ops : p # o => queued'[p] = queued[p]
  OBVIOUS

LEMMA EndedCounts ==
  ASSUME ends \in [Ops -> 0..2], NEW o \in Ops, Ended(o)
  PROVE  /\ ends' \in [Ops -> 0..2]
         /\ ends'[o] > 0 /\ ends'[o] >= ends[o]
         /\ ends[o] > 0 => ends'[o] > 1
         /\ \A p \in Ops : p # o => ends'[p] = ends[p]
  BY DEF Ended

LEMMA EndsRange ==
  ASSUME NEW f \in [Ops -> 0..2], NEW o \in Ops
  PROVE  f[o] \in {0, 1, 2} /\ (f[o] > 1 => f[o] > 0)
  OBVIOUS

LEMMA WrongKinds ==
  ASSUME NEW o \in Ops
  PROVE  /\ PackGone(o) \subseteq {"freed"} /\ Registered(o) \subseteq {"asserted"}
         /\ StopWrong(o) \subseteq {"freed", "stopped twice"}
         /\ CleanupWrong(o) \subseteq {"asserted", "late cancel"}
         /\ ReleaseWrong(o) \subseteq {"freed"}
         /\ Unless(scan[o] = "live", "freed") \subseteq {"freed"}
  BY DEF PackGone, Registered, StopWrong, CleanupWrong, ReleaseWrong, Unless

LEMMA FailType ==
  ASSUME TypeOK, NEW o \in Ops,
         NEW wrong \in SUBSET {"asserted", "freed", "stopped twice", "late cancel"},
         Fail(o, wrong), ends' \in [Ops -> 0..2]
  PROVE  TypeOK'
  BY DEF Fail, TypeOK, Faults

LEMMA StartType ==
  ASSUME TypeOK, NEW o \in Ops,
         \/ Search(o) \/ SearchWithoutUri(o) \/ SearchRefused(o)
         \/ Download(o) \/ Publish(o) \/ Unindex(o)
  PROVE  TypeOK'
  <1> USE DEF TypeOK, Kinds, Search, SearchWithoutUri, SearchRefused, Download, Publish, Unindex,
              MakeHandle, Untimed
  <1>1. kind' \in [Ops -> Kinds \cup {"none"}]
    OBVIOUS
  <1>2. ctx' \in [Ops -> {"none", "scan", "active", "over", "stopped"}]
    OBVIOUS
  <1>3. handle' \in [Ops -> {"none", "open", "stopped"}] /\ handlers' \subseteq Ops
    OBVIOUS
  <1>4. pack' \in [Ops -> {"none", "live", "freed", "lost"}]
    OBVIOUS
  <1>5. scan' \in [Ops -> {"none", "live", "freed"}]
    OBVIOUS
  <1>6. timer' \in [Ops -> BOOLEAN] /\ timeoutTask' \in [Ops -> BOOLEAN]
    OBVIOUS
  <1>7. UNCHANGED <<queued, ends, phase, faults>>
    OBVIOUS
  <1> HIDE DEF Search, SearchWithoutUri, SearchRefused, Download, Publish, Unindex,
               MakeHandle, Untimed
  <1> QED
    BY <1>1, <1>2, <1>3, <1>4, <1>5, <1>6, <1>7

LEMMA ReportType ==
  ASSUME TypeOK, NEW o \in Ops,
         \/ SearchResult(o) \/ SearchCrashes(o) \/ DownloadOver(o)
         \/ PublishReports(o) \/ UnindexOver(o) \/ ScanOver(o)
  PROVE  TypeOK'
  <1>1. ASSUME SearchResult(o) PROVE TypeOK'
    <2>1. CASE Fail(o, PackGone(o)) /\ UNCHANGED ends
      BY <2>1, WrongKinds, FailType DEF TypeOK
    <2>2. CASE UNCHANGED vars
      BY <2>2 DEF TypeOK, vars
    <2>3. CASE /\ Queue(o, "stop") /\ Ended(o)
               /\ UNCHANGED <<kind, ctx, handle, handlers, pack, scan, timer, timeoutTask, phase, faults>>
      BY <2>3, QueueCounts, EndedCounts DEF TypeOK, Jobs
    <2> QED
      BY <1>1, <2>1, <2>2, <2>3 DEF SearchResult
  <1>2. ASSUME SearchCrashes(o) PROVE TypeOK'
    BY <1>2 DEF SearchCrashes, TypeOK
  <1>3. ASSUME DownloadOver(o) PROVE TypeOK'
    <2>1. CASE Fail(o, PackGone(o)) /\ UNCHANGED ends
      BY <2>1, WrongKinds, FailType DEF TypeOK
    <2>2. CASE /\ \E x \in {"over", "stopped"} : ctx' = [ctx EXCEPT ![o] = x]
               /\ Ended(o) /\ Queue(o, "cleanup")
               /\ UNCHANGED <<kind, handle, handlers, pack, scan, timer, timeoutTask, phase, faults>>
      BY <2>2, QueueCounts, EndedCounts DEF TypeOK, Jobs
    <2> QED
      BY <1>3, <2>1, <2>2 DEF DownloadOver
  <1>4. ASSUME Ends(o) PROVE TypeOK'
    <2>1. CASE Fail(o, PackGone(o) \cup Registered(o)) /\ UNCHANGED ends
      BY <2>1, WrongKinds, FailType DEF TypeOK
    <2>2. CASE /\ Over(o) /\ Ended(o) /\ Queue(o, "release") /\ handlers' = Erase(o)
               /\ UNCHANGED <<kind, handle, pack, scan, timer, timeoutTask, phase, faults>>
      BY <2>2, QueueCounts, EndedCounts DEF TypeOK, Jobs, Over, Erase
    <2> QED
      BY <1>4, <2>1, <2>2 DEF Ends
  <1>5. ASSUME PublishReports(o) PROVE TypeOK'
    <2>1. Ends(o) \/ UNCHANGED vars
      BY <1>5 DEF PublishReports
    <2>2. CASE UNCHANGED vars
      BY <2>2 DEF TypeOK, vars
    <2> QED
      BY <2>1, <2>2, <1>4
  <1>6. ASSUME UnindexOver(o) PROVE TypeOK'
    BY <1>4, <1>6 DEF UnindexOver
  <1>7. ASSUME ScanOver(o) PROVE TypeOK'
    <2>1. CASE Fail(o, Unless(scan[o] = "live", "freed"))
      <3>1. ends' \in [Ops -> 0..2]
        BY <1>7 DEF ScanOver, TypeOK
      <3>2. Unless(scan[o] = "live", "freed")
               \in SUBSET {"asserted", "freed", "stopped twice", "late cancel"}
        BY DEF Unless
      <3> QED
        BY <2>1, <3>1, <3>2, FailType
    <2>2. CASE ~Fail(o, Unless(scan[o] = "live", "freed"))
      <3>1. ctx' \in [Ops -> {"none", "scan", "active", "over", "stopped"}]
        BY <1>7, <2>2 DEF ScanOver, TypeOK
      <3>2. scan' \in [Ops -> {"none", "live", "freed"}]
        BY <1>7, <2>2 DEF ScanOver, TypeOK
      <3>3. phase' \in {"running", "cancelAll", "stopped", "crashed"}
        BY <1>7, <2>2 DEF ScanOver, TypeOK
      <3>4. UNCHANGED <<kind, handle, handlers, pack, timer, timeoutTask, queued, faults, ends>>
        BY <1>7, <2>2 DEF ScanOver
      <3> QED
        BY <3>1, <3>2, <3>3, <3>4 DEF TypeOK
    <2> QED
      BY <2>1, <2>2
  <1> QED
    BY <1>1, <1>2, <1>3, <1>5, <1>6, <1>7

LEMMA EndType ==
  ASSUME TypeOK, NEW o \in Ops, Cancel(o) \/ Timeout(o) \/ RunQueued(o)
  PROVE  TypeOK'
  <1>1. ASSUME Cancel(o) PROVE TypeOK'
    <2>1. queued' \in [Ops -> [Jobs -> Nat]] /\ ends' \in [Ops -> 0..2]
      BY <1>1, JobNames, QueueCounts, EndedCounts DEF Cancel, TypeOK
    <2> QED
      BY <1>1, <2>1 DEF Cancel, TypeOK
  <1>2. ASSUME Timeout(o) PROVE TypeOK'
    <2>1. ends' \in [Ops -> 0..2]
      BY <1>2, EndedCounts DEF Timeout, TypeOK
    <2>2. CASE Fail(o, StopWrong(o) \cup PackGone(o))
      BY <2>1, <2>2, WrongKinds, FailType
    <2>3. CASE ~Fail(o, StopWrong(o) \cup PackGone(o))
      BY <1>2, <2>1, <2>3, QueueCounts DEF Timeout, SearchStop, TypeOK, Jobs
    <2> QED
      BY <2>2, <2>3
  <1>3. ASSUME RunStop(o) PROVE TypeOK'
    <2>1. CASE Fail(o, StopWrong(o))
      BY <1>3, <2>1, WrongKinds, FailType DEF RunStop, TypeOK
    <2>2. CASE ~Fail(o, StopWrong(o))
      BY <1>3, <2>2 DEF RunStop, SearchStop, TypeOK, Jobs
    <2> QED
      BY <2>1, <2>2
  <1>4. ASSUME RunCleanup(o) PROVE TypeOK'
    <2>1. CASE Fail(o, CleanupWrong(o))
      BY <1>4, <2>1, WrongKinds, FailType DEF RunCleanup, TypeOK
    <2>2. CASE ~Fail(o, CleanupWrong(o))
      <3>1. queued' \in [Ops -> [Jobs -> Nat]]
        BY <1>4, <2>2, JobNames, DequeueCounts DEF RunCleanup, TypeOK
      <3>2. timer' = CancelTimeout(o) /\ handlers' = handlers \ {o}
        BY <1>4, <2>2 DEF RunCleanup, Erase
      <3>3. timer' \in [Ops -> BOOLEAN] /\ handlers' \subseteq Ops
        BY <3>2 DEF CancelTimeout, TypeOK
      <3>4. /\ ctx' \in [Ops -> {"none", "scan", "active", "over", "stopped"}]
            /\ handle' \in [Ops -> {"none", "open", "stopped"}]
            /\ pack' \in [Ops -> {"none", "live", "freed", "lost"}]
        BY <1>4, <2>2 DEF RunCleanup, TypeOK
      <3>5. UNCHANGED <<kind, scan, timeoutTask, phase, faults, ends>>
        BY <1>4, <2>2 DEF RunCleanup
      <3> QED
        BY <3>1, <3>3, <3>4, <3>5 DEF TypeOK
    <2> QED
      BY <2>1, <2>2
  <1>5. ASSUME RunRelease(o) PROVE TypeOK'
    <2>1. CASE Fail(o, ReleaseWrong(o))
      BY <1>5, <2>1, WrongKinds, FailType DEF RunRelease, TypeOK
    <2>2. CASE ~Fail(o, ReleaseWrong(o))
      <3>1. queued' \in [Ops -> [Jobs -> Nat]]
        BY <1>5, <2>2, JobNames, DequeueCounts DEF RunRelease, TypeOK
      <3> QED
        BY <1>5, <2>2, <3>1 DEF RunRelease, TypeOK
    <2> QED
      BY <2>1, <2>2
  <1> QED
    BY <1>1, <1>2, <1>3, <1>4, <1>5 DEF RunQueued

LEMMA TypeStep == TypeOK /\ [Next]_vars => TypeOK'
  <1> SUFFICES ASSUME TypeOK, [Next]_vars PROVE TypeOK'
    OBVIOUS
  <1>1. CASE Shutdown \/ AllVisited
    BY <1>1 DEF Shutdown, AllVisited, TypeOK
  <1>2. CASE UNCHANGED vars
    BY <1>2 DEF TypeOK, vars
  <1> QED
    BY <1>1, <1>2, StartType, ReportType, EndType
    DEF Next, SearchTimeout, Visit, Terminated

\* Every variable keeps its type, whoever ends what and however often.
THEOREM TypeCorrect == Spec => []TypeOK
  BY TypeInit, TypeStep, PTL DEF Spec

-----------------------------------------------------------------------------
(***************************************************************************)
(* The invariant, an action at a time                                      *)
(***************************************************************************)
LEMMA InitInv == Init => IInv
  <1> SUFFICES ASSUME Init PROVE IInv
    OBVIOUS
  <1>1. TypeOK
    BY TypeInit
  <1>2. ASSUME NEW o \in Ops PROVE OpInv(o)
    <2>1. Stops(o) = 0 /\ Cleanups(o) = 0 /\ Releases(o) = 0
      BY JobNames DEF Init, NoJobs, Stops, Cleanups, Releases
    <2> QED
      BY <2>1 DEF Init, OpInv, Unstarted, JobsFind, InUse, Phases, EndsCounted, HasTimeout
  <1> QED
    BY <1>1, <1>2 DEF Init, IInv, OnlySecondEndsFault

\* Nothing of this operation changes.
Same(p) ==
    /\ kind'[p] = kind[p] /\ ctx'[p] = ctx[p] /\ handle'[p] = handle[p]
    /\ p \in handlers' <=> p \in handlers
    /\ pack'[p] = pack[p] /\ scan'[p] = scan[p]
    /\ timer'[p] = timer[p] /\ timeoutTask'[p] = timeoutTask[p]
    /\ queued'[p] = queued[p] /\ ends'[p] = ends[p]

LEMMA SameOp == ASSUME NEW p \in Ops, OpInv(p), Same(p) PROVE OpInv(p)'
  BY DEF Same, OpInv, Unstarted, JobsFind, InUse, Phases, EndsCounted, HasTimeout,
         Stops, Cleanups, Releases

\* A step that goes wrong leaves a search that was ended before, and ended again.
LEMMA FaultInv ==
  ASSUME IInv, NEW o \in Ops, NEW wrong \in SUBSET {"stopped twice"}, Fail(o, wrong),
         ends' \in [Ops -> 0..2], UNCHANGED ends \/ Ended(o), ends'[o] > 1, ctx[o] = "stopped", kind[o] = "search",
         Stops(o) > 0 \/ Cleanups(o) > 0
  PROVE  IInv'
  <1>1. OnlySecondEndsFault'
    BY DEF OnlySecondEndsFault, Fail
  <1>2. ASSUME NEW p \in Ops, p # o PROVE OpInv(p)'
    <2>1. ends \in [Ops -> 0..2]
      BY DEF IInv, TypeOK
    <2>2. ends'[p] = ends[p]
      BY <1>2, <2>1, EndedCounts
    <2>3. Same(p)
      BY <2>2 DEF Same, Fail
    <2> QED
      BY <2>3, SameOp DEF IInv
  <1>3. OpInv(o)'
    <2>1. OpInv(o) /\ Stops(o) \in Nat /\ Cleanups(o) \in Nat /\ Releases(o) \in Nat
      BY JobNames DEF IInv, TypeOK, Stops, Cleanups, Releases
    <2>2. /\ kind'[o] = kind[o] /\ ctx'[o] = ctx[o] /\ handle'[o] = handle[o]
          /\ handlers' = handlers /\ pack'[o] = pack[o] /\ scan'[o] = scan[o]
          /\ timer'[o] = timer[o] /\ timeoutTask'[o] = timeoutTask[o]
          /\ queued'[o] = queued[o]
      BY DEF Fail
    <2>4. ends'[o] > 0
      BY EndsRange
    <2>5. /\ Stops(o)' = Stops(o) /\ Cleanups(o)' = Cleanups(o) /\ Releases(o)' = Releases(o)
          /\ HasTimeout(o)' = HasTimeout(o)
      BY <2>2 DEF Stops, Cleanups, Releases, HasTimeout
    <2> QED
      BY <2>1, <2>2, <2>4, <2>5 DEF OpInv, Unstarted, JobsFind, InUse, Phases, EndsCounted
  <1>4. TypeOK'
    BY FailType DEF IInv
  <1> QED
    BY <1>1, <1>2, <1>3, <1>4 DEF IInv

\* A new operation: what it is, and what GNUnet and the library have of it.
LEMMA NewOp ==
  ASSUME IInv, NEW o \in Ops, kind[o] = "none",
         queued'[o] = queued[o], ends'[o] = ends[o],
         kind'[o] \in Kinds,
         ctx'[o] \in {"none", "scan", "active"},
         ctx'[o] = "scan" => kind'[o] = "publish" /\ scan'[o] = "live",
         \/ handle'[o] = "open" /\ o \in handlers' /\ pack'[o] = "live"
         \/ handle'[o] = "stopped" /\ o \notin handlers' /\ pack'[o] = "lost" /\ ctx'[o] = "none",
         kind'[o] = "search" => ctx'[o] \in {"none", "active"},
         timer'[o] <=> timeoutTask'[o],
         timer'[o] => kind'[o] = "search" /\ ctx'[o] = "active"
  PROVE  OpInv(o)'
  <1>1. Stops(o)' = 0 /\ Cleanups(o)' = 0 /\ Releases(o)' = 0 /\ ends'[o] = 0
    BY DEF IInv, OpInv, Unstarted, Stops, Cleanups, Releases
  <1> QED
    BY <1>1 DEF OpInv, Unstarted, JobsFind, InUse, Phases, EndsCounted, HasTimeout, Kinds

LEMMA StartInv ==
  ASSUME IInv, NEW o \in Ops,
         \/ Search(o) \/ SearchWithoutUri(o) \/ SearchRefused(o)
         \/ Download(o) \/ Publish(o) \/ Unindex(o)
  PROVE  IInv'
  <1> USE DEF Search, SearchWithoutUri, SearchRefused, Download, Publish, Unindex, MakeHandle, Untimed
  <1>1. kind[o] = "none" /\ UNCHANGED <<queued, ends, faults>>
    OBVIOUS
  <1>2. ~timer[o] /\ ~timeoutTask[o] /\ ctx[o] = "none" /\ o \notin handlers
    BY <1>1 DEF IInv, OpInv, Unstarted
  <1>3. OpInv(o)'
    <2>1. kind'[o] \in Kinds /\ ctx'[o] \in {"none", "scan", "active"}
      BY <1>2 DEF Kinds, IInv, TypeOK
    <2>2. ctx'[o] = "scan" => kind'[o] = "publish" /\ scan'[o] = "live"
      BY <1>2 DEF IInv, TypeOK
    <2>3. \/ handle'[o] = "open" /\ o \in handlers' /\ pack'[o] = "live"
          \/ handle'[o] = "stopped" /\ o \notin handlers' /\ pack'[o] = "lost" /\ ctx'[o] = "none"
      BY <1>2 DEF IInv, TypeOK
    <2>4. kind'[o] = "search" => ctx'[o] \in {"none", "active"}
      BY <1>2 DEF IInv, TypeOK
    <2>5. timer'[o] <=> timeoutTask'[o]
      BY <1>2 DEF IInv, TypeOK
    <2>6. timer'[o] => kind'[o] = "search" /\ ctx'[o] = "active"
      BY <1>2 DEF IInv, TypeOK
    <2>7. queued'[o] = queued[o] /\ ends'[o] = ends[o]
      BY <1>1
    <2> HIDE DEF Search, SearchWithoutUri, SearchRefused, Download, Publish, Unindex, MakeHandle, Untimed
    <2> QED
      BY <1>1, <2>1, <2>2, <2>3, <2>4, <2>5, <2>6, <2>7, NewOp
  <1>4. ASSUME NEW p \in Ops, p # o PROVE Same(p)
    <2> USE <1>4 DEF IInv, TypeOK
    <2>1. kind'[p] = kind[p] /\ ctx'[p] = ctx[p]
      OBVIOUS
    <2>2. handle'[p] = handle[p] /\ (p \in handlers' <=> p \in handlers)
      OBVIOUS
    <2>3. pack'[p] = pack[p] /\ scan'[p] = scan[p]
      OBVIOUS
    <2>4. timer'[p] = timer[p] /\ timeoutTask'[p] = timeoutTask[p]
      OBVIOUS
    <2> QED
      BY <1>1, <2>1, <2>2, <2>3, <2>4 DEF Same
  <1>5. TypeOK'
    BY StartType DEF IInv
  <1> HIDE DEF Search, SearchWithoutUri, SearchRefused, Download, Publish, Unindex, MakeHandle, Untimed
  <1>6. OnlySecondEndsFault'
    BY <1>1 DEF OnlySecondEndsFault, IInv
  <1>7. ASSUME NEW p \in Ops, p # o PROVE OpInv(p)'
    BY <1>4, <1>7, SameOp DEF IInv
  <1> QED
    BY <1>3, <1>5, <1>6, <1>7 DEF IInv

LEMMA FaultNames == TypeOK => \A f \in faults : f.op \in Ops
  BY DEF TypeOK, Faults

\* A step that goes well concerns one operation.
LEMMA StepInv ==
  ASSUME IInv, TypeOK', NEW o \in Ops, OpInv(o)', UNCHANGED faults,
         \A p \in Ops : p # o => Same(p) /\ ends'[p] = ends[p],
         ends[o] > 1 => ends'[o] > 1
  PROVE  IInv'
  <1>1. \A p \in Ops : p # o => OpInv(p)'
    BY SameOp DEF IInv
  <1>2. ASSUME NEW f \in faults' PROVE f.what = "stopped twice" /\ ends'[f.op] > 1
    <2>1. f \in faults /\ f.op \in Ops
      BY <1>2, FaultNames DEF IInv
    <2>2. f.what = "stopped twice" /\ ends[f.op] > 1
      BY <2>1 DEF IInv, OnlySecondEndsFault
    <2>3. CASE f.op = o
      BY <2>2, <2>3
    <2>4. CASE f.op # o
      BY <2>1, <2>2, <2>4
    <2> QED
      BY <2>2, <2>3, <2>4
  <1> QED
    BY <1>1, <1>2 DEF IInv, OnlySecondEndsFault

\* The counts are numbers, and a count of one function only ever moves by one.
LEMMA Counted ==
  ASSUME IInv, NEW o \in Ops
  PROVE  /\ Stops(o) \in Nat /\ Cleanups(o) \in Nat /\ Releases(o) \in Nat
         /\ OpInv(o) /\ TypeOK /\ ends \in [Ops -> 0..2] /\ queued \in [Ops -> [Jobs -> Nat]]
  BY JobNames DEF IInv, TypeOK, Stops, Cleanups, Releases

LEMMA EndedTwice ==
  ASSUME ends \in [Ops -> 0..2], NEW o \in Ops, Ended(o)
  PROVE  ends[o] > 1 => ends'[o] > 1
  <1>1. ends[o] > 1 => ends[o] > 0
    BY EndsRange
  <1> QED
    BY <1>1, EndedCounts

LEMMA QueuedStop ==
  ASSUME queued \in [Ops -> [Jobs -> Nat]], NEW o \in Ops, Queue(o, "stop")
  PROVE  /\ Stops(o)' = Stops(o) + 1 /\ Cleanups(o)' = Cleanups(o) /\ Releases(o)' = Releases(o)
         /\ \A p \in Ops : p # o => queued'[p] = queued[p]
  BY JobNames, QueueCounts DEF Stops, Cleanups, Releases

LEMMA QueuedCleanup ==
  ASSUME queued \in [Ops -> [Jobs -> Nat]], NEW o \in Ops, Queue(o, "cleanup")
  PROVE  /\ Cleanups(o)' = Cleanups(o) + 1 /\ Stops(o)' = Stops(o) /\ Releases(o)' = Releases(o)
         /\ \A p \in Ops : p # o => queued'[p] = queued[p]
  BY JobNames, QueueCounts DEF Stops, Cleanups, Releases

LEMMA QueuedRelease ==
  ASSUME queued \in [Ops -> [Jobs -> Nat]], NEW o \in Ops, Queue(o, "release")
  PROVE  /\ Releases(o)' = Releases(o) + 1 /\ Stops(o)' = Stops(o) /\ Cleanups(o)' = Cleanups(o)
         /\ \A p \in Ops : p # o => queued'[p] = queued[p]
  BY JobNames, QueueCounts DEF Stops, Cleanups, Releases

\* While GNUnet can report, the pack is there and registered.
LEMMA ReportsFind ==
  ASSUME IInv, NEW o \in Ops, ctx[o] \in {"scan", "active"}
  PROVE  PackGone(o) = {} /\ Registered(o) = {} /\ Cleanups(o) = 0 /\ Releases(o) = 0
  BY Counted DEF OpInv, InUse, PackGone, Registered, Unless

\* A stop that is asked for of a search that GNUnet has, or has had.
LEMMA AskedInv ==
  ASSUME IInv, TypeOK', NEW o \in Ops, kind[o] = "search", ctx[o] \in {"active", "stopped"},
         Queue(o, "stop"), Ended(o),
         UNCHANGED <<kind, ctx, handle, handlers, pack, scan, timer, timeoutTask, faults>>
  PROVE  IInv'
  <1>1. /\ OpInv(o) /\ Stops(o) \in Nat /\ Cleanups(o) \in Nat /\ Releases(o) \in Nat
        /\ ends \in [Ops -> 0..2] /\ queued \in [Ops -> [Jobs -> Nat]]
    BY Counted
  <1>2. /\ ends'[o] > 0 /\ (ends[o] > 0 => ends'[o] > 1)
        /\ \A p \in Ops : p # o => ends'[p] = ends[p]
    BY <1>1, EndedCounts
  <1>3. /\ Stops(o)' = Stops(o) + 1 /\ Cleanups(o)' = Cleanups(o) /\ Releases(o)' = Releases(o)
        /\ \A p \in Ops : p # o => queued'[p] = queued[p]
    BY <1>1, QueuedStop
  <1>4. OpInv(o)'
    BY <1>1, <1>2, <1>3 DEF OpInv, Unstarted, JobsFind, InUse, Phases, EndsCounted, HasTimeout
  <1>5. \A p \in Ops : p # o => Same(p) /\ ends'[p] = ends[p]
    BY <1>2, <1>3 DEF Same
  <1>6. ends[o] > 1 => ends'[o] > 1
    BY <1>1, EndedTwice
  <1> QED
    BY <1>4, <1>5, <1>6, StepInv

LEMMA SearchResultInv == ASSUME IInv, NEW o \in Ops, SearchResult(o) PROVE IInv'
  <1>1. TypeOK'
    BY ReportType DEF IInv
  <1>2. kind[o] = "search" /\ ctx[o] = "active"
    BY DEF SearchResult, Report
  <1>3. PackGone(o) = {}
    BY <1>2, ReportsFind
  <1>4. CASE UNCHANGED vars
    BY <1>1, <1>4, SameOp DEF vars, Same, IInv, OnlySecondEndsFault
  <1>5. CASE ~UNCHANGED vars
    <2>1. /\ Queue(o, "stop") /\ Ended(o)
          /\ UNCHANGED <<kind, ctx, handle, handlers, pack, scan, timer, timeoutTask, faults>>
      BY <1>3, <1>5 DEF SearchResult, Fail
    <2> QED
      BY <1>1, <1>2, <2>1, AskedInv
  <1> QED
    BY <1>4, <1>5

LEMMA CancelInv == ASSUME IInv, NEW o \in Ops, Cancel(o) PROVE IInv'
  <1>1. TypeOK'
    BY EndType DEF IInv
  <1>2. kind[o] = "search" /\ ctx[o] \in {"active", "stopped"}
    BY Counted DEF Cancel, OpInv, Phases
  <1>3. /\ Queue(o, "stop") /\ Ended(o)
        /\ UNCHANGED <<kind, ctx, handle, handlers, pack, scan, timer, timeoutTask, faults>>
    BY DEF Cancel
  <1> QED
    BY <1>1, <1>2, <1>3, AskedInv

LEMMA SearchCrashesInv == ASSUME IInv, NEW o \in Ops, SearchCrashes(o) PROVE IInv'
  <1>1. TypeOK'
    BY ReportType DEF IInv
  <1>2. /\ UNCHANGED <<kind, ctx, handle, handlers, pack, scan, timer, timeoutTask>>
        /\ UNCHANGED <<queued, ends, faults>>
    BY DEF SearchCrashes
  <1> QED
    BY <1>1, <1>2, SameOp DEF Same, IInv, OnlySecondEndsFault

LEMMA DownloadOverInv == ASSUME IInv, NEW o \in Ops, DownloadOver(o) PROVE IInv'
  <1>1. TypeOK'
    BY ReportType DEF IInv
  <1>2. /\ OpInv(o) /\ Stops(o) \in Nat /\ Cleanups(o) \in Nat /\ Releases(o) \in Nat
        /\ ends \in [Ops -> 0..2] /\ queued \in [Ops -> [Jobs -> Nat]] /\ TypeOK
    BY Counted
  <1>3. /\ kind[o] = "download" /\ ctx[o] = "active"
        /\ PackGone(o) = {} /\ Cleanups(o) = 0 /\ Releases(o) = 0
    BY ReportsFind DEF DownloadOver, Report
  <1>4. PICK x \in {"over", "stopped"} :
           /\ ctx' = [ctx EXCEPT ![o] = x]
           /\ Ended(o) /\ Queue(o, "cleanup")
           /\ UNCHANGED <<kind, handle, handlers, pack, scan, timer, timeoutTask, faults>>
    BY <1>3 DEF DownloadOver, Fail
  <1>5. ctx'[o] = x /\ \A p \in Ops : p # o => ctx'[p] = ctx[p]
    BY <1>2, <1>4 DEF TypeOK
  <1>6. /\ ends'[o] > 0 /\ (ends[o] > 0 => ends'[o] > 1)
        /\ \A p \in Ops : p # o => ends'[p] = ends[p]
    BY <1>2, <1>4, EndedCounts
  <1>7. /\ Cleanups(o)' = 1 /\ Stops(o)' = Stops(o) /\ Releases(o)' = 0
        /\ \A p \in Ops : p # o => queued'[p] = queued[p]
    BY <1>2, <1>3, <1>4, QueuedCleanup
  <1>8. OpInv(o)'
    BY <1>2, <1>3, <1>4, <1>5, <1>6, <1>7
    DEF OpInv, Unstarted, JobsFind, InUse, Phases, EndsCounted, HasTimeout
  <1>9. \A p \in Ops : p # o => Same(p) /\ ends'[p] = ends[p]
    BY <1>4, <1>5, <1>6, <1>7 DEF Same
  <1>10. ends[o] > 1 => ends'[o] > 1
    BY <1>2, <1>4, EndedTwice
  <1> QED
    BY <1>1, <1>4, <1>8, <1>9, <1>10, StepInv

LEMMA EndsInv ==
  ASSUME IInv, TypeOK', NEW o \in Ops, kind[o] \in {"publish", "unindex"}, ctx[o] = "active", Ends(o)
  PROVE  IInv'
  <1>2. /\ OpInv(o) /\ Stops(o) \in Nat /\ Cleanups(o) \in Nat /\ Releases(o) \in Nat
        /\ ends \in [Ops -> 0..2] /\ queued \in [Ops -> [Jobs -> Nat]] /\ TypeOK
    BY Counted
  <1>3. PackGone(o) \cup Registered(o) = {} /\ Cleanups(o) = 0 /\ Releases(o) = 0
    BY ReportsFind
  <1>4. /\ Over(o) /\ Ended(o) /\ Queue(o, "release") /\ handlers' = handlers \ {o}
        /\ UNCHANGED <<kind, handle, pack, scan, timer, timeoutTask, faults>>
    BY <1>3 DEF Ends, Fail, Erase
  <1>5. ctx'[o] = "over" /\ \A p \in Ops : p # o => ctx'[p] = ctx[p]
    BY <1>2, <1>4 DEF TypeOK, Over
  <1>6. /\ ends'[o] > 0 /\ (ends[o] > 0 => ends'[o] > 1)
        /\ \A p \in Ops : p # o => ends'[p] = ends[p]
    BY <1>2, <1>4, EndedCounts
  <1>7. /\ Releases(o)' = 1 /\ Stops(o)' = Stops(o) /\ Cleanups(o)' = 0
        /\ \A p \in Ops : p # o => queued'[p] = queued[p]
    BY <1>2, <1>3, <1>4, QueuedRelease
  <1>8. OpInv(o)'
    BY <1>2, <1>3, <1>4, <1>5, <1>6, <1>7
    DEF OpInv, Unstarted, JobsFind, InUse, Phases, EndsCounted, HasTimeout
  <1>9. \A p \in Ops : p # o => Same(p) /\ ends'[p] = ends[p]
    BY <1>4, <1>5, <1>6, <1>7 DEF Same
  <1>10. ends[o] > 1 => ends'[o] > 1
    BY <1>2, <1>4, EndedTwice
  <1> QED
    BY <1>4, <1>8, <1>9, <1>10, StepInv

LEMMA PublishReportsInv ==
  ASSUME IInv, NEW o \in Ops, PublishReports(o) \/ UnindexOver(o) PROVE IInv'
  <1>1. TypeOK'
    BY ReportType DEF IInv
  <1>2. kind[o] \in {"publish", "unindex"} /\ ctx[o] = "active"
    BY DEF PublishReports, UnindexOver, Report
  <1>3. Ends(o) \/ UNCHANGED vars
    BY DEF PublishReports, UnindexOver
  <1>4. CASE Ends(o)
    BY <1>1, <1>2, <1>4, EndsInv
  <1>5. CASE UNCHANGED vars
    BY <1>1, <1>5, SameOp DEF vars, Same, IInv, OnlySecondEndsFault
  <1> QED
    BY <1>3, <1>4, <1>5

LEMMA ScanOverInv == ASSUME IInv, NEW o \in Ops, ScanOver(o) PROVE IInv'
  <1>1. TypeOK'
    BY ReportType DEF IInv
  <1>2. /\ OpInv(o) /\ Stops(o) \in Nat /\ Cleanups(o) \in Nat /\ Releases(o) \in Nat
        /\ ends \in [Ops -> 0..2] /\ TypeOK /\ ctx[o] = "scan"
    BY Counted DEF ScanOver
  <1>3. scan[o] = "live"
    BY <1>2 DEF OpInv, InUse
  <1>4. /\ UNCHANGED <<kind, handle, handlers, pack, timer, timeoutTask, queued, ends, faults>>
        /\ \/ UNCHANGED <<ctx, scan>>
           \/ /\ \E x \in {"active", "none"} : ctx' = [ctx EXCEPT ![o] = x]
              /\ scan' = [scan EXCEPT ![o] = "freed"]
    BY <1>3 DEF ScanOver, Fail, Unless
  <1>5. /\ ctx'[o] \in {"active", "none"} \/ (ctx'[o] = ctx[o] /\ scan'[o] = scan[o])
        /\ \A p \in Ops : p # o => ctx'[p] = ctx[p] /\ scan'[p] = scan[p]
    BY <1>2, <1>4 DEF TypeOK
  <1>6. Stops(o)' = Stops(o) /\ Cleanups(o)' = Cleanups(o) /\ Releases(o)' = Releases(o)
    BY <1>4 DEF Stops, Cleanups, Releases
  <1>7. OpInv(o)'
    BY <1>2, <1>4, <1>5, <1>6
    DEF OpInv, Unstarted, JobsFind, InUse, Phases, EndsCounted, HasTimeout
  <1>8. \A p \in Ops : p # o => Same(p) /\ ends'[p] = ends[p]
    BY <1>4, <1>5 DEF Same
  <1> QED
    BY <1>1, <1>4, <1>7, <1>8, StepInv
\* A queued stop finds the search, unless another party has ended it before.
LEMMA RunStopInv == ASSUME IInv, NEW o \in Ops, RunStop(o) PROVE IInv'
  <1>1. TypeOK'
    BY EndType DEF IInv, RunQueued
  <1>2. /\ OpInv(o) /\ Stops(o) \in Nat /\ Cleanups(o) \in Nat /\ Releases(o) \in Nat
        /\ ends \in [Ops -> 0..2] /\ queued \in [Ops -> [Jobs -> Nat]] /\ TypeOK
    BY Counted
  <1>3. /\ Stops(o) > 0 /\ kind[o] = "search" /\ ctx[o] \in {"active", "stopped"}
        /\ UNCHANGED ends
    BY <1>2 DEF RunStop, Stops, OpInv, JobsFind
  <1>4. CASE ctx[o] = "stopped"
    <2>1. StopWrong(o) = {"stopped twice"} /\ ends[o] > 1
      BY <1>2, <1>3, <1>4 DEF StopWrong, OpInv, EndsCounted
    <2>2. Fail(o, StopWrong(o))
      BY <2>1 DEF RunStop, SearchStop
    <2>3. ends' \in [Ops -> 0..2] /\ ends'[o] > 1
      BY <1>2, <1>3, <2>1
    <2> QED
      BY <1>3, <1>4, <2>1, <2>2, <2>3, FaultInv
  <1>5. CASE ctx[o] = "active"
    <2>1. PackGone(o) = {} /\ Cleanups(o) = 0 /\ Releases(o) = 0 /\ StopWrong(o) = {}
      BY <1>5, ReportsFind DEF StopWrong
    <2>2. /\ ctx' = [ctx EXCEPT ![o] = "stopped"]
          /\ queued' = [queued EXCEPT ![o]["stop"] = @ - 1, ![o]["cleanup"] = @ + 1]
          /\ UNCHANGED <<kind, handle, handlers, pack, scan, timer, timeoutTask, faults>>
      BY <2>1 DEF RunStop, Fail, SearchStop
    <2>3. /\ Stops(o)' = Stops(o) - 1 /\ Cleanups(o)' = 1 /\ Releases(o)' = 0
          /\ \A p \in Ops : p # o => queued'[p] = queued[p]
      BY <1>2, <2>1, <2>2, JobNames DEF Stops, Cleanups, Releases
    <2>4. ctx'[o] = "stopped" /\ \A p \in Ops : p # o => ctx'[p] = ctx[p]
      BY <1>2, <2>2 DEF TypeOK
    <2>5. OpInv(o)'
      BY <1>2, <1>3, <1>5, <2>1, <2>2, <2>3, <2>4
      DEF OpInv, Unstarted, JobsFind, InUse, Phases, EndsCounted, HasTimeout
    <2>6. \A p \in Ops : p # o => Same(p) /\ ends'[p] = ends[p]
      BY <1>3, <2>2, <2>3, <2>4 DEF Same
    <2> QED
      BY <1>1, <1>3, <2>2, <2>5, <2>6, StepInv
  <1> QED
    BY <1>3, <1>4, <1>5

\* So does a timeout, at its time or from cancelAll.
LEMMA TimeoutInv == ASSUME IInv, NEW o \in Ops, Timeout(o) PROVE IInv'
  <1>1. TypeOK'
    BY EndType DEF IInv
  <1>2. /\ OpInv(o) /\ Stops(o) \in Nat /\ Cleanups(o) \in Nat /\ Releases(o) \in Nat
        /\ ends \in [Ops -> 0..2] /\ queued \in [Ops -> [Jobs -> Nat]] /\ TypeOK
    BY Counted
  <1>3. /\ timer[o] /\ Ended(o) /\ kind[o] = "search" /\ ctx[o] \in {"active", "stopped"}
        /\ ctx[o] = "active" \/ Cleanups(o) = 1
        /\ PackGone(o) = {}
    BY <1>2 DEF Timeout, OpInv, InUse, JobsFind, Phases, PackGone, Unless
  <1>4. /\ ends' \in [Ops -> 0..2] /\ ends'[o] > 0 /\ (ends[o] > 0 => ends'[o] > 1)
        /\ \A p \in Ops : p # o => ends'[p] = ends[p]
    BY <1>2, <1>3, EndedCounts
  <1>5. CASE ctx[o] = "stopped"
    <2>1. /\ StopWrong(o) = {"stopped twice"} /\ Cleanups(o) > 0
          /\ StopWrong(o) \cup PackGone(o) = {"stopped twice"}
      BY <1>2, <1>3, <1>5 DEF StopWrong
    <2>2. ends'[o] > 1
      BY <1>2, <1>4, <1>5 DEF OpInv, EndsCounted
    <2>3. ~SearchStop(o)
      BY <2>1 DEF SearchStop
    <2>4. Fail(o, StopWrong(o) \cup PackGone(o))
      BY <2>3 DEF Timeout
    <2> QED
      BY <1>3, <1>4, <1>5, <2>1, <2>2, <2>4, FaultInv
  <1>6. CASE ctx[o] = "active"
    <2>1. Cleanups(o) = 0 /\ Releases(o) = 0 /\ StopWrong(o) \cup PackGone(o) = {}
      BY <1>3, <1>6, ReportsFind DEF StopWrong
    <2>2. /\ ctx' = [ctx EXCEPT ![o] = "stopped"] /\ Queue(o, "cleanup")
          /\ timer' = [timer EXCEPT ![o] = FALSE]
          /\ timeoutTask' = [timeoutTask EXCEPT ![o] = FALSE]
          /\ UNCHANGED <<kind, handle, handlers, pack, scan, faults>>
      BY <2>1 DEF Timeout, Fail, SearchStop
    <2>3. /\ Cleanups(o)' = 1 /\ Stops(o)' = Stops(o) /\ Releases(o)' = 0
          /\ \A p \in Ops : p # o => queued'[p] = queued[p]
      BY <1>2, <2>1, <2>2, QueuedCleanup
    <2>4. /\ ctx'[o] = "stopped" /\ ~timer'[o] /\ ~timeoutTask'[o]
          /\ \A p \in Ops : p # o =>
                ctx'[p] = ctx[p] /\ timer'[p] = timer[p] /\ timeoutTask'[p] = timeoutTask[p]
      BY <1>2, <2>2 DEF TypeOK
    <2>5. OpInv(o)'
      BY <1>2, <1>3, <1>4, <1>6, <2>1, <2>2, <2>3, <2>4
      DEF OpInv, Unstarted, JobsFind, InUse, Phases, EndsCounted, HasTimeout
    <2>6. \A p \in Ops : p # o => Same(p) /\ ends'[p] = ends[p]
      BY <1>4, <2>2, <2>3, <2>4 DEF Same
    <2>7. ends[o] > 1 => ends'[o] > 1
      BY <1>2, <1>3, EndedTwice
    <2> QED
      BY <1>1, <2>2, <2>5, <2>6, <2>7, StepInv
  <1> QED
    BY <1>3, <1>5, <1>6

\* The clearing up finds the handle in the map, and the timer it has to cancel.
LEMMA RunCleanupInv == ASSUME IInv, NEW o \in Ops, RunCleanup(o) PROVE IInv'
  <1>1. TypeOK'
    BY EndType DEF IInv, RunQueued
  <1>2. /\ OpInv(o) /\ Stops(o) \in Nat /\ Cleanups(o) \in Nat /\ Releases(o) \in Nat
        /\ ends \in [Ops -> 0..2] /\ queued \in [Ops -> [Jobs -> Nat]] /\ TypeOK
    BY Counted
  <1>3. /\ Cleanups(o) = 1 /\ Releases(o) = 0 /\ o \in handlers
        /\ kind[o] \in {"search", "download"} /\ ctx[o] \in {"over", "stopped"}
        /\ UNCHANGED ends
    BY <1>2 DEF RunCleanup, Cleanups, OpInv, JobsFind
  <1>4. CleanupWrong(o) = {}
    BY <1>2, <1>3 DEF CleanupWrong, Registered, Unless, OpInv, InUse
  <1>5. /\ queued' = [queued EXCEPT ![o]["cleanup"] = @ - 1]
        /\ timer' = CancelTimeout(o) /\ handlers' = handlers \ {o}
        /\ handle' = [handle EXCEPT ![o] = "stopped"]
        /\ ctx' = [ctx EXCEPT ![o] = "stopped"]
        /\ pack' = [pack EXCEPT ![o] = "freed"]
        /\ UNCHANGED <<kind, scan, timeoutTask, faults>>
    BY <1>4 DEF RunCleanup, Fail, Erase
  <1>6. /\ Cleanups(o)' = 0 /\ Stops(o)' = Stops(o) /\ Releases(o)' = 0
        /\ \A p \in Ops : p # o => queued'[p] = queued[p]
    BY <1>2, <1>3, <1>5, JobNames, DequeueCounts DEF Stops, Cleanups, Releases
  <1>7. ~timer'[o] /\ \A p \in Ops : p # o => timer'[p] = timer[p]
    BY <1>2, <1>5 DEF CancelTimeout, HasTimeout, OpInv, InUse, TypeOK
  <1>8. /\ handle'[o] = "stopped" /\ ctx'[o] = "stopped" /\ pack'[o] = "freed"
        /\ \A p \in Ops : p # o =>
              handle'[p] = handle[p] /\ ctx'[p] = ctx[p] /\ pack'[p] = pack[p]
    BY <1>2, <1>5 DEF TypeOK
  <1>9. OpInv(o)'
    BY <1>2, <1>3, <1>5, <1>6, <1>7, <1>8
    DEF OpInv, Unstarted, JobsFind, InUse, Phases, EndsCounted, HasTimeout
  <1>10. \A p \in Ops : p # o => Same(p) /\ ends'[p] = ends[p]
    BY <1>3, <1>5, <1>6, <1>7, <1>8 DEF Same
  <1> QED
    BY <1>1, <1>3, <1>5, <1>9, <1>10, StepInv

LEMMA RunReleaseInv == ASSUME IInv, NEW o \in Ops, RunRelease(o) PROVE IInv'
  <1>1. TypeOK'
    BY EndType DEF IInv, RunQueued
  <1>2. /\ OpInv(o) /\ Stops(o) \in Nat /\ Cleanups(o) \in Nat /\ Releases(o) \in Nat
        /\ ends \in [Ops -> 0..2] /\ queued \in [Ops -> [Jobs -> Nat]] /\ TypeOK
    BY Counted
  <1>3. /\ Releases(o) = 1 /\ Cleanups(o) = 0 /\ o \notin handlers
        /\ pack[o] = "live" /\ handle[o] = "open" /\ ctx[o] = "over"
        /\ UNCHANGED ends
    BY <1>2 DEF RunRelease, Releases, OpInv, JobsFind
  <1>4. ReleaseWrong(o) = {}
    BY <1>3 DEF ReleaseWrong, Unless
  <1>5. /\ queued' = [queued EXCEPT ![o]["release"] = @ - 1]
        /\ handle' = [handle EXCEPT ![o] = "stopped"]
        /\ ctx' = [ctx EXCEPT ![o] = "stopped"]
        /\ pack' = [pack EXCEPT ![o] = "freed"]
        /\ UNCHANGED <<kind, handlers, scan, timer, timeoutTask, faults>>
    BY <1>4 DEF RunRelease, Fail
  <1>6. /\ Releases(o)' = 0 /\ Stops(o)' = Stops(o) /\ Cleanups(o)' = 0
        /\ \A p \in Ops : p # o => queued'[p] = queued[p]
    BY <1>2, <1>3, <1>5, JobNames, DequeueCounts DEF Stops, Cleanups, Releases
  <1>7. /\ handle'[o] = "stopped" /\ ctx'[o] = "stopped" /\ pack'[o] = "freed"
        /\ \A p \in Ops : p # o =>
              handle'[p] = handle[p] /\ ctx'[p] = ctx[p] /\ pack'[p] = pack[p]
    BY <1>2, <1>5 DEF TypeOK
  <1>8. OpInv(o)'
    BY <1>2, <1>3, <1>5, <1>6, <1>7
    DEF OpInv, Unstarted, JobsFind, InUse, Phases, EndsCounted, HasTimeout
  <1>9. \A p \in Ops : p # o => Same(p) /\ ends'[p] = ends[p]
    BY <1>3, <1>5, <1>6, <1>7 DEF Same
  <1> QED
    BY <1>1, <1>3, <1>5, <1>8, <1>9, StepInv

LEMMA ShutdownInv == ASSUME IInv, Shutdown \/ AllVisited \/ UNCHANGED vars PROVE IInv'
  <1>1. TypeOK'
    BY TypeStep DEF IInv, Next
  <1>2. UNCHANGED timer \/ \A p \in Ops : timer[p] = FALSE /\ timer'[p] = FALSE
    BY DEF Shutdown, AllVisited, RunOnShutdown, vars, IInv, TypeOK
  <1>3. UNCHANGED <<kind, ctx, handle, handlers, pack, scan, timeoutTask, queued, ends, faults>>
    BY DEF Shutdown, AllVisited, vars
  <1>4. ASSUME NEW p \in Ops PROVE OpInv(p)'
    <2>1. timer'[p] = timer[p]
      BY <1>2 DEF IInv, TypeOK
    <2> QED
      BY <1>3, <2>1, SameOp DEF Same, IInv
  <1> QED
    BY <1>1, <1>3, <1>4 DEF IInv, OnlySecondEndsFault

-----------------------------------------------------------------------------
(***************************************************************************)
(* The theorems                                                            *)
(***************************************************************************)
LEMMA Inductive == IInv /\ [Next]_vars => IInv'
  <1> SUFFICES ASSUME IInv, [Next]_vars PROVE IInv'
    OBVIOUS
  <1>1. CASE Shutdown \/ AllVisited \/ UNCHANGED vars
    BY <1>1, ShutdownInv
  <1>2. ASSUME NEW o \in Ops,
               \/ Search(o) \/ SearchWithoutUri(o) \/ SearchRefused(o)
               \/ Download(o) \/ Publish(o) \/ Unindex(o)
        PROVE  IInv'
    BY <1>2, StartInv
  <1>3. ASSUME NEW o \in Ops,
               \/ SearchResult(o) \/ SearchCrashes(o) \/ DownloadOver(o)
               \/ PublishReports(o) \/ UnindexOver(o) \/ ScanOver(o)
        PROVE  IInv'
    BY <1>3, SearchResultInv, SearchCrashesInv, DownloadOverInv, PublishReportsInv, ScanOverInv
  <1>4. ASSUME NEW o \in Ops, Cancel(o) \/ SearchTimeout(o) \/ Visit(o) \/ RunQueued(o)
        PROVE  IInv'
    BY <1>4, CancelInv, TimeoutInv, RunStopInv, RunCleanupInv, RunReleaseInv
    DEF SearchTimeout, Visit, RunQueued
  <1> QED
    BY <1>1, <1>2, <1>3, <1>4 DEF Next, Terminated

LEMMA Invariance == Spec => []IInv
  BY InitInv, Inductive, PTL DEF Spec

\* In whatever order the functions the library queues, the timers, GNUnet's reports, the
\* caller's cancel() and shutdown come: no step finds a pack, a handle or a search gone,
\* a handle missing from g_fs_handlers, or a timer that is no more, except search_stop on
\* a search that was already ended by someone else.
THEOREM FaultsOnlyOnSecondEnd == Spec => []OnlySecondEndsFault
  BY Invariance, PTL DEF IInv

LEMMA Accounts == IInv => Accounted
  <1> SUFFICES ASSUME IInv, NEW o \in Ops
               PROVE  /\ o \in handlers <=> pack[o] = "live" /\ Releases(o) = 0
                      /\ Working(o) => pack[o] = "live" /\ handle[o] = "open"
                      /\ pack[o] = "live" =>
                            (ctx[o] \in {"over", "stopped"} <=> Cleanups(o) + Releases(o) = 1)
                      /\ ends[o] > 0 =>
                            Cleanups(o) + Releases(o) + Stops(o) >= 1 \/ pack[o] = "freed"
    BY DEF Accounted, Ending, Releases, Cleanups, Stops
  <1>1. /\ OpInv(o) /\ Stops(o) \in Nat /\ Cleanups(o) \in Nat /\ Releases(o) \in Nat
    BY Counted
  <1>2. o \in handlers <=> pack[o] = "live" /\ Releases(o) = 0
    BY <1>1 DEF OpInv, JobsFind, InUse, Phases
  <1>3. Working(o) => pack[o] = "live" /\ handle[o] = "open"
    BY <1>1 DEF OpInv, JobsFind, InUse, Phases, Working
  <1>4. pack[o] = "live" => (ctx[o] \in {"over", "stopped"} <=> Cleanups(o) + Releases(o) = 1)
    BY <1>1 DEF OpInv, JobsFind, InUse, Phases
  <1>5. ends[o] > 0 => Cleanups(o) + Releases(o) + Stops(o) >= 1 \/ pack[o] = "freed"
    BY <1>1 DEF OpInv, Phases
  <1> QED
    BY <1>2, <1>3, <1>4, <1>5

\* The map of handles, the packs and what is queued agree at every step: what GNUnet or a
\* timer still works on has its pack, what is over is being cleared up exactly once, and
\* no end that was asked for is forgotten.
THEOREM StaysAccounted == Spec => []Accounted
  BY Invariance, Accounts, PTL
=============================================================================
