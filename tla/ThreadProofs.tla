---------------------------- MODULE ThreadProofs ----------------------------
(***************************************************************************)
(* Proofs about what GNUnet's thread shares with others: the pipe that     *)
(* wakes it (Wakeup) and the queue of results that a coroutine on another  *)
(* thread may look into (QueuedAwaiter).  The two are independent; the     *)
(* definitions of the first carry its name.                                *)
(*                                                                         *)
(* Wakeup: for any number of threads, any kinds of calls and any sizes of  *)
(* the buffer and the pipe.  QueuedAwaiter: for any results and any number *)
(* of reports, the coroutine is never resumed for nothing nor left         *)
(* suspended, and every step is a step of ResultStream or changes nothing  *)
(* in it.                                                                  *)
(***************************************************************************)
EXTENDS Wakeup, QueuedAwaiter, FiniteSetTheorems, TLAPS

\* A call on GNUnet's thread is made by the callback that runs: it never waits in the
\* pipe, and nothing else happens on that thread meanwhile.
MainBusy ==
    \A c \in OnMain : /\ Started(c) => main = "callback"
                      /\ at[c] \notin {"check", "write"}

\* What is in the pipe and what is on its way stay below the buffer.
Budget == Paced => bytes + Cardinality(Waking) < BufSize

WakeupIInv == WakeupTypeOK /\ MainBusy /\ NoLostWakeup /\ Budget /\ (Paced => NeverBlocksInRead)

-----------------------------------------------------------------------------
\* Waking is a finite set with a size.
LEMMA WakingFinite == IsFiniteSet(Waking) /\ Cardinality(Waking) \in Nat
  <1>1. Waking \subseteq Workers
    BY DEF Waking
  <1> QED
    BY <1>1, WakeupAssumption, FS_Subset, FS_CardinalityType

\* A step that wakes no further thread and adds no byte keeps the budget.
LEMMA BudgetKept ==
  ASSUME WakeupTypeOK, Budget, bytes' \in Nat, bytes' <= bytes, Waking' \subseteq Waking
  PROVE  Budget'
  <1>1. Cardinality(Waking') <= Cardinality(Waking) /\ Cardinality(Waking') \in Nat
    BY WakingFinite, FS_Subset, FS_CardinalityType
  <1>2. bytes \in Nat /\ BufSize \in Nat /\ Cardinality(Waking) \in Nat
    BY WakingFinite, WakeupAssumption DEF WakeupTypeOK
  <1>3. Paced => bytes' + Cardinality(Waking') < BufSize
    BY <1>1, <1>2 DEF Budget
  <1> QED
    BY <1>3 DEF Budget

-----------------------------------------------------------------------------
(***************************************************************************)
(* Type correctness                                                        *)
(***************************************************************************)
LEMMA WakeupTypeStep == WakeupTypeOK /\ [WakeupNext]_wakeupVars => WakeupTypeOK'
  <1> SUFFICES ASSUME WakeupTypeOK, [WakeupNext]_wakeupVars PROVE WakeupTypeOK'
    OBVIOUS
  <1> USE WakeupAssumption DEF WakeupTypeOK
  <1>1. ASSUME NEW c \in Calls, Begin(c) PROVE WakeupTypeOK'
    BY <1>1 DEF Begin
  <1>2. ASSUME NEW c \in Calls, CallStep(c) PROVE WakeupTypeOK'
    <2>1. CASE Lock(c)
      BY <2>1 DEF Lock
    <2>2. CASE AddTask(c)
      BY <2>2 DEF AddTask, AfterAdd
    <2>3. CASE Unlock(c)
      BY <2>3 DEF Unlock, AfterUnlock
    <2>4. CASE Check(c)
      BY <2>4 DEF Check, AfterWakeUp
    <2>5. CASE Write(c)
      <3>1. bytes' \in 0..PipeCap
        BY <2>5 DEF Write, Sent
      <3>2. at' \in [Calls -> {"idle", "lock", "add", "check", "write", "unlock"}]
        BY <2>5 DEF Write, AfterWakeUp
      <3> QED
        BY <2>5, <3>1, <3>2 DEF Write
    <2> QED
      BY <1>2, <2>1, <2>2, <2>3, <2>4, <2>5 DEF CallStep
  <1>3. ASSUME NEW c \in Calls, Run(c) PROVE WakeupTypeOK'
    BY <1>3 DEF Run
  <1>4. CASE MainStep
    <2>1. CASE Return
      BY <2>1 DEF Return
    <2>2. CASE Sleep
      BY <2>2 DEF Sleep
    <2>3. CASE Readable
      BY <2>3 DEF Readable
    <2>4. CASE Read
      <3>1. bytes' \in 0..PipeCap
        BY <2>4 DEF Read, Taken, Lesser
      <3> QED
        BY <2>4, <3>1 DEF Read
    <2>5. CASE Exit
      BY <2>5 DEF Exit
    <2> QED
      BY <1>4, <2>1, <2>2, <2>3, <2>4, <2>5 DEF MainStep
  <1>5. CASE CloseFds
    BY <1>5 DEF CloseFds
  <1>6. CASE Ended \/ UNCHANGED wakeupVars
    BY <1>6 DEF Ended, wakeupVars
  <1> QED
    BY <1>1, <1>2, <1>3, <1>4, <1>5, <1>6 DEF WakeupNext

\* The variables keep their types.
THEOREM WakeupTypeCorrect == WakeupSpec => []WakeupTypeOK
  <1>1. WakeupInit => WakeupTypeOK
    BY WakeupAssumption DEF WakeupInit, WakeupTypeOK
  <1> QED
    BY <1>1, WakeupTypeStep, PTL DEF WakeupSpec

-----------------------------------------------------------------------------
(***************************************************************************)
(* The parts of the invariant, step by step                                *)
(***************************************************************************)
LEMMA MainBusyStep == WakeupTypeOK /\ MainBusy /\ [WakeupNext]_wakeupVars => MainBusy'
  <1> SUFFICES ASSUME WakeupTypeOK, MainBusy, [WakeupNext]_wakeupVars PROVE MainBusy'
    OBVIOUS
  <1> USE WakeupAssumption DEF WakeupTypeOK, MainBusy, Started
  <1>1. ASSUME NEW c \in Calls, Begin(c) PROVE MainBusy'
    BY <1>1 DEF Begin
  <1>2. ASSUME NEW c \in Calls, CallStep(c) PROVE MainBusy'
    BY <1>2 DEF CallStep, Lock, AddTask, AfterAdd, Unlock, AfterUnlock, Check, Write, AfterWakeUp
  <1>3. ASSUME NEW c \in Calls, Run(c) PROVE MainBusy'
    BY <1>3 DEF Run
  <1>4. CASE MainStep
    BY <1>4 DEF MainStep, Return, Sleep, Readable, Read, Exit
  <1>5. CASE CloseFds
    BY <1>5 DEF CloseFds
  <1>6. CASE Ended \/ UNCHANGED wakeupVars
    BY <1>6 DEF Ended, wakeupVars
  <1> QED
    BY <1>1, <1>2, <1>3, <1>4, <1>5, <1>6 DEF WakeupNext

LEMMA LostStep == WakeupTypeOK /\ MainBusy /\ NoLostWakeup /\ [WakeupNext]_wakeupVars => NoLostWakeup'
  <1> SUFFICES ASSUME WakeupTypeOK, MainBusy, NoLostWakeup, [WakeupNext]_wakeupVars PROVE NoLostWakeup'
    OBVIOUS
  <1> USE WakeupAssumption DEF WakeupTypeOK, NoLostWakeup
  <1>1. ASSUME NEW c \in Calls, Begin(c) PROVE NoLostWakeup'
    BY <1>1 DEF Begin, Waking
  <1>2. ASSUME NEW c \in Calls, CallStep(c) PROVE NoLostWakeup'
    <2> SUFFICES ASSUME main' = "asleep", fds' = "open", NEW d \in added' \ known'
                 PROVE  bytes' > 0 \/ d \in Waking'
      OBVIOUS
    <2>1. CASE Lock(c)
      BY <2>1 DEF Lock, Waking
    <2>2. CASE AddTask(c)
      BY <2>2 DEF AddTask, AfterAdd, Waking, MainBusy, Started, Workers
    <2>3. CASE Unlock(c)
      BY <2>3 DEF Unlock, AfterUnlock, Waking, Workers
    <2>4. CASE Check(c)
      BY <2>4 DEF Check, AfterWakeUp, Waking
    <2>5. CASE Write(c)
      BY <2>5 DEF Write, Sent
    <2> QED
      BY <1>2, <2>1, <2>2, <2>3, <2>4, <2>5 DEF CallStep
  <1>3. ASSUME NEW c \in Calls, Run(c) PROVE NoLostWakeup'
    BY <1>3 DEF Run
  <1>4. CASE MainStep
    BY <1>4 DEF MainStep, Return, Sleep, Readable, Read, Exit
  <1>5. CASE CloseFds
    BY <1>5 DEF CloseFds
  <1>6. CASE Ended \/ UNCHANGED wakeupVars
    BY <1>6 DEF Ended, wakeupVars, Waking
  <1> QED
    BY <1>1, <1>2, <1>3, <1>4, <1>5, <1>6 DEF WakeupNext

LEMMA BudgetStep == WakeupTypeOK /\ MainBusy /\ Budget /\ [WakeupNext]_wakeupVars => Budget'
  <1> SUFFICES ASSUME WakeupTypeOK, MainBusy, Budget, [WakeupNext]_wakeupVars PROVE Budget'
    OBVIOUS
  <1> USE WakeupAssumption
  <1>1. ASSUME NEW c \in Calls, Begin(c) PROVE Budget'
    <2>1. CASE c \in OnMain
      <3>1. Waking' \subseteq Waking /\ bytes' = bytes
        BY <1>1, <2>1 DEF Begin, Waking, Workers, WakeupTypeOK
      <3> QED
        BY <3>1, BudgetKept DEF WakeupTypeOK
    <2>2. CASE c \in Workers
      <3>1. Waking' \subseteq Waking \cup {c}
        BY <1>1 DEF Begin, Waking, WakeupTypeOK
      <3>2. Cardinality(Waking \cup {c}) <= Cardinality(Waking) + 1
            /\ IsFiniteSet(Waking \cup {c}) /\ Cardinality(Waking \cup {c}) \in Nat
        <4>1. IsFiniteSet(Waking \cup {c})
          BY WakingFinite, FS_AddElement
        <4>2. Cardinality(Waking \cup {c})
                = IF c \in Waking THEN Cardinality(Waking) ELSE Cardinality(Waking) + 1
          BY WakingFinite, FS_AddElement
        <4> QED
          BY <4>1, <4>2, WakingFinite
      <3>3. Cardinality(Waking') <= Cardinality(Waking) + 1 /\ Cardinality(Waking') \in Nat
        BY <3>1, <3>2, FS_Subset, FS_CardinalityType, WakingFinite
      <3>4. Paced => bytes + Cardinality(Waking) + 1 < BufSize
        BY <1>1, <2>2 DEF Begin
      <3>5. bytes' = bytes /\ bytes \in Nat /\ BufSize \in Nat
        BY <1>1 DEF Begin, WakeupTypeOK
      <3> QED
        BY <3>3, <3>4, <3>5, WakingFinite DEF Budget
    <2> QED
      BY <2>1, <2>2 DEF Workers
  <1>2. ASSUME NEW c \in Calls, CallStep(c) PROVE Budget'
    <2>1. CASE Lock(c)
      <3>1. Waking' \subseteq Waking /\ bytes' = bytes
        BY <2>1 DEF Lock, Waking, WakeupTypeOK
      <3> QED
        BY <3>1, BudgetKept DEF WakeupTypeOK
    <2>2. CASE AddTask(c)
      <3>1. Waking' \subseteq Waking /\ bytes' = bytes
        BY <2>2 DEF AddTask, AfterAdd, Waking, WakeupTypeOK
      <3> QED
        BY <3>1, BudgetKept DEF WakeupTypeOK
    <2>3. CASE Unlock(c)
      <3>1. Waking' \subseteq Waking /\ bytes' = bytes
        BY <2>3 DEF Unlock, AfterUnlock, Waking, WakeupTypeOK
      <3> QED
        BY <3>1, BudgetKept DEF WakeupTypeOK
    <2>4. CASE Check(c)
      <3>1. Waking' \subseteq Waking /\ bytes' = bytes
        BY <2>4 DEF Check, AfterWakeUp, Waking, WakeupTypeOK
      <3> QED
        BY <3>1, BudgetKept DEF WakeupTypeOK
    <2>5. CASE Write(c)
      <3>1. c \in Waking
        BY <2>5 DEF Write, MainBusy, Waking, Workers
      <3>2. Waking' \subseteq Waking \ {c}
        BY <2>5 DEF Write, AfterWakeUp, Waking, WakeupTypeOK
      <3>3. IsFiniteSet(Waking \ {c}) /\ Cardinality(Waking \ {c}) = Cardinality(Waking) - 1
            /\ Cardinality(Waking \ {c}) \in Nat
        BY <3>1, WakingFinite, FS_RemoveElement, FS_CardinalityType
      <3>4. Cardinality(Waking') <= Cardinality(Waking) - 1 /\ Cardinality(Waking') \in Nat
        BY <3>2, <3>3, FS_Subset, FS_CardinalityType
      <3>5. bytes' \in Nat /\ bytes \in Nat /\ bytes' <= bytes + 1 /\ BufSize \in Nat
        BY <2>5 DEF Write, Sent, WakeupTypeOK
      <3> QED
        BY <3>4, <3>5, WakingFinite DEF Budget
    <2> QED
      BY <1>2, <2>1, <2>2, <2>3, <2>4, <2>5 DEF CallStep
  <1>3. ASSUME NEW c \in Calls, Run(c) PROVE Budget'
    <2>1. Waking' \subseteq Waking /\ bytes' = bytes
      BY <1>3 DEF Run, Waking
    <2> QED
      BY <2>1, BudgetKept DEF WakeupTypeOK
  <1>4. CASE MainStep
    <2>1. Waking' \subseteq Waking
      BY <1>4 DEF MainStep, Return, Sleep, Readable, Read, Exit, Waking
    <2>2. bytes' \in Nat /\ bytes' <= bytes
      BY <1>4 DEF MainStep, Return, Sleep, Readable, Read, Exit, Taken, Lesser, WakeupTypeOK
    <2> QED
      BY <2>1, <2>2, BudgetKept
  <1>5. CASE CloseFds
    <2>1. Waking' \subseteq Waking /\ bytes' = 0
      BY <1>5 DEF CloseFds, Waking
    <2> QED
      BY <2>1, BudgetKept DEF WakeupTypeOK
  <1>6. CASE Ended \/ UNCHANGED wakeupVars
    <2>1. Waking' \subseteq Waking /\ bytes' = bytes
      BY <1>6 DEF Ended, wakeupVars, Waking
    <2> QED
      BY <2>1, BudgetKept DEF WakeupTypeOK
  <1> QED
    BY <1>1, <1>2, <1>3, <1>4, <1>5, <1>6 DEF WakeupNext

\* Below the buffer, one read empties the pipe and the loop ends with it.
LEMMA ReadStep ==
    Paced /\ WakeupTypeOK /\ Budget /\ NeverBlocksInRead /\ [WakeupNext]_wakeupVars => NeverBlocksInRead'
  <1> SUFFICES ASSUME Paced, WakeupTypeOK, Budget, NeverBlocksInRead, [WakeupNext]_wakeupVars
               PROVE  NeverBlocksInRead'
    OBVIOUS
  <1> USE WakeupAssumption DEF NeverBlocksInRead
  <1>1. ASSUME NEW c \in Calls, Begin(c) PROVE NeverBlocksInRead'
    BY <1>1 DEF Begin
  <1>2. ASSUME NEW c \in Calls, CallStep(c) PROVE NeverBlocksInRead'
    BY <1>2 DEF CallStep, Lock, AddTask, Unlock, Check, Write, Sent, WakeupTypeOK
  <1>3. ASSUME NEW c \in Calls, Run(c) PROVE NeverBlocksInRead'
    BY <1>3 DEF Run
  <1>4. CASE MainStep
    <2>1. CASE Read
      <3>1. bytes < BufSize
        BY WakingFinite DEF Budget, WakeupTypeOK
      <3>2. ~MoreToRead(bytes)
        BY <3>1 DEF MoreToRead, WakeupTypeOK
      <3> QED
        BY <2>1, <3>2 DEF Read
    <2>2. CASE Return \/ Sleep \/ Readable \/ Exit
      BY <2>2 DEF Return, Sleep, Readable, Exit
    <2> QED
      BY <1>4, <2>1, <2>2 DEF MainStep
  <1>5. CASE CloseFds
    BY <1>5 DEF CloseFds
  <1>6. CASE Ended \/ UNCHANGED wakeupVars
    BY <1>6 DEF Ended, wakeupVars
  <1> QED
    BY <1>1, <1>2, <1>3, <1>4, <1>5, <1>6 DEF WakeupNext

LEMMA WakeupInvInit == WakeupInit => WakeupIInv
  <1> SUFFICES ASSUME WakeupInit PROVE WakeupIInv
    OBVIOUS
  <1>1. Waking = {} /\ bytes = 0
    BY DEF WakeupInit, Waking, Workers
  <1>2. Paced => bytes + Cardinality(Waking) < BufSize
    BY <1>1, FS_EmptySet, WakeupAssumption
  <1>3. WakeupTypeOK /\ MainBusy /\ NoLostWakeup /\ NeverBlocksInRead
    BY WakeupAssumption DEF WakeupInit, WakeupTypeOK, MainBusy, Started, NoLostWakeup, NeverBlocksInRead
  <1> QED
    BY <1>2, <1>3 DEF WakeupIInv, Budget

LEMMA WakeupInvariance == WakeupSpec => []WakeupIInv
  <1>1. WakeupIInv /\ [WakeupNext]_wakeupVars => WakeupIInv'
    BY WakeupTypeStep, MainBusyStep, LostStep, BudgetStep, ReadStep DEF WakeupIInv
  <1> QED
    BY <1>1, WakeupInvInit, PTL DEF WakeupSpec

-----------------------------------------------------------------------------
(***************************************************************************)
(* The theorems about the pipe                                             *)
(***************************************************************************)

\* No task that another thread adds is left to a sleep that does not end, however
\* many threads add tasks at once.
THEOREM WakeupSeen == WakeupSpec => []NoLostWakeup
  <1>1. WakeupIInv => NoLostWakeup
    BY DEF WakeupIInv
  <1> QED
    BY <1>1, WakeupInvariance, PTL

\* As long as fewer wake-ups than the buffer of onInbountMessages holds are under way
\* or unread, GNUnet's thread never waits inside read().
THEOREM ReadNeverWaits == Paced => (WakeupSpec => []NeverBlocksInRead)
  <1> SUFFICES ASSUME Paced PROVE WakeupSpec => []NeverBlocksInRead
    OBVIOUS
  <1>1. WakeupIInv => NeverBlocksInRead
    BY DEF WakeupIInv
  <1> QED
    BY <1>1, WakeupInvariance, PTL

-----------------------------------------------------------------------------
\* What was given and what is queued make up what was reported, in this order; the
\* failure that ended the loop is still queued.
Failed == consumer \in {"failed", "crashed"}
Given == IF Failed THEN Len(got) - 1 ELSE Len(got)
Order ==
    /\ Len(sent) = Given + Len(queue_)
    /\ \A i \in 1..Len(queue_) : sent[Given + i] = queue_[i]

\* End closes what was reported and is last in the queue until it has been given.
EndLast ==
    /\ ~finished_ => \A i \in 1..Len(sent) : sent[i] # End
    /\ ~finished_ => \A i \in 1..Len(queue_) : queue_[i] # End
    /\ \A i \in 1..Len(queue_) : queue_[i] = End => i = Len(queue_)
    /\ finished_ /\ consumer # "ended" => queue_ # <<>> /\ queue_[Len(queue_)] = End
    /\ finishing => finished_

\* The loop has not ended before End or a failure was given.
GivenSoFar ==
    /\ consumer # "ended" => \A i \in 1..Len(got) : got[i] # End
    /\ Failed => Len(got) > 0

IInv == TypeOK /\ Order /\ EndLast /\ GivenSoFar /\ ResumedWithItem /\ NoLostResume

-----------------------------------------------------------------------------
\* Append leaves the items where they are and puts the new one behind them.
LEMMA Appended ==
  ASSUME NEW s \in Seq(Items), NEW x \in Items
  PROVE  /\ Append(s, x) \in Seq(Items)
         /\ Len(Append(s, x)) = Len(s) + 1
         /\ \A i \in 1..Len(s) : Append(s, x)[i] = s[i]
         /\ Append(s, x)[Len(s) + 1] = x
  OBVIOUS

LEMMA InvInit == Init => IInv
  <1> SUFFICES ASSUME Init PROVE IInv
    OBVIOUS
  <1>1. queue_ = <<>> /\ sent = <<>> /\ got = <<>> /\ consumer = "user"
        /\ finished_ = FALSE /\ finishing = FALSE
    BY DEF Init
  <1>2. <<>> \in Seq(Items) /\ Len(<<>>) = 0 /\ 1..0 = {}
    OBVIOUS
  <1>3. TypeOK
    BY <1>2 DEF Init, TypeOK
  <1>4. Order /\ EndLast /\ GivenSoFar
    BY <1>1, <1>2 DEF Order, Given, Failed, EndLast, GivenSoFar
  <1> QED
    BY <1>1, <1>3, <1>4 DEF IInv, ResumedWithItem, NoLostResume

\* A report makes the queue and the history longer by the same item ...
Longer(x) ==
    /\ queue_' \in Seq(Items) /\ sent' \in Seq(Items)
    /\ Len(queue_') = Len(queue_) + 1 /\ Len(sent') = Len(sent) + 1
    /\ \A i \in 1..Len(queue_) : queue_'[i] = queue_[i]
    /\ \A i \in 1..Len(sent) : sent'[i] = sent[i]
    /\ queue_'[Len(queue_) + 1] = x /\ sent'[Len(sent) + 1] = x
    /\ queue_' # <<>> /\ Len(queue_) \in Nat /\ Len(sent) \in Nat

\* ... which keeps the order.
LEMMA OrderKept ==
  ASSUME TypeOK, GivenSoFar, Order, NEW x \in Items, Longer(x), UNCHANGED got,
         Failed' <=> Failed
  PROVE  Order'
  <1>1. Given' = Given /\ Given \in Nat
    BY DEF Given, GivenSoFar, TypeOK
  <1>2. /\ Len(queue_) \in Nat /\ Len(sent) \in Nat
        /\ Len(queue_') = Len(queue_) + 1 /\ Len(sent') = Len(sent) + 1
        /\ Len(sent) = Given + Len(queue_)
    BY DEF Longer, Order
  <1>3. Len(sent') = Given' + Len(queue_')
    BY <1>1, <1>2
  <1>4. ASSUME NEW i \in 1..Len(queue_') PROVE sent'[Given' + i] = queue_'[i]
    <2>1. CASE i \in 1..Len(queue_)
      <3>1. Given + i \in 1..Len(sent)
        BY <1>1, <1>2, <2>1
      <3> QED
        BY <1>1, <2>1, <3>1 DEF Longer, Order
    <2>2. CASE i = Len(queue_) + 1
      <3>1. Given' + i = Len(sent) + 1
        BY <1>1, <1>2, <2>2
      <3> QED
        BY <2>2, <3>1 DEF Longer
    <2> QED
      BY <1>2, <2>1, <2>2
  <1> QED
    BY <1>3, <1>4 DEF Order

\* What is reported goes behind what is queued, and behind what was sent.
LEMMA GrowsLonger ==
  ASSUME NEW x \in Items, queue_ \in Seq(Items), sent \in Seq(Items),
         queue_' = Append(queue_, x), sent' = Append(sent, x)
  PROVE  Longer(x)
  <1>1. /\ queue_' \in Seq(Items) /\ Len(queue_') = Len(queue_) + 1
        /\ \A i \in 1..Len(queue_) : queue_'[i] = queue_[i]
        /\ queue_'[Len(queue_) + 1] = x
    BY Appended
  <1>2. /\ sent' \in Seq(Items) /\ Len(sent') = Len(sent) + 1
        /\ \A i \in 1..Len(sent) : sent'[i] = sent[i]
        /\ sent'[Len(sent) + 1] = x
    BY Appended
  <1>3. Len(queue_) \in Nat /\ Len(sent) \in Nat
    OBVIOUS
  <1>4. queue_' # <<>>
    BY <1>1, <1>3
  <1> QED
    BY <1>1, <1>2, <1>3, <1>4 DEF Longer

\* addValue and addException keep the invariant.
LEMMA AddStep ==
  ASSUME IInv, NEW x \in Results \cup {Failure}, Add(x)
  PROVE  IInv'
  <1>1. x \in Items /\ x # End
    BY QueuedAwaiterAssumption DEF Items
  <1>2. /\ queue_ \in Seq(Items) /\ sent \in Seq(Items) /\ got \in Seq(Items)
        /\ queue_' = Append(queue_, x) /\ sent' = Append(sent, x)
        /\ UNCHANGED <<got, finished_, finishing>> /\ ~finished_ /\ ~finishing /\ ~nested
        /\ handle_' = FALSE /\ nested' = handle_
        /\ consumer' = (IF handle_ THEN "taking" ELSE consumer)
        /\ handle_ => consumer = "suspended"
    BY DEF IInv, TypeOK, Add, Resume, ProducerFree
  <1>3. Longer(x)
    BY <1>1, <1>2, GrowsLonger
  <1>4. TypeOK'
    BY <1>2, <1>3 DEF IInv, TypeOK, Longer
  <1>5. Order'
    <2>1. UNCHANGED got /\ (Failed' <=> Failed)
      BY <1>2 DEF Failed
    <2> QED
      BY <1>1, <1>3, <2>1, OrderKept DEF IInv
  <1>6. EndLast'
    BY <1>1, <1>2, <1>3 DEF IInv, EndLast, Longer
  <1>7. GivenSoFar'
    BY <1>2 DEF IInv, GivenSoFar, Failed
  <1>8. ResumedWithItem' /\ NoLostResume'
    BY <1>2, <1>3 DEF IInv, ResumedWithItem, NoLostResume, Longer
  <1> QED
    BY <1>4, <1>5, <1>6, <1>7, <1>8 DEF IInv

\* So does the first half of finish ...
LEMMA FinishStep ==
  ASSUME IInv, Finish
  PROVE  IInv'
  <1>1. End \in Items
    BY DEF Items
  <1>2. /\ queue_ \in Seq(Items) /\ sent \in Seq(Items)
        /\ queue_' = Append(queue_, End) /\ sent' = Append(sent, End)
        /\ UNCHANGED <<got, handle_, consumer, nested>>
        /\ ~finished_ /\ finished_' = TRUE /\ finishing' = TRUE
    BY DEF IInv, TypeOK, Finish
  <1>3. Longer(End)
    BY <1>1, <1>2, GrowsLonger
  <1>4. TypeOK'
    BY <1>2, <1>3 DEF IInv, TypeOK, Longer
  <1>5. Order'
    <2>1. UNCHANGED got /\ (Failed' <=> Failed)
      BY <1>2 DEF Failed
    <2> QED
      BY <1>1, <1>3, <2>1, OrderKept DEF IInv
  <1>6. EndLast'
    BY <1>2, <1>3 DEF IInv, EndLast, Longer
  <1>7. GivenSoFar'
    BY <1>2 DEF IInv, GivenSoFar, Failed
  <1>8. ResumedWithItem' /\ NoLostResume'
    BY <1>2, <1>3 DEF IInv, ResumedWithItem, NoLostResume, Longer
  <1> QED
    BY <1>4, <1>5, <1>6, <1>7, <1>8 DEF IInv

\* ... and the second.
LEMMA FinishResumeStep ==
  ASSUME IInv, FinishResume
  PROVE  IInv'
  <1> USE DEF IInv, FinishResume, Resume
  <1>1. UNCHANGED <<queue_, sent, got, finished_>> /\ finished_
    BY DEF EndLast
  <1>2. TypeOK'
    BY DEF TypeOK
  <1>3. Order' /\ GivenSoFar'
    BY <1>1 DEF Order, Given, GivenSoFar, Failed, TypeOK
  <1>4. EndLast'
    BY <1>1 DEF EndLast, TypeOK
  <1>5. ResumedWithItem' /\ NoLostResume'
    BY <1>1 DEF ResumedWithItem, NoLostResume, EndLast, TypeOK
  <1> QED
    BY <1>2, <1>3, <1>4, <1>5

\* await_resume takes the head of the queue, which is the next item of the stream.
LEMMA NextItem ==
  ASSUME IInv, AwaitResume
  PROVE  /\ Len(got) < Len(sent)
         /\ Head(queue_) = sent[Len(got) + 1]
         /\ Head(queue_) = queue_[1] /\ 1 \in 1..Len(queue_)
  BY DEF IInv, AwaitResume, Order, Given, Failed, TypeOK

LEMMA AwaitResumeStep ==
  ASSUME IInv, AwaitResume
  PROVE  IInv'
  <1> USE QueuedAwaiterAssumption DEF IInv
  <1>1. /\ queue_ \in Seq(Items) /\ got \in Seq(Items) /\ sent' = sent /\ sent \in Seq(Items)
        /\ queue_ # <<>> /\ queue_[1] \in Items /\ Head(queue_) = queue_[1]
        /\ UNCHANGED <<handle_, finished_, finishing, nested>> /\ consumer = "taking"
        /\ ~handle_ /\ handle_ \in BOOLEAN /\ finished_ \in BOOLEAN
        /\ finishing \in BOOLEAN /\ nested \in BOOLEAN
    BY DEF TypeOK, AwaitResume
  <1>2. /\ got' \in Seq(Items) /\ Len(got') = Len(got) + 1 /\ Len(got) \in Nat
        /\ \A i \in 1..Len(got) : got'[i] = got[i]
        /\ got'[Len(got) + 1] = queue_[1]
    <2>1. got' = Append(got, queue_[1])
      BY <1>1 DEF AwaitResume
    <2> QED
      BY <1>1, <2>1, Appended
  <1>3. CASE queue_[1] = Failure
    <2>1. queue_' = queue_ /\ consumer' = "failed"
      BY <1>1, <1>3 DEF Popped, AwaitResume
    <2>2. TypeOK'
      BY <1>1, <1>2, <2>1 DEF TypeOK
    <2>3. Order'
      BY <1>1, <1>2, <2>1 DEF Order, Given, Failed, TypeOK
    <2>4. EndLast' /\ GivenSoFar'
      BY <1>1, <1>2, <1>3, <2>1 DEF EndLast, GivenSoFar, Failed, TypeOK
    <2> QED
      BY <2>1, <2>2, <2>3, <2>4 DEF ResumedWithItem, NoLostResume
  <1>4. CASE queue_[1] # Failure
    <2>1. /\ queue_' \in Seq(Items) /\ Len(queue_) \in Nat
          /\ Len(queue_') = Len(queue_) - 1
          /\ \A i \in 1..Len(queue_') : queue_'[i] = queue_[i + 1]
      <3>1. queue_' = Tail(queue_)
        BY <1>1, <1>4 DEF Popped, AwaitResume
      <3> QED
        BY <1>1, <3>1
    <2>2. consumer' = IF queue_[1] = End THEN "ended" ELSE "user"
      BY <1>1, <1>4 DEF AwaitResume
    <2>3. TypeOK'
      BY <1>1, <1>2, <2>1, <2>2 DEF TypeOK
    <2>4. Order'
      <3>1. Given = Len(got) /\ Given' = Len(got) + 1 /\ Len(got) \in Nat
            /\ Len(queue_) \in Nat
        BY <1>1, <1>2, <2>2 DEF Given, Failed, TypeOK
      <3>2. \A i \in 1..Len(queue_') : /\ i + 1 \in 1..Len(queue_)
                                       /\ Given' + i = Given + (i + 1)
        BY <2>1, <3>1
      <3>3. \A i \in 1..Len(queue_') : sent'[Given' + i] = queue_'[i]
        BY <1>1, <2>1, <3>2 DEF Order
      <3>4. Len(sent') = Given' + Len(queue_')
        <4>1. Len(sent) = Given + Len(queue_)
          BY DEF Order
        <4> QED
          BY <1>1, <2>1, <3>1, <4>1
      <3> QED
        BY <3>3, <3>4 DEF Order
    <2>5. EndLast'
      <3>1. ~finished_ => queue_[1] # End
        BY <1>1 DEF EndLast
      <3>2. \A i \in 1..Len(queue_') : queue_'[i] = End => i = Len(queue_')
        BY <1>1, <2>1 DEF EndLast
      <3>3. finished_ /\ queue_[1] # End
              => queue_' # <<>> /\ queue_'[Len(queue_')] = End
        <4>1. ASSUME finished_, queue_[1] # End
              PROVE  queue_' # <<>> /\ queue_'[Len(queue_')] = End
          <5>1. queue_[Len(queue_)] = End
            BY <1>1, <4>1 DEF EndLast
          <5>2. Len(queue_) \in Nat /\ Len(queue_) # 1 /\ Len(queue_) # 0
            BY <1>1, <4>1, <5>1
          <5>3. Len(queue_') \in 1..Len(queue_') /\ queue_' # <<>>
            BY <2>1, <5>2
          <5>4. queue_'[Len(queue_')] = queue_[Len(queue_') + 1]
            BY <2>1, <5>3
          <5>5. Len(queue_') + 1 = Len(queue_)
            BY <2>1, <5>2
          <5> QED
            BY <5>1, <5>3, <5>4, <5>5
        <4> QED
          BY <4>1
      <3> QED
        BY <1>1, <2>1, <2>2, <3>1, <3>2, <3>3 DEF EndLast
    <2>6. GivenSoFar'
      BY <1>1, <1>2, <2>2 DEF GivenSoFar, Failed, TypeOK
    <2> QED
      BY <2>2, <2>3, <2>4, <2>5, <2>6 DEF ResumedWithItem, NoLostResume
  <1> QED
    BY <1>3, <1>4

\* The remaining steps move the coroutine only.
LEMMA OtherStep ==
  ASSUME IInv, AskNext \/ AskAfterFailure \/ AwaitSuspend \/ Leave \/ UNCHANGED vars
  PROVE  IInv'
  <1> USE DEF IInv
  <1>1. UNCHANGED <<queue_, sent, got, finished_, finishing>>
    BY DEF AskNext, AskAfterFailure, AwaitSuspend, Leave, vars
  <1>2. TypeOK'
    <2>1. CASE AskNext
      BY <2>1 DEF TypeOK, AskNext
    <2>2. CASE AwaitSuspend
      BY <2>2 DEF TypeOK, AwaitSuspend
    <2>3. CASE Leave
      BY <2>3 DEF TypeOK, Leave
    <2>4. CASE UNCHANGED vars
      BY <2>4 DEF TypeOK, vars
    <2>5. CASE AskAfterFailure
      BY <2>5 DEF TypeOK, AskAfterFailure
    <2> QED
      BY <2>1, <2>2, <2>3, <2>4, <2>5
  <1>3. /\ Failed' = Failed
        /\ (consumer' = "ended") = (consumer = "ended")
    BY DEF Failed, AskNext, AskAfterFailure, AwaitSuspend, Leave, vars
  <1>4. Order' /\ EndLast' /\ GivenSoFar'
    BY <1>1, <1>3 DEF Order, Given, Failed, EndLast, GivenSoFar
  <1>5. ResumedWithItem' /\ NoLostResume'
    BY <1>1 DEF ResumedWithItem, NoLostResume, AskNext, AskAfterFailure, AwaitSuspend, HasData, Leave,
           vars
  <1> QED
    BY <1>2, <1>4, <1>5

LEMMA InvStep == IInv /\ [Next]_vars => IInv'
  BY AddStep, FinishStep, FinishResumeStep, AwaitResumeStep, OtherStep
  DEF Next, Consume, Over

LEMMA Invariance == Spec => []IInv
  BY InvInit, InvStep, PTL DEF Spec

-----------------------------------------------------------------------------
(***************************************************************************)
(* The theorems about the queue                                            *)
(***************************************************************************)

\* The queue holds items and is only ever handed to a coroutine that is suspended in it.
THEOREM TypeCorrect == Spec => []TypeOK
  <1>1. IInv => TypeOK
    BY DEF IInv
  <1> QED
    BY <1>1, Invariance, PTL

\* The assertion in await_resume never fails: a resumed coroutine finds an item.
THEOREM NeverResumedForNothing == Spec => []ResumedWithItem
  <1>1. IInv => ResumedWithItem
    BY DEF IInv
  <1> QED
    BY <1>1, Invariance, PTL

\* No result slips past a coroutine that is deciding to suspend.
THEOREM NeverLeftSuspended == Spec => []NoLostResume
  <1>1. IInv => NoLostResume
    BY DEF IInv
  <1> QED
    BY <1>1, Invariance, PTL

\* Every step reports, asks for or delivers one item of the stream, in order, or
\* leaves the stream alone.
LEMMA StreamStep == IInv /\ [Next]_vars => [Stream!Next]_(Stream!vars)
  <1> SUFFICES ASSUME IInv, [Next]_vars PROVE [Stream!Next]_(Stream!vars)
    OBVIOUS
  <1> USE QueuedAwaiterAssumption
  <1> DEFINE asking == consumer \in {"suspending", "suspended", "taking"}
  <1>1. ASSUME NEW x \in Results \cup {Failure}, Add(x) PROVE Stream!Report(x)
    <2>1. ~Stream!Closed
      BY <1>1 DEF IInv, EndLast, TypeOK, Add, Stream!Closed
    <2>2. sent' = Append(sent, x) /\ got' = got /\ asking' = asking
      BY <1>1 DEF Add, Resume, IInv, TypeOK
    <2> QED
      BY <2>1, <2>2 DEF Stream!Report
  <1>2. ASSUME Finish PROVE Stream!Report(End)
    <2>1. ~Stream!Closed
      BY <1>2 DEF IInv, EndLast, TypeOK, Finish, Stream!Closed
    <2> QED
      BY <1>2, <2>1 DEF Finish, Stream!Report
  <1>3. ASSUME FinishResume PROVE UNCHANGED Stream!vars
    BY <1>3 DEF FinishResume, Resume, IInv, TypeOK, Stream!vars
  <1>4. ASSUME AskNext PROVE Stream!Ask
    <2>1. ~Stream!Ended
      BY <1>4 DEF AskNext, IInv, GivenSoFar, Failed, TypeOK, Stream!Ended
    <2> QED
      BY <1>4, <2>1 DEF AskNext, Stream!Ask
  <1>5. ASSUME AwaitSuspend PROVE UNCHANGED Stream!vars
    BY <1>5 DEF AwaitSuspend, Stream!vars
  <1>6. ASSUME AwaitResume PROVE Stream!Deliver
    <2>1. Len(got) < Len(sent) /\ Head(queue_) = sent[Len(got) + 1]
      BY <1>6, NextItem
    <2>2. asking /\ ~asking'
      BY <1>6 DEF AwaitResume
    <2> QED
      BY <1>6, <2>1, <2>2 DEF AwaitResume, Stream!Deliver
  <1>7. ASSUME AskAfterFailure \/ Leave \/ Over \/ UNCHANGED vars PROVE UNCHANGED Stream!vars
    BY <1>7 DEF AskAfterFailure, Leave, Over, vars, Stream!vars
  <1> QED
    BY <1>1, <1>2, <1>3, <1>4, <1>5, <1>6, <1>7 DEF Next, Consume, Stream!Next

\* The safety part of StreamSpec: the generator implements the stream of results.
THEOREM ImplementsStream == Spec => Stream!Init /\ [][Stream!Next]_(Stream!vars)
  <1>1. Init => Stream!Init
    BY DEF Init, Stream!Init
  <1> QED
    BY <1>1, Invariance, StreamStep, PTL DEF Spec
=============================================================================
