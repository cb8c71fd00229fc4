-------------------------- MODULE LifecycleProofs --------------------------
(***************************************************************************)
(* No service is disconnected twice or outside of the loop, no destroyed   *)
(* one is reached and the registry's mutex is not locked twice, for any    *)
(* number of services, as long as disconnect callbacks leave services      *)
(* alone once shutdown() was called (CallbacksCare).                       *)
(*                                                                         *)
(* Neither NoFault nor RegistryComplete is inductive.  What makes them so  *)
(* is how handle, connection and the calls on GNUnet's stack go together   *)
(* (Connected, Callbacks, Destructors), what is queued (Queued), the shape *)
(* of the stack while shutdown()'s closure runs (StopShape) and that the   *)
(* loop of removeAllServices still has every handle before it (TodoLeft).  *)
(***************************************************************************)
EXTENDS Lifecycle, SequenceTheorems, TLAPS

InCallback(s) == \E i \in DOMAIN stack : stack[i] = Frame("callback", s)

\* A handle is registered, and its connection is open unless the disconnection is
\* waiting for the callback to return.
Connected ==
    \A s \in Services : handle[s] =>
        /\ s \in g_services /\ object[s] # "none" /\ loop
        /\ connection[s] = "open" \/ (connection[s] = "closing" /\ InCallback(s))

\* A service is in one disconnect callback at most, and has its handle until it returns;
\* only removeAllServices disconnects a service that lives on.
Callbacks ==
    \A i \in DOMAIN stack : stack[i].op = "callback" =>
        /\ stack[i].s \in Calling
        /\ handle[stack[i].s] /\ connection[stack[i].s] = "closing"
        /\ object[stack[i].s] = "live" => locked
        /\ \A j \in DOMAIN stack : stack[j] = stack[i] => j = i

\* A service is in one destructor at most, which has cleared the handle unless the
\* callback has yet to return.
Destructors ==
    \A i \in DOMAIN stack : stack[i].op = "dtor" =>
        /\ object[stack[i].s] = "dying"
        /\ \A j \in DOMAIN stack : stack[j] = stack[i] => j = i
        /\ handle[stack[i].s] =>
               \E j \in DOMAIN stack : i < j /\ stack[j] = Frame("callback", stack[i].s)

\* What is queued is the closure of shutdown(), or a disconnection yet to be made.
Queued ==
    \A i \in DOMAIN ready :
        IF ready[i] = Stop THEN ~g_running
        ELSE ready[i] \in Deferred /\ connection[ready[i]] = "closing"

Registered == \A s \in g_services : object[s] # "none"

\* shutdown()'s closure is called from the loop, once, and nothing but disconnect
\* callbacks runs under the mutex; outside of the loop there are destructors at most.
StopShape ==
    /\ \A i \in DOMAIN stack : stack[i].op \in {"stop", "all"} =>
           i = 1 /\ ~g_running /\ \A j \in DOMAIN ready : ready[j] # Stop
    /\ locked <=> stack # <<>> /\ stack[1].op = "all"
    /\ locked => \A i \in DOMAIN stack : i # 1 => stack[i].op = "callback"
    /\ ~loop => ready = <<>> /\ \A i \in DOMAIN stack : stack[i].op = "dtor"

\* removeAllServices misses nobody.
TodoLeft ==
    locked => /\ todo \subseteq g_services
              /\ \A s \in Services : handle[s] => s \in todo \/ InCallback(s)

IInv ==
    /\ TypeOK /\ NoFault
    /\ Connected /\ Callbacks /\ Destructors /\ Queued /\ Registered
    /\ StopShape /\ TodoLeft

-----------------------------------------------------------------------------
(***************************************************************************)
(* The stack and the ready list                                            *)
(***************************************************************************)

\* A call is pushed.
LEMMA PushFacts ==
    ASSUME NEW stk \in Seq(Frames), NEW f \in Frames
    PROVE  /\ Append(stk, f) \in Seq(Frames)
           /\ Len(Append(stk, f)) = Len(stk) + 1
           /\ DOMAIN Append(stk, f) = 1..(Len(stk) + 1)
           /\ \A i \in 1..Len(stk) : Append(stk, f)[i] = stk[i]
           /\ Append(stk, f)[Len(stk) + 1] = f
OBVIOUS

\* A call returns.
LEMMA PopFacts ==
    ASSUME NEW stk \in Seq(Frames), stk # <<>>
    PROVE  LET popped == SubSeq(stk, 1, Len(stk) - 1)
           IN  /\ popped \in Seq(Frames)
               /\ Len(stk) \in Nat \ {0}
               /\ DOMAIN popped = 1..(Len(stk) - 1)
               /\ \A i \in 1..(Len(stk) - 1) : popped[i] = stk[i]
               /\ popped # <<>> <=> Len(stk) # 1
<1> DEFINE popped == SubSeq(stk, 1, Len(stk) - 1)
           last == Len(stk) - 1
<1>1. Len(stk) \in Nat /\ Len(stk) # 0 /\ last \in Nat /\ last = Len(stk) - 1
  OBVIOUS
<1>2. \A i \in 1..last : stk[i] \in Frames
  BY <1>1
<1> HIDE DEF last
<1>3. /\ SubSeq(stk, 1, last) \in Seq(Frames)
      /\ Len(SubSeq(stk, 1, last)) = IF 1 <= last THEN last - 1 + 1 ELSE 0
      /\ \A i \in 1..(last - 1 + 1) : SubSeq(stk, 1, last)[i] = stk[1 + i - 1]
  BY <1>1, <1>2, SubSeqProperties
<1>4. popped = SubSeq(stk, 1, last)
  BY DEF last
<1> HIDE DEF popped
<1>5. Len(popped) = last
  BY <1>1, <1>3, <1>4
<1>6. \A i \in 1..last : popped[i] = stk[i]
  <2>1. \A i \in 1..last : 1 + i - 1 = i /\ i \in 1..(last - 1 + 1)
    BY <1>1
  <2> QED
    BY <1>3, <1>4, <2>1
<1>7. DOMAIN popped = 1..last
  BY <1>3, <1>4, <1>5, LenProperties
<1>8. popped # <<>> <=> Len(stk) # 1
  <2>1. popped \in Seq(Frames)
    BY <1>3, <1>4
  <2>2. popped # <<>> <=> Len(popped) # 0
    BY <2>1
  <2>3. last # 0 <=> Len(stk) # 1
    BY <1>1
  <2> QED
    BY <1>5, <2>2, <2>3
<1> QED
  BY <1>1, <1>3, <1>4, <1>6, <1>7, <1>8 DEF popped

\* Frames carry what their kind says.
LEMMA StackFacts ==
    ASSUME TypeOK
    PROVE  /\ stack \in Seq(Frames)
           /\ DOMAIN stack = 1..Len(stack) /\ Len(stack) \in Nat
           /\ \A i \in 1..Len(stack) :
                 /\ stack[i] \in Frames
                 /\ stack[i] = Frame(stack[i].op, stack[i].s)
                 /\ stack[i].op \in {"user", "stop", "all", "callback", "dtor"}
                 /\ stack[i].op \in {"callback", "dtor"} => stack[i].s \in Services
           /\ stack # <<>> <=> Len(stack) # 0
<1>1. \A f \in Frames :
          /\ f = Frame(f.op, f.s)
          /\ f.op \in {"user", "stop", "all", "callback", "dtor"}
          /\ f.op \in {"callback", "dtor"} => f.s \in Services
  BY DEF Frames, Frame
<1>2. stack \in Seq(Frames)
  BY DEF TypeOK
<1>3. /\ DOMAIN stack = 1..Len(stack) /\ Len(stack) \in Nat
      /\ \A i \in 1..Len(stack) : stack[i] \in Frames
      /\ stack # <<>> <=> Len(stack) # 0
  BY <1>2
<1> QED
  BY <1>1, <1>2, <1>3

\* The frames that are pushed.
LEMMA FrameFacts ==
    /\ \A op \in {"user", "stop", "all"} : Frame(op, Stop) \in Frames
    /\ \A op \in {"callback", "dtor"}, s \in Services : Frame(op, s) \in Frames
    /\ \A op, s : Frame(op, s).op = op /\ Frame(op, s).s = s
BY DEF Frame, Frames

\* Something is queued at the end of the ready list.
LEMMA EnqueueFacts ==
    ASSUME TypeOK, NEW e \in Services \cup {Stop}
    PROVE  /\ Append(ready, e) \in Seq(Services \cup {Stop})
           /\ DOMAIN ready = 1..Len(ready) /\ Len(ready) \in Nat
           /\ DOMAIN Append(ready, e) = 1..(Len(ready) + 1)
           /\ \A i \in 1..Len(ready) : Append(ready, e)[i] = ready[i]
           /\ Append(ready, e)[Len(ready) + 1] = e
BY DEF TypeOK

\* The first of the ready list is taken.
LEMMA DequeueFacts ==
    ASSUME TypeOK, ready # <<>>
    PROVE  /\ Tail(ready) \in Seq(Services \cup {Stop})
           /\ DOMAIN ready = 1..Len(ready) /\ Len(ready) \in Nat \ {0}
           /\ Head(ready) = ready[1] /\ ready[1] \in Services \cup {Stop}
           /\ DOMAIN Tail(ready) = 1..(Len(ready) - 1)
           /\ \A i \in 1..(Len(ready) - 1) : Tail(ready)[i] = ready[i + 1]
BY DEF TypeOK

\* User code that touches services runs in the loop, without the mutex.
LEMMA TouchesFacts ==
    ASSUME IInv, CallbacksCare, Touches
    PROVE  loop /\ ~locked /\ ~fault
<1>1. /\ stack # <<>> /\ ~fault /\ Top.op \in {"user", "callback"}
      /\ Top.op = "callback" => g_running
  BY DEF Touches, At
<1>2. /\ Len(stack) \in 1..Len(stack) /\ 1 \in 1..Len(stack)
      /\ DOMAIN stack = 1..Len(stack)
  <2>1. DOMAIN stack = 1..Len(stack) /\ Len(stack) \in Nat /\ Len(stack) # 0
    BY <1>1, StackFacts DEF IInv
  <2> QED
    BY <2>1
<1>3. loop
  BY <1>1, <1>2 DEF IInv, StopShape, Top
<1>4. ASSUME locked PROVE FALSE
  <2>1. ~g_running /\ stack[1].op = "all"
    BY <1>2, <1>4 DEF IInv, StopShape
  <2>2. Top.op = "user" /\ Len(stack) # 1 => FALSE
    BY <1>2, <1>4 DEF IInv, StopShape, Top
  <2>3. Top.op = "user" /\ Len(stack) = 1 => FALSE
    BY <2>1 DEF Top
  <2> QED
    BY <1>1, <2>1, <2>2, <2>3
<1>5. ~locked
  BY <1>4
<1> QED
  BY <1>1, <1>3, <1>5

-----------------------------------------------------------------------------
(***************************************************************************)
(* run and GNUnet's loop                                                   *)
(***************************************************************************)

LEMMA InitInv == Init => IInv
<1> SUFFICES ASSUME Init PROVE IInv
  OBVIOUS
<1>1. TypeOK
  <2>1. stack \in Seq(Frames) /\ ready \in Seq(Services \cup {Stop})
    BY EmptySeq DEF Init
  <2>2. 0 \in 0..MaxRuns
    BY LifecycleAssumption
  <2> QED
    BY <2>1, <2>2 DEF Init, TypeOK
<1>2. NoFault /\ Connected /\ Callbacks /\ Destructors /\ Queued /\ Registered
  BY DEF Init, NoFault, QueuedOnce, Connected, Callbacks, Destructors, Queued,
     Registered
<1>3. StopShape /\ TodoLeft
  BY DEF Init, StopShape, TodoLeft
<1> QED
  BY <1>1, <1>2, <1>3 DEF IInv

\* User code is called from the loop, or starts it.
LEMMA EnterUserInv ==
    ASSUME IInv, stack = <<>>, stack' = <<Frame("user", Stop)>>, loop',
           g_running' \in BOOLEAN, g_running' = g_running \/ ready = <<>>,
           running' = running, asked' \in BOOLEAN,
           tasks' \subseteq {"fds", "shutdown"}, started' \in 0..MaxRuns,
           UNCHANGED <<object, handle, connection, g_services, locked, todo, ready,
                       fault>>
    PROVE  IInv'
<1>1. /\ DOMAIN stack = {} /\ DOMAIN stack' = {1}
      /\ stack'[1].op = "user" /\ stack'[1] # Frame("callback", Stop)
      /\ stack' \in Seq(Frames)
      /\ \A s : stack'[1] # Frame("callback", s)
  BY DEF Frame, Frames
<1>2. loop' = TRUE
  BY DEF IInv
<1>3. TypeOK'
  BY <1>1, <1>2 DEF IInv, TypeOK
<1>4. NoFault' /\ Registered'
  BY DEF IInv, NoFault, QueuedOnce, Registered
<1>5. Connected' /\ Callbacks' /\ Destructors'
  BY <1>1 DEF IInv, Connected, InCallback, Callbacks, Destructors
<1>6. Queued'
  BY DEF IInv, Queued
<1>7. ~locked
  BY DEF IInv, StopShape
<1>8. StopShape' /\ TodoLeft'
  BY <1>1, <1>7 DEF IInv, StopShape, TodoLeft
<1> QED
  BY <1>3, <1>4, <1>5, <1>6, <1>8 DEF IInv

LEMMA RunInv == IInv /\ Run => IInv'
<1> SUFFICES ASSUME IInv, Run PROVE IInv'
  OBVIOUS
<1>1. started' \in 0..MaxRuns
  BY LifecycleAssumption DEF IInv, TypeOK, Run
<1>2. ready = <<>>
  BY DEF IInv, StopShape, Run
<1> QED
  BY <1>1, <1>2, EnterUserInv DEF Run, IInv, TypeOK

LEMMA CallbackInv == IInv /\ Callback => IInv'
BY EnterUserInv DEF Callback, Idle, IInv, TypeOK

\* Nothing that the invariant relates changes.
LEMMA QuietInv ==
    ASSUME IInv, asked' \in BOOLEAN, tasks' \subseteq {"fds", "shutdown"},
           UNCHANGED <<object, handle, connection, g_services, locked, todo, stack, ready,
                       g_running, running, loop, started, fault>>
    PROVE  IInv'
BY DEF IInv, TypeOK, NoFault, QueuedOnce, Connected, InCallback, Callbacks, Destructors,
   Queued, Registered, StopShape, TodoLeft

LEMMA SignalInv == IInv /\ Signal => IInv'
BY QuietInv DEF Signal, IInv, TypeOK

\* shutdown() queues its closure.
LEMMA AskStopInv ==
    ASSUME IInv, AskStop, loop, tasks' \subseteq {"fds", "shutdown"},
           UNCHANGED <<object, handle, connection, g_services, locked, todo, stack,
                       running, asked, loop, started, fault>>
    PROVE  IInv'
<1>1. CASE ~g_running
  BY <1>1, QuietInv DEF AskStop, IInv, TypeOK
<1>2. CASE g_running
  <2>1. /\ ready' = Append(ready, Stop) /\ g_running' = FALSE
    BY <1>2 DEF AskStop
  <2>2. /\ ready' \in Seq(Services \cup {Stop})
        /\ DOMAIN ready = 1..Len(ready) /\ Len(ready) \in Nat
        /\ DOMAIN ready' = 1..(Len(ready) + 1)
        /\ \A i \in 1..Len(ready) : ready'[i] = ready[i]
        /\ ready'[Len(ready) + 1] = Stop
    BY <2>1, EnqueueFacts DEF IInv
  <2>3. \A i \in DOMAIN ready : ready[i] # Stop
    BY <1>2 DEF IInv, Queued
  <2>4. \A i \in DOMAIN ready' : i \in DOMAIN ready \/ i = Len(ready) + 1
    BY <2>2
  <2>5. TypeOK'
    BY <2>1, <2>2 DEF IInv, TypeOK
  <2>6. NoFault'
    BY <2>2, <2>3, <2>4 DEF IInv, NoFault, QueuedOnce
  <2>7. Connected' /\ Callbacks' /\ Destructors' /\ Registered' /\ TodoLeft'
    BY DEF IInv, Connected, InCallback, Callbacks, Destructors, Registered, TodoLeft
  <2>8. Queued'
    BY <2>1, <2>2, <2>3, <2>4 DEF IInv, Queued
  <2>9. StopShape'
    BY <1>2 DEF IInv, StopShape
  <2> QED
    BY <2>5, <2>6, <2>7, <2>8, <2>9 DEF IInv
<1> QED
  BY <1>1, <1>2

LEMMA ShutdownInv == IInv /\ Shutdown => IInv'
<1> SUFFICES ASSUME IInv, Shutdown PROVE IInv'
  OBVIOUS
<1>1. /\ stack # <<>>
      /\ Top.op \in {"user", "callback"}
  BY DEF Shutdown, InUser, At
<1>2. loop
  <2>1. DOMAIN stack = 1..Len(stack) /\ Len(stack) \in Nat /\ Len(stack) # 0
    BY <1>1, StackFacts DEF IInv
  <2>2. Len(stack) \in DOMAIN stack
    BY <2>1
  <2> QED
    BY <1>1, <2>2 DEF IInv, StopShape, Top
<1> QED
  BY <1>2, AskStopInv DEF Shutdown, IInv, TypeOK

LEMMA ShutdownTaskInv ==
    ASSUME IInv, NEW t \in tasks, ShutdownTask(t)
    PROVE  IInv'
<1>1. CASE t = "shutdown"
  BY <1>1, AskStopInv DEF ShutdownTask, Idle, IInv, TypeOK
<1>2. CASE t # "shutdown"
  BY <1>2, QuietInv DEF ShutdownTask, IInv, TypeOK
<1> QED
  BY <1>1, <1>2

\* What is taken from the ready list is not there any more, and the rest keeps its order.
LEMMA TakenFacts ==
    ASSUME IInv, ready # <<>>, ready' = Tail(ready)
    PROVE  /\ ready' \in Seq(Services \cup {Stop})
           /\ Head(ready) = ready[1] /\ 1 \in DOMAIN ready
           /\ Head(ready) \in Services \cup {Stop}
           /\ \A i \in DOMAIN ready' : ready'[i] # Head(ready)
           /\ \A i \in DOMAIN ready' : \E j \in DOMAIN ready : ready'[i] = ready[j]
           /\ QueuedOnce'
<1>1. /\ Tail(ready) \in Seq(Services \cup {Stop})
      /\ DOMAIN ready = 1..Len(ready) /\ Len(ready) \in Nat \ {0}
      /\ Head(ready) = ready[1] /\ ready[1] \in Services \cup {Stop}
      /\ DOMAIN Tail(ready) = 1..(Len(ready) - 1)
      /\ \A i \in 1..(Len(ready) - 1) : Tail(ready)[i] = ready[i + 1]
  BY DequeueFacts DEF IInv
<1>2. \A i \in 1..(Len(ready) - 1) :
          i + 1 \in 1..Len(ready) /\ i + 1 # 1 /\ i \in Nat
  BY <1>1
<1>3. 1 \in 1..Len(ready)
  BY <1>1
<1>4. \A i, j \in 1..Len(ready) : ready[i] = ready[j] => i = j
  BY <1>1 DEF IInv, NoFault, QueuedOnce
<1>5. \A i \in DOMAIN ready' : i \in 1..(Len(ready) - 1) /\ ready'[i] = ready[i + 1]
  BY <1>1
<1>6. \A i \in DOMAIN ready' : ready'[i] # Head(ready)
  BY <1>1, <1>2, <1>3, <1>4, <1>5
<1>7. QueuedOnce'
  BY <1>2, <1>4, <1>5 DEF QueuedOnce
<1> QED
  BY <1>1, <1>2, <1>3, <1>5, <1>6, <1>7

LEMMA DisconnectInv == IInv /\ Disconnect => IInv'
<1> SUFFICES ASSUME IInv, Disconnect PROVE IInv'
  OBVIOUS
<1> DEFINE s0 == Head(ready)
<1>1. /\ loop /\ stack = <<>> /\ ~fault /\ ready # <<>> /\ s0 # Stop
      /\ ready' = Tail(ready)
      /\ connection' = [connection EXCEPT ![s0] = "none"]
      /\ fault' = (connection[s0] = "none")
      /\ UNCHANGED <<object, handle, g_services, locked, todo, stack, g_running,
                     running, asked, tasks, loop, started>>
  BY DEF Disconnect, Idle
<1>2. /\ ready' \in Seq(Services \cup {Stop})
      /\ s0 = ready[1] /\ 1 \in DOMAIN ready /\ s0 \in Services \cup {Stop}
      /\ \A i \in DOMAIN ready' : ready'[i] # s0
      /\ \A i \in DOMAIN ready' : \E j \in DOMAIN ready : ready'[i] = ready[j]
      /\ QueuedOnce'
  BY <1>1, TakenFacts
<1> HIDE DEF s0
<1>3. s0 \in Services /\ s0 \in Deferred /\ connection[s0] = "closing"
  BY <1>1, <1>2 DEF IInv, Queued
<1>4. DOMAIN stack = {}
  BY <1>1
<1>5. ~handle[s0] /\ ~locked
  BY <1>1, <1>3, <1>4 DEF IInv, Connected, InCallback, StopShape
<1>6. /\ connection' \in [Services -> {"none", "open", "closing"}]
      /\ \A s \in Services : s # s0 => connection'[s] = connection[s]
      /\ fault' = FALSE
  BY <1>1, <1>3 DEF IInv, TypeOK
<1>7. TypeOK'
  BY <1>1, <1>2, <1>6 DEF IInv, TypeOK
<1>8. NoFault' /\ Registered'
  BY <1>1, <1>2, <1>6 DEF IInv, NoFault, Registered
<1>9. Connected' /\ Callbacks' /\ Destructors'
  BY <1>1, <1>4, <1>5, <1>6 DEF IInv, Connected, InCallback, Callbacks, Destructors
<1>10. Queued'
  BY <1>1, <1>2, <1>6, LifecycleAssumption DEF IInv, Queued
<1>11. StopShape' /\ TodoLeft'
  BY <1>1, <1>4, <1>5 DEF IInv, StopShape, TodoLeft
<1> QED
  BY <1>7, <1>8, <1>9, <1>10, <1>11 DEF IInv

LEMMA ExitInv == IInv /\ Exit => IInv'
<1> SUFFICES ASSUME IInv, Exit PROVE IInv'
  OBVIOUS
<1>1. /\ stack = <<>> /\ ready = <<>>
      /\ \A s \in Services : connection[s] = "none"
      /\ loop' = FALSE
      /\ UNCHANGED <<object, handle, connection, g_services, locked, todo, stack, ready,
                     g_running, running, asked, tasks, started, fault>>
  BY DEF Exit, Idle
<1>2. DOMAIN stack = {}
  BY <1>1
<1>3. \A s \in Services : ~handle[s]
  BY <1>1 DEF IInv, Connected
<1>4. TypeOK' /\ NoFault' /\ Registered' /\ Queued'
  BY <1>1 DEF IInv, TypeOK, NoFault, QueuedOnce, Registered, Queued
<1>5. Connected' /\ Callbacks' /\ Destructors'
  BY <1>1, <1>2, <1>3 DEF Connected, Callbacks, Destructors
<1>6. StopShape' /\ TodoLeft'
  BY <1>1, <1>2, <1>3 DEF IInv, StopShape, TodoLeft
<1> QED
  BY <1>4, <1>5, <1>6 DEF IInv

-----------------------------------------------------------------------------
(***************************************************************************)
(* Services                                                                *)
(***************************************************************************)

LEMMA ConstructInv ==
    ASSUME IInv, CallbacksCare, NEW s0 \in Services, Construct(s0)
    PROVE  IInv'
<1>1. loop /\ ~locked /\ ~fault
  BY TouchesFacts DEF Construct
<1>2. /\ object[s0] = "none" /\ connection[s0] = "none"
      /\ object' = [object EXCEPT ![s0] = "live"]
      /\ handle' = [handle EXCEPT ![s0] = TRUE]
      /\ connection' = [connection EXCEPT ![s0] = "open"]
      /\ g_services' = g_services \cup {s0}
      /\ fault' = locked
      /\ UNCHANGED <<locked, todo, stack, ready, g_running, running, asked, tasks, loop,
                     started>>
  BY DEF Construct
<1>3. /\ object' \in [Services -> {"none", "live", "dying"}]
      /\ handle' \in [Services -> BOOLEAN]
      /\ connection' \in [Services -> {"none", "open", "closing"}]
      /\ object'[s0] = "live" /\ handle'[s0] /\ connection'[s0] = "open"
      /\ \A s \in Services : s # s0 =>
            object'[s] = object[s] /\ handle'[s] = handle[s]
            /\ connection'[s] = connection[s]
      /\ fault' = FALSE
  BY <1>1, <1>2 DEF IInv, TypeOK
<1>4. \A i \in DOMAIN stack : stack[i].op \in {"callback", "dtor"} =>
          stack[i].s \in Services /\ stack[i].s # s0
  BY <1>2, StackFacts DEF IInv, Callbacks, Destructors
<1>5. \A i \in DOMAIN ready : ready[i] # s0
  BY <1>2, LifecycleAssumption DEF IInv, Queued
<1>6. \A i \in DOMAIN ready : ready[i] \in Services \cup {Stop}
  BY DEF IInv, TypeOK
<1>7. TypeOK'
  BY <1>2, <1>3 DEF IInv, TypeOK
<1>8. NoFault' /\ Registered'
  BY <1>2, <1>3 DEF IInv, TypeOK, NoFault, QueuedOnce, Registered
<1>9. Connected'
  BY <1>1, <1>2, <1>3 DEF IInv, Connected, InCallback
<1>10. Callbacks'
  BY <1>2, <1>3, <1>4 DEF IInv, Callbacks
<1>11. Destructors'
  BY <1>2, <1>3, <1>4 DEF IInv, Destructors
<1>12. Queued'
  BY <1>2, <1>3, <1>5, <1>6 DEF IInv, Queued
<1>13. StopShape' /\ TodoLeft'
  BY <1>1, <1>2 DEF IInv, StopShape, TodoLeft
<1> QED
  BY <1>7, <1>8, <1>9, <1>10, <1>11, <1>12, <1>13 DEF IInv

\* What remains of the stack when its innermost call returns.
LEMMA ReturnFacts ==
    ASSUME IInv, stack # <<>>, stack' = Popped
    PROVE  /\ stack' \in Seq(Frames)
           /\ DOMAIN stack = 1..Len(stack) /\ Len(stack) \in Nat \ {0}
           /\ DOMAIN stack' = 1..(Len(stack) - 1)
           /\ \A i \in DOMAIN stack' :
                 i \in DOMAIN stack /\ i # Len(stack) /\ stack'[i] = stack[i]
           /\ \A i \in DOMAIN stack : i = Len(stack) \/ i \in DOMAIN stack'
           /\ Len(stack) \in DOMAIN stack /\ Top = stack[Len(stack)]
           /\ Top = Frame(Top.op, Top.s)
           /\ Top.op \in {"callback", "dtor"} => Top.s \in Services
           /\ stack' # <<>> <=> Len(stack) # 1
           /\ \A i \in DOMAIN stack : stack[i] = Frame(stack[i].op, stack[i].s)
           /\ \A i \in DOMAIN stack :
                 stack[i].op \in {"callback", "dtor"} => stack[i].s \in Services
<1>1. /\ stack' \in Seq(Frames)
      /\ Len(stack) \in Nat \ {0}
      /\ DOMAIN stack' = 1..(Len(stack) - 1)
      /\ \A i \in 1..(Len(stack) - 1) : stack'[i] = stack[i]
      /\ stack' # <<>> <=> Len(stack) # 1
  BY PopFacts DEF IInv, TypeOK, Popped
<1>2. /\ DOMAIN stack = 1..Len(stack)
      /\ \A i \in DOMAIN stack :
            /\ stack[i] = Frame(stack[i].op, stack[i].s)
            /\ stack[i].op \in {"callback", "dtor"} => stack[i].s \in Services
  BY StackFacts DEF IInv
<1>3. /\ \A i \in DOMAIN stack' : i \in DOMAIN stack /\ i # Len(stack)
      /\ \A i \in DOMAIN stack : i = Len(stack) \/ i \in DOMAIN stack'
      /\ Len(stack) \in DOMAIN stack
  BY <1>1, <1>2
<1> QED
  BY <1>1, <1>2, <1>3 DEF Top

\* The shape of the stack survives a return from anything but removeAllServices.
LEMMA ReturnShape ==
    ASSUME IInv, stack # <<>>, stack' = Popped, Top.op # "all",
           UNCHANGED <<ready, g_running, locked, loop>>
    PROVE  StopShape'
<1>1. /\ DOMAIN stack = 1..Len(stack) /\ Len(stack) \in Nat \ {0}
      /\ DOMAIN stack' = 1..(Len(stack) - 1)
      /\ \A i \in DOMAIN stack' :
            i \in DOMAIN stack /\ i # Len(stack) /\ stack'[i] = stack[i]
      /\ Top = stack[Len(stack)]
      /\ stack' # <<>> <=> Len(stack) # 1
  BY ReturnFacts
<1>2. \A i \in DOMAIN stack' : stack'[i].op \in {"stop", "all"} =>
          i = 1 /\ ~g_running' /\ \A j \in DOMAIN ready' : ready'[j] # Stop
  BY <1>1 DEF IInv, StopShape
<1>3. locked' <=> stack' # <<>> /\ stack'[1].op = "all"
  <2>1. CASE Len(stack) = 1
    <3>1. ~locked
      BY <1>1, <2>1 DEF IInv, StopShape
    <3> QED
      BY <1>1, <2>1, <3>1
  <2>2. CASE Len(stack) # 1
    <3>1. 1 \in DOMAIN stack'
      BY <1>1, <2>2
    <3>2. stack'[1] = stack[1]
      BY <1>1, <3>1
    <3> QED
      BY <1>1, <2>2, <3>2 DEF IInv, StopShape
  <2> QED
    BY <2>1, <2>2
<1>4. locked' => \A i \in DOMAIN stack' : i # 1 => stack'[i].op = "callback"
  BY <1>1 DEF IInv, StopShape
<1>5. ~loop' => ready' = <<>> /\ \A i \in DOMAIN stack' : stack'[i].op = "dtor"
  BY <1>1 DEF IInv, StopShape
<1> QED
  BY <1>2, <1>3, <1>4, <1>5 DEF StopShape

LEMMA UserReturnsInv == IInv /\ UserReturns => IInv'
<1> SUFFICES ASSUME IInv, UserReturns PROVE IInv'
  OBVIOUS
<1>1. /\ stack # <<>> /\ Top.op = "user" /\ stack' = Popped
      /\ UNCHANGED <<object, handle, connection, g_services, locked, todo, ready,
                     g_running, running, asked, tasks, loop, started, fault>>
  BY DEF UserReturns, At
<1>2. /\ stack' \in Seq(Frames)
      /\ \A i \in DOMAIN stack' :
            i \in DOMAIN stack /\ i # Len(stack) /\ stack'[i] = stack[i]
      /\ \A i \in DOMAIN stack : i = Len(stack) \/ i \in DOMAIN stack'
      /\ Top = stack[Len(stack)]
  BY <1>1, ReturnFacts
<1>3. \A s : Frame("callback", s) # Top
  BY <1>1 DEF Frame
<1>4. \A s : InCallback(s)' <=> InCallback(s)
  BY <1>2, <1>3 DEF InCallback
<1>5. TypeOK' /\ NoFault' /\ Registered' /\ Queued'
  BY <1>1, <1>2 DEF IInv, TypeOK, NoFault, QueuedOnce, Registered, Queued
<1>6. Connected' /\ TodoLeft'
  BY <1>1, <1>4 DEF IInv, Connected, TodoLeft
<1>7. Callbacks'
  BY <1>1, <1>2 DEF IInv, Callbacks
<1>8. Destructors'
  BY <1>1, <1>2, <1>3 DEF IInv, Destructors
<1>9. StopShape'
  BY <1>1, ReturnShape
<1> QED
  BY <1>5, <1>6, <1>7, <1>8, <1>9 DEF IInv

LEMMA CallbackReturnsInv == IInv /\ CallbackReturns => IInv'
<1> SUFFICES ASSUME IInv, CallbackReturns PROVE IInv'
  OBVIOUS
<1> DEFINE s0 == Top.s
<1>1. /\ stack # <<>> /\ Top.op = "callback" /\ stack' = Popped
      /\ connection' = [connection EXCEPT ![s0] = "none"]
      /\ handle' = [handle EXCEPT ![s0] = FALSE]
      /\ UNCHANGED <<object, g_services, locked, todo, ready, g_running, running, asked,
                     tasks, loop, started, fault>>
  BY DEF CallbackReturns, At, Closed
<1>2. /\ stack' \in Seq(Frames)
      /\ \A i \in DOMAIN stack' :
            i \in DOMAIN stack /\ i # Len(stack) /\ stack'[i] = stack[i]
      /\ \A i \in DOMAIN stack : i = Len(stack) \/ i \in DOMAIN stack'
      /\ Top = stack[Len(stack)] /\ Len(stack) \in DOMAIN stack
      /\ Top = Frame(Top.op, Top.s)
      /\ Top.op = "callback" => s0 \in Services
      /\ \A i \in DOMAIN stack : stack[i] = Frame(stack[i].op, stack[i].s)
      /\ \A i \in DOMAIN stack :
            stack[i].op \in {"callback", "dtor"} => stack[i].s \in Services
  BY <1>1, ReturnFacts
<1> HIDE DEF s0
<1>3. /\ Top = Frame("callback", s0) /\ s0 \in Services
      /\ \A s : s # s0 => Frame("callback", s) # Top
      /\ \A s : Frame("callback", s).op = "callback" /\ Frame("callback", s).s = s
  BY <1>1, <1>2, FrameFacts DEF s0
<1>4. s0 \in Calling /\ connection[s0] = "closing"
  BY <1>1, <1>2 DEF IInv, Callbacks, s0
<1>5. \A i \in DOMAIN stack' : stack'[i] # Frame("callback", s0)
  <2>1. \A j \in DOMAIN stack : stack[j] = stack[Len(stack)] => j = Len(stack)
    BY <1>1, <1>2 DEF IInv, Callbacks
  <2> QED
    BY <1>2, <1>3, <2>1
<1>6. \A s : InCallback(s)' <=> InCallback(s) /\ s # s0
  BY <1>2, <1>3, <1>5 DEF InCallback
<1>7. /\ connection' \in [Services -> {"none", "open", "closing"}]
      /\ handle' \in [Services -> BOOLEAN]
      /\ ~handle'[s0]
      /\ \A s \in Services : s # s0 =>
            handle'[s] = handle[s] /\ connection'[s] = connection[s]
  BY <1>1, <1>3 DEF IInv, TypeOK
<1>8. \A i \in DOMAIN ready : ready[i] # Stop => ready[i] # s0 /\ ready[i] \in Services
  BY <1>4, LifecycleAssumption DEF IInv, Queued
<1>9. TypeOK' /\ NoFault' /\ Registered'
  BY <1>1, <1>2, <1>7 DEF IInv, TypeOK, NoFault, QueuedOnce, Registered
<1>10. Queued'
  BY <1>1, <1>7, <1>8 DEF IInv, Queued
<1>11. Connected' /\ TodoLeft'
  BY <1>1, <1>6, <1>7 DEF IInv, Connected, TodoLeft
<1>12. Callbacks'
  <2>1. \A i \in DOMAIN stack' : stack'[i].op = "callback" =>
            stack'[i].s # s0 /\ stack'[i].s \in Services
    BY <1>2, <1>5
  <2> QED
    BY <1>1, <1>2, <1>7, <2>1 DEF IInv, Callbacks
<1>13. Destructors'
  <2>1. SUFFICES ASSUME NEW i \in DOMAIN stack', stack'[i].op = "dtor",
                        handle'[stack'[i].s]
                 PROVE  \E j \in DOMAIN stack' :
                            i < j /\ stack'[j] = Frame("callback", stack'[i].s)
    BY <1>1, <1>2 DEF IInv, Destructors
  <2>2. stack'[i] = stack[i] /\ i \in DOMAIN stack /\ stack[i].s # s0
        /\ stack[i].s \in Services
    BY <1>2, <1>7, <2>1
  <2>3. PICK j \in DOMAIN stack : i < j /\ stack[j] = Frame("callback", stack[i].s)
    BY <1>7, <2>1, <2>2 DEF IInv, Destructors
  <2>4. j # Len(stack)
    BY <1>2, <1>3, <2>2, <2>3
  <2> QED
    BY <1>2, <2>2, <2>3, <2>4
<1>14. StopShape'
  BY <1>1, ReturnShape
<1> QED
  BY <1>9, <1>10, <1>11, <1>12, <1>13, <1>14 DEF IInv

LEMMA RemoveServiceInv == IInv /\ RemoveService => IInv'
<1> SUFFICES ASSUME IInv, RemoveService PROVE IInv'
  OBVIOUS
<1> DEFINE s0 == Top.s
<1>1. /\ stack # <<>> /\ Top.op = "dtor" /\ stack' = Popped /\ ~fault
      /\ fault' = (locked \/ handle[s0])
      /\ g_services' = g_services \ {s0}
      /\ object' = [object EXCEPT ![s0] = "none"]
      /\ UNCHANGED <<handle, connection, locked, todo, ready, g_running, running, asked,
                     tasks, loop, started>>
  BY DEF RemoveService, At, Erased
<1>2. /\ stack' \in Seq(Frames)
      /\ DOMAIN stack = 1..Len(stack) /\ Len(stack) \in Nat \ {0}
      /\ \A i \in DOMAIN stack' :
            i \in DOMAIN stack /\ i # Len(stack) /\ stack'[i] = stack[i]
      /\ \A i \in DOMAIN stack : i = Len(stack) \/ i \in DOMAIN stack'
      /\ Top = stack[Len(stack)] /\ Len(stack) \in DOMAIN stack
      /\ Top = Frame(Top.op, Top.s)
      /\ Top.op = "dtor" => s0 \in Services
      /\ \A i \in DOMAIN stack : stack[i] = Frame(stack[i].op, stack[i].s)
      /\ \A i \in DOMAIN stack :
            stack[i].op \in {"callback", "dtor"} => stack[i].s \in Services
  BY <1>1, ReturnFacts
<1> HIDE DEF s0
<1>3. /\ Top = Frame("dtor", s0) /\ s0 \in Services
      /\ \A s : Frame("callback", s) # Top
  BY <1>1, <1>2, FrameFacts DEF s0
<1>4. ~handle[s0] /\ object[s0] = "dying"
  <2>1. object[s0] = "dying"
    BY <1>1, <1>2 DEF IInv, Destructors, s0
  <2>2. ~ \E j \in DOMAIN stack : Len(stack) < j
    BY <1>2
  <2>3. handle[s0] => \E j \in DOMAIN stack : Len(stack) < j
    BY <1>1, <1>2 DEF IInv, Destructors, s0
  <2> QED
    BY <2>1, <2>2, <2>3
<1>5. ~locked
  <2>1. ASSUME locked PROVE FALSE
    <3>1. stack[1].op = "all"
      BY <2>1 DEF IInv, StopShape
    <3>2. Len(stack) # 1
      BY <1>1, <1>2, <3>1
    <3> QED
      BY <1>1, <1>2, <2>1, <3>2 DEF IInv, StopShape
  <2> QED
    BY <2>1
<1>6. fault' = FALSE
  BY <1>1, <1>4, <1>5
<1>7. \A s : InCallback(s)' <=> InCallback(s)
  BY <1>2, <1>3 DEF InCallback
<1>8. /\ object' \in [Services -> {"none", "live", "dying"}]
      /\ object'[s0] = "none"
      /\ \A s \in Services : s # s0 => object'[s] = object[s]
  BY <1>1, <1>3 DEF IInv, TypeOK
<1>9. TypeOK' /\ NoFault' /\ Registered' /\ Queued'
  BY <1>1, <1>2, <1>6, <1>8
  DEF IInv, TypeOK, NoFault, QueuedOnce, Registered, Queued
<1>10. Connected'
  BY <1>1, <1>4, <1>7, <1>8 DEF IInv, Connected
<1>11. Callbacks'
  <2>1. \A i \in DOMAIN stack' : stack'[i].op = "callback" =>
            stack'[i].s # s0 /\ stack'[i].s \in Services
    BY <1>2, <1>4 DEF IInv, Callbacks
  <2> QED
    BY <1>1, <1>2, <1>8, <2>1 DEF IInv, Callbacks
<1>12. Destructors'
  <2>1. \A i \in DOMAIN stack' : stack'[i].op = "dtor" =>
            stack'[i].s # s0 /\ stack'[i].s \in Services
    <3>1. SUFFICES ASSUME NEW i \in DOMAIN stack', stack'[i].op = "dtor",
                          stack'[i].s = s0
                   PROVE  FALSE
      BY <1>2
    <3>2. stack[i] = stack[Len(stack)]
      BY <1>2, <1>3, <3>1
    <3> QED
      BY <1>1, <1>2, <3>1, <3>2 DEF IInv, Destructors
  <2>2. \A i \in DOMAIN stack' : \A j \in DOMAIN stack :
            i < j /\ stack[j] = Frame("callback", stack[i].s) => j \in DOMAIN stack'
    BY <1>2, <1>3
  <2> QED
    BY <1>1, <1>2, <1>8, <2>1, <2>2 DEF IInv, Destructors
<1>13. StopShape'
  BY <1>1, ReturnShape
<1>14. TodoLeft'
  BY <1>1, <1>5 DEF TodoLeft
<1> QED
  BY <1>9, <1>10, <1>11, <1>12, <1>13, <1>14 DEF IInv

\* What a service's shutdown() does when its connection is open as long as it has a
\* handle: nothing is disconnected twice, and s0 has no handle afterwards unless it
\* waits for a callback.
LEMMA ServiceShutdownFacts ==
    ASSUME IInv, NEW s0 \in Services, NEW below, ServiceShutdown(s0, below),
           handle[s0] => connection[s0] = "open",
           UNCHANGED g_running
    PROVE  /\ fault' = FALSE /\ Queued' /\ QueuedOnce'
           /\ ready' \in Seq(Services \cup {Stop})
           /\ loop \/ ready' = ready
           /\ (\A i \in DOMAIN ready : ready[i] # Stop) =>
                  \A i \in DOMAIN ready' : ready'[i] # Stop
           /\ handle' \in [Services -> BOOLEAN]
           /\ connection' \in [Services -> {"none", "open", "closing"}]
           /\ \A s \in Services : s # s0 =>
                 handle'[s] = handle[s] /\ connection'[s] = connection[s]
           /\ \/ stack' = below /\ ~handle'[s0]
              \/ /\ stack' = Append(below, Frame("callback", s0)) /\ s0 \in Calling
                 /\ handle[s0] /\ handle'[s0] /\ connection'[s0] = "closing"
<1> USE LifecycleAssumption
<1>1. /\ fault = FALSE /\ Queued /\ QueuedOnce
      /\ ready \in Seq(Services \cup {Stop})
      /\ handle \in [Services -> BOOLEAN]
      /\ connection \in [Services -> {"none", "open", "closing"}]
      /\ handle[s0] => loop
  BY DEF IInv, NoFault, TypeOK, Connected
<1>2. CASE ~handle[s0] /\ stack' = below /\ UNCHANGED <<handle, connection, ready, fault>>
  BY <1>1, <1>2 DEF Queued, QueuedOnce
<1>3. CASE /\ handle[s0] /\ s0 \in Deferred
           /\ fault' = (connection[s0] # "open" \/ ~loop)
           /\ ready' = Append(ready, s0)
           /\ connection' = [connection EXCEPT ![s0] = "closing"]
           /\ handle' = [handle EXCEPT ![s0] = FALSE] /\ stack' = below
  <2>1. /\ ready' \in Seq(Services \cup {Stop})
        /\ DOMAIN ready = 1..Len(ready) /\ Len(ready) \in Nat
        /\ DOMAIN ready' = 1..(Len(ready) + 1)
        /\ \A i \in 1..Len(ready) : ready'[i] = ready[i]
        /\ ready'[Len(ready) + 1] = s0
    BY <1>3, EnqueueFacts DEF IInv
  <2>2. \A i \in DOMAIN ready : ready[i] # s0 /\ ready[i] \in Services \cup {Stop}
    BY <1>1, <1>3 DEF Queued
  <2>3. \A i \in DOMAIN ready' : i \in DOMAIN ready \/ i = Len(ready) + 1
    BY <2>1
  <2>4. /\ connection' \in [Services -> {"none", "open", "closing"}]
        /\ handle' \in [Services -> BOOLEAN]
        /\ connection'[s0] = "closing" /\ ~handle'[s0]
        /\ \A s \in Services : s # s0 =>
              handle'[s] = handle[s] /\ connection'[s] = connection[s]
        /\ fault' = FALSE
    BY <1>1, <1>3
  <2>5. QueuedOnce'
    BY <1>1, <2>1, <2>2, <2>3 DEF QueuedOnce
  <2>6. Queued'
    BY <1>1, <1>3, <2>1, <2>2, <2>3, <2>4 DEF Queued
  <2>7. (\A i \in DOMAIN ready : ready[i] # Stop) =>
            \A i \in DOMAIN ready' : ready'[i] # Stop
    BY <2>1, <2>3
  <2> QED
    BY <1>1, <1>3, <2>1, <2>4, <2>5, <2>6, <2>7
<1>4. CASE /\ handle[s0] /\ s0 \notin Deferred
           /\ fault' = (connection[s0] # "open" \/ ~loop)
           /\ connection' = [connection EXCEPT ![s0] = "none"]
           /\ handle' = [handle EXCEPT ![s0] = FALSE] /\ stack' = below
           /\ UNCHANGED ready
  BY <1>1, <1>4 DEF Queued, QueuedOnce
<1>5. CASE /\ handle[s0] /\ s0 \in Calling
           /\ fault' = (connection[s0] # "open" \/ ~loop)
           /\ connection' = [connection EXCEPT ![s0] = "closing"]
           /\ stack' = Append(below, Frame("callback", s0))
           /\ UNCHANGED <<handle, ready>>
  BY <1>1, <1>5 DEF Queued, QueuedOnce
<1> QED
  BY <1>2, <1>3, <1>4, <1>5 DEF ServiceShutdown, Captured, Closed

\* A destructor that user code runs.
LEMMA DestroyInv ==
    ASSUME IInv, CallbacksCare, NEW s0 \in Services, Destroy(s0)
    PROVE  IInv'
<1> DEFINE below == Append(stack, Frame("dtor", s0))
           n == Len(stack)
<1>1. /\ object[s0] = "live" /\ object' = [object EXCEPT ![s0] = "dying"]
      /\ ServiceShutdown(s0, below)
      /\ UNCHANGED <<g_services, locked, todo, g_running, running, asked, tasks, loop,
                     started>>
  BY DEF Destroy
<1>2. ~locked /\ (loop \/ stack = <<>>)
  <2>1. CASE Touches
    BY <2>1, TouchesFacts
  <2>2. CASE stack = <<>>
    BY <2>2 DEF IInv, StopShape
  <2> QED
    BY <2>1, <2>2 DEF Destroy
<1>3. /\ DOMAIN stack = 1..n /\ n \in Nat /\ n + 1 \in Nat
      /\ \A i \in DOMAIN stack : stack[i] = Frame(stack[i].op, stack[i].s)
      /\ \A i \in DOMAIN stack :
            stack[i].op \in {"callback", "dtor"} => stack[i].s \in Services
      /\ stack # <<>> <=> n # 0
  BY StackFacts DEF IInv
<1>4. /\ below \in Seq(Frames) /\ Len(below) = n + 1
      /\ DOMAIN below = 1..(n + 1)
      /\ \A i \in 1..n : below[i] = stack[i]
      /\ below[n + 1] = Frame("dtor", s0)
  BY PushFacts, FrameFacts DEF IInv, TypeOK
<1> HIDE DEF below
<1>5. \A i \in DOMAIN stack :
          stack[i].op \in {"callback", "dtor"} => stack[i].s # s0
  BY <1>1, <1>2 DEF IInv, Callbacks, Destructors
<1>6. ~InCallback(s0)
  BY <1>5, FrameFacts DEF InCallback
<1>7. handle[s0] => connection[s0] = "open"
  BY <1>6 DEF IInv, Connected
<1>8. /\ fault' = FALSE /\ Queued' /\ QueuedOnce'
      /\ ready' \in Seq(Services \cup {Stop})
      /\ loop \/ ready' = ready
      /\ (\A i \in DOMAIN ready : ready[i] # Stop) =>
             \A i \in DOMAIN ready' : ready'[i] # Stop
      /\ handle' \in [Services -> BOOLEAN]
      /\ connection' \in [Services -> {"none", "open", "closing"}]
      /\ \A s \in Services : s # s0 =>
            handle'[s] = handle[s] /\ connection'[s] = connection[s]
      /\ \/ stack' = below /\ ~handle'[s0]
         \/ /\ stack' = Append(below, Frame("callback", s0)) /\ s0 \in Calling
            /\ handle[s0] /\ handle'[s0] /\ connection'[s0] = "closing"
  BY <1>1, <1>7, ServiceShutdownFacts
<1>9. PICK m \in {n + 1, n + 2} :
        /\ stack' \in Seq(Frames) /\ DOMAIN stack' = 1..m
        /\ \A i \in 1..n : stack'[i] = stack[i]
        /\ stack'[n + 1] = Frame("dtor", s0)
        /\ m = n + 1 => ~handle'[s0]
        /\ m = n + 2 => /\ stack'[n + 2] = Frame("callback", s0)
                        /\ s0 \in Calling /\ handle[s0] /\ handle'[s0]
                        /\ connection'[s0] = "closing"
  <2>1. CASE stack' = below /\ ~handle'[s0]
    <3>1. /\ stack' \in Seq(Frames) /\ DOMAIN stack' = 1..(n + 1)
          /\ \A i \in 1..n : stack'[i] = stack[i]
          /\ stack'[n + 1] = Frame("dtor", s0)
      BY <1>4, <2>1
    <3>2. n + 1 # n + 2
      BY <1>3
    <3> QED
      BY <2>1, <3>1, <3>2
  <2>2. CASE /\ stack' = Append(below, Frame("callback", s0)) /\ s0 \in Calling
             /\ handle[s0] /\ handle'[s0] /\ connection'[s0] = "closing"
    <3>1. /\ stack' \in Seq(Frames) /\ DOMAIN stack' = 1..(n + 1 + 1)
          /\ \A i \in 1..(n + 1) : stack'[i] = below[i]
          /\ stack'[n + 1 + 1] = Frame("callback", s0)
      BY <1>4, <2>2, PushFacts, FrameFacts
    <3>2. n + 2 = n + 1 + 1 /\ n + 2 # n + 1 /\ n + 1 \in 1..(n + 1)
          /\ \A i \in 1..n : i \in 1..(n + 1)
      BY <1>3
    <3> QED
      BY <1>4, <2>2, <3>1, <3>2
  <2> QED
    BY <1>8, <2>1, <2>2
<1> HIDE DEF n
<1>10. /\ \A i \in DOMAIN stack : i \in DOMAIN stack' /\ stack'[i] = stack[i] /\ i < n + 1
       /\ \A i \in DOMAIN stack' : \/ i \in DOMAIN stack
                                   \/ i = n + 1 /\ stack'[i] = Frame("dtor", s0)
                                   \/ m = n + 2 /\ i = n + 2
                                      /\ stack'[i] = Frame("callback", s0)
       /\ n + 1 < n + 2 /\ n + 1 \in DOMAIN stack'
       /\ m = n + 2 => n + 2 \in DOMAIN stack'
       /\ n + 1 # n + 2 /\ n + 1 \notin DOMAIN stack /\ n + 2 \notin DOMAIN stack
       /\ stack' # <<>>
  BY <1>3, <1>9
<1>11. \A op, s : Frame(op, s).op = op /\ Frame(op, s).s = s
  BY FrameFacts
<1>12. \A s : InCallback(s)' <=> InCallback(s) \/ (m = n + 2 /\ s = s0)
  BY <1>3, <1>9, <1>10, <1>11 DEF InCallback
<1>13. /\ object' \in [Services -> {"none", "live", "dying"}]
       /\ object'[s0] = "dying"
       /\ \A s \in Services : s # s0 => object'[s] = object[s]
  BY <1>1 DEF IInv, TypeOK
<1>14. TypeOK'
  BY <1>1, <1>8, <1>9, <1>13 DEF IInv, TypeOK
<1>15. NoFault' /\ Registered' /\ Queued'
  BY <1>1, <1>8, <1>13 DEF IInv, TypeOK, NoFault, Registered
<1>16. Connected'
  BY <1>1, <1>8, <1>9, <1>12, <1>13 DEF IInv, Connected
<1>17. Callbacks'
  <2>1. SUFFICES ASSUME NEW i \in DOMAIN stack', stack'[i].op = "callback"
                 PROVE  /\ stack'[i].s \in Calling
                        /\ handle'[stack'[i].s] /\ connection'[stack'[i].s] = "closing"
                        /\ object'[stack'[i].s] = "live" => locked'
                        /\ \A j \in DOMAIN stack' : stack'[j] = stack'[i] => j = i
    BY DEF Callbacks
  <2>2. CASE i \in DOMAIN stack
    <3>1. /\ stack'[i] = stack[i] /\ stack[i].op = "callback"
          /\ stack[i].s \in Services /\ stack[i].s # s0
      BY <1>3, <1>5, <1>10, <2>1, <2>2
    <3>2. \A j \in DOMAIN stack' : stack'[j] = stack'[i] => j = i
      BY <1>10, <1>11, <2>2, <3>1 DEF IInv, Callbacks
    <3>3. /\ stack[i].s \in Calling
          /\ handle[stack[i].s] /\ connection[stack[i].s] = "closing"
          /\ object[stack[i].s] = "live" => locked
      BY <2>2, <3>1 DEF IInv, Callbacks
    <3> QED
      BY <1>1, <1>8, <1>13, <3>1, <3>2, <3>3
  <2>3. CASE m = n + 2 /\ i = n + 2 /\ stack'[i] = Frame("callback", s0)
    <3>1. stack'[i].s = s0
      BY <1>11, <2>3
    <3>2. \A j \in DOMAIN stack' : stack'[j] = stack'[i] => j = i
      BY <1>5, <1>10, <1>11, <2>3
    <3> QED
      BY <1>9, <1>13, <2>3, <3>1, <3>2
  <2>4. stack'[i] # Frame("dtor", s0)
    BY <1>11, <2>1
  <2> QED
    BY <1>10, <2>2, <2>3, <2>4
<1>18. Destructors'
  <2>1. SUFFICES ASSUME NEW i \in DOMAIN stack', stack'[i].op = "dtor"
                 PROVE  /\ object'[stack'[i].s] = "dying"
                        /\ \A j \in DOMAIN stack' : stack'[j] = stack'[i] => j = i
                        /\ handle'[stack'[i].s] =>
                               \E j \in DOMAIN stack' :
                                   i < j /\ stack'[j] = Frame("callback", stack'[i].s)
    BY DEF Destructors
  <2>2. CASE i \in DOMAIN stack
    <3>1. /\ stack'[i] = stack[i] /\ stack[i].op = "dtor"
          /\ stack[i].s \in Services /\ stack[i].s # s0
      BY <1>3, <1>5, <1>10, <2>1, <2>2
    <3>2. \A j \in DOMAIN stack' : stack'[j] = stack'[i] => j = i
      BY <1>10, <1>11, <2>2, <3>1 DEF IInv, Destructors
    <3>3. /\ object[stack[i].s] = "dying"
          /\ handle[stack[i].s] =>
                 \E j \in DOMAIN stack :
                     i < j /\ stack[j] = Frame("callback", stack[i].s)
      BY <2>2, <3>1 DEF IInv, Destructors
    <3> QED
      BY <1>8, <1>10, <1>13, <3>1, <3>2, <3>3
  <2>3. CASE i = n + 1 /\ stack'[i] = Frame("dtor", s0)
    <3>1. stack'[i].s = s0
      BY <1>11, <2>3
    <3>2. \A j \in DOMAIN stack' : stack'[j] = stack'[i] => j = i
      BY <1>5, <1>10, <1>11, <2>3
    <3>3. handle'[s0] => i < n + 2 /\ n + 2 \in DOMAIN stack'
                         /\ stack'[n + 2] = Frame("callback", s0)
      BY <1>9, <1>10, <2>3
    <3> QED
      BY <1>13, <3>1, <3>2, <3>3
  <2>4. stack'[i] # Frame("callback", s0)
    BY <1>11, <2>1
  <2> QED
    BY <1>10, <2>2, <2>3, <2>4
<1>19. StopShape'
  <2>1. \A i \in DOMAIN stack' : stack'[i].op \in {"stop", "all"} =>
            i \in DOMAIN stack /\ stack'[i] = stack[i]
    BY <1>10, <1>11
  <2>2. \A i \in DOMAIN stack' : stack'[i].op \in {"stop", "all"} =>
            i = 1 /\ ~g_running' /\ \A j \in DOMAIN ready' : ready'[j] # Stop
    BY <1>1, <1>8, <2>1 DEF IInv, StopShape
  <2>3. stack'[1].op # "all"
    <3>1. CASE stack = <<>>
      <4>1. n + 1 = 1
        BY <1>3, <3>1
      <4> QED
        BY <1>9, <1>11, <4>1
    <3>2. CASE stack # <<>>
      <4>1. 1 \in DOMAIN stack /\ stack[1].op # "all"
        BY <1>2, <1>3, <3>2 DEF IInv, StopShape
      <4> QED
        BY <1>10, <4>1
    <3> QED
      BY <3>1, <3>2
  <2>4. ~loop => ready' = <<>> /\ \A i \in DOMAIN stack' : stack'[i].op = "dtor"
    <3>1. SUFFICES ASSUME ~loop
                   PROVE  ready' = <<>> /\ \A i \in DOMAIN stack' : stack'[i].op = "dtor"
      OBVIOUS
    <3>2. m # n + 2
      BY <1>9, <3>1 DEF IInv, Connected
    <3>3. ready = <<>> /\ \A i \in DOMAIN stack : stack[i].op = "dtor"
      BY <3>1 DEF IInv, StopShape
    <3> QED
      BY <1>8, <1>10, <1>11, <3>1, <3>2, <3>3
  <2> QED
    BY <1>1, <1>2, <2>2, <2>3, <2>4 DEF StopShape
<1>20. TodoLeft'
  BY <1>1, <1>2 DEF TodoLeft
<1> QED
  BY <1>14, <1>15, <1>16, <1>17, <1>18, <1>19, <1>20 DEF IInv

-----------------------------------------------------------------------------
(***************************************************************************)
(* The closure of shutdown()                                               *)
(***************************************************************************)

LEMMA BeginStopInv == IInv /\ BeginStop => IInv'
<1> SUFFICES ASSUME IInv, BeginStop PROVE IInv'
  OBVIOUS
<1>1. /\ loop /\ stack = <<>> /\ ready # <<>> /\ Head(ready) = Stop
      /\ ready' = Tail(ready)
      /\ stack' = <<Frame("stop", Stop), Frame("user", Stop)>>
      /\ UNCHANGED <<object, handle, connection, g_services, locked, todo, g_running,
                     running, asked, tasks, loop, started, fault>>
  BY DEF BeginStop, Idle
<1>2. /\ ready' \in Seq(Services \cup {Stop})
      /\ Stop = ready[1] /\ 1 \in DOMAIN ready
      /\ \A i \in DOMAIN ready' : ready'[i] # Stop
      /\ \A i \in DOMAIN ready' : \E j \in DOMAIN ready : ready'[i] = ready[j]
      /\ QueuedOnce'
  BY <1>1, TakenFacts
<1>3. ~g_running
  BY <1>2 DEF IInv, Queued
<1>4. /\ DOMAIN stack = {} /\ ~locked
      /\ DOMAIN stack' = {1, 2}
      /\ stack'[1] = Frame("stop", Stop) /\ stack'[2] = Frame("user", Stop)
      /\ stack' # <<>>
  BY <1>1 DEF IInv, StopShape
<1>5. stack' \in Seq(Frames)
  <2>1. Frame("stop", Stop) \in Frames /\ Frame("user", Stop) \in Frames
    BY FrameFacts
  <2> QED
    BY <1>1, <2>1
<1>6. \A op, s : Frame(op, s).op = op /\ Frame(op, s).s = s
  BY FrameFacts
<1>7. TypeOK' /\ NoFault' /\ Registered'
  BY <1>1, <1>2, <1>5 DEF IInv, TypeOK, NoFault, Registered
<1>8. Queued'
  BY <1>1, <1>2 DEF IInv, Queued
<1>9. \A s : ~InCallback(s)
  BY <1>4 DEF InCallback
<1>10. Connected' /\ Callbacks' /\ Destructors'
  BY <1>1, <1>4, <1>6, <1>9 DEF IInv, Connected, Callbacks, Destructors
<1>11. StopShape' /\ TodoLeft'
  BY <1>1, <1>2, <1>3, <1>4, <1>6 DEF StopShape, TodoLeft
<1> QED
  BY <1>7, <1>8, <1>10, <1>11 DEF IInv

\* While the closure is what goes on, nothing else is on the stack.
LEMMA ClosureAlone ==
    ASSUME IInv, stack # <<>>, Top.op \in {"stop", "all"}
    PROVE  /\ Len(stack) = 1 /\ DOMAIN stack = {1} /\ stack[1].op = Top.op
           /\ ~g_running /\ \A i \in DOMAIN ready : ready[i] # Stop
           /\ loop /\ (locked <=> Top.op = "all")
           /\ \A s : ~InCallback(s)
<1>1. DOMAIN stack = 1..Len(stack) /\ Len(stack) \in Nat /\ Len(stack) # 0
  BY StackFacts DEF IInv
<1>2. Len(stack) \in DOMAIN stack
  BY <1>1
<1>3. Len(stack) = 1 /\ ~g_running /\ \A i \in DOMAIN ready : ready[i] # Stop
  BY <1>2 DEF IInv, StopShape, Top
<1>4. DOMAIN stack = {1} /\ stack[1].op = Top.op
  BY <1>1, <1>3 DEF Top
<1>5. loop /\ (locked <=> Top.op = "all")
  BY <1>4 DEF IInv, StopShape
<1>6. \A s : stack[1] # Frame("callback", s)
  <2>1. \A s : Frame("callback", s).op = "callback"
    BY FrameFacts
  <2> QED
    BY <1>4, <2>1
<1> QED
  BY <1>3, <1>4, <1>5, <1>6 DEF InCallback

LEMMA LockServicesInv == IInv /\ LockServices => IInv'
<1> SUFFICES ASSUME IInv, LockServices PROVE IInv'
  OBVIOUS
<1>1. /\ stack # <<>> /\ Top.op = "stop"
      /\ locked' = TRUE /\ todo' = g_services
      /\ stack' = <<Frame("all", Stop)>>
      /\ UNCHANGED <<object, handle, connection, g_services, ready, g_running, running,
                     asked, tasks, loop, started, fault>>
  BY DEF LockServices, At
<1>2. /\ ~g_running /\ \A i \in DOMAIN ready : ready[i] # Stop
      /\ loop /\ \A s : ~InCallback(s)
  BY <1>1, ClosureAlone
<1>3. /\ DOMAIN stack' = {1} /\ stack'[1] = Frame("all", Stop) /\ stack' # <<>>
      /\ stack' \in Seq(Frames)
  <2>1. Frame("all", Stop) \in Frames
    BY FrameFacts
  <2> QED
    BY <1>1, <2>1
<1>4. \A op, s : Frame(op, s).op = op /\ Frame(op, s).s = s
  BY FrameFacts
<1>5. TypeOK' /\ NoFault' /\ Registered' /\ Queued'
  BY <1>1, <1>3 DEF IInv, TypeOK, NoFault, QueuedOnce, Registered, Queued
<1>6. Connected' /\ Callbacks' /\ Destructors'
  BY <1>1, <1>2, <1>3, <1>4 DEF IInv, Connected, Callbacks, Destructors
<1>7. StopShape'
  BY <1>1, <1>2, <1>3, <1>4 DEF StopShape
<1>8. TodoLeft'
  BY <1>1 DEF IInv, TodoLeft, Connected
<1> QED
  BY <1>5, <1>6, <1>7, <1>8 DEF IInv

LEMMA ShutdownNextInv ==
    ASSUME IInv, NEW s0 \in Services, ShutdownNext(s0)
    PROVE  IInv'
<1>1. /\ stack # <<>> /\ Top.op = "all" /\ s0 \in todo /\ todo' = todo \ {s0}
      /\ UNCHANGED <<object, g_services, locked, g_running, running, asked, tasks, loop,
                     started>>
  BY DEF ShutdownNext, At
<1>2. /\ Len(stack) = 1 /\ DOMAIN stack = {1} /\ stack[1].op = "all"
      /\ ~g_running /\ \A i \in DOMAIN ready : ready[i] # Stop
      /\ loop /\ locked /\ \A s : ~InCallback(s)
  BY <1>1, ClosureAlone
<1>3. object[s0] # "none"
  BY <1>1, <1>2 DEF IInv, TodoLeft, Registered
<1>4. ServiceShutdown(s0, stack)
  BY <1>3 DEF ShutdownNext
<1>5. handle[s0] => connection[s0] = "open"
  BY <1>2 DEF IInv, Connected
<1>6. /\ fault' = FALSE /\ Queued' /\ QueuedOnce'
      /\ ready' \in Seq(Services \cup {Stop})
      /\ \A i \in DOMAIN ready' : ready'[i] # Stop
      /\ handle' \in [Services -> BOOLEAN]
      /\ connection' \in [Services -> {"none", "open", "closing"}]
      /\ \A s \in Services : s # s0 =>
            handle'[s] = handle[s] /\ connection'[s] = connection[s]
      /\ \/ stack' = stack /\ ~handle'[s0]
         \/ /\ stack' = Append(stack, Frame("callback", s0)) /\ s0 \in Calling
            /\ handle[s0] /\ handle'[s0] /\ connection'[s0] = "closing"
  BY <1>1, <1>2, <1>4, <1>5, ServiceShutdownFacts
<1>7. \A op, s : Frame(op, s).op = op /\ Frame(op, s).s = s
  BY FrameFacts
<1>8. /\ stack' \in Seq(Frames) /\ stack' # <<>>
      /\ 1 \in DOMAIN stack' /\ stack'[1].op = "all"
      /\ \A i \in DOMAIN stack' :
            i = 1 \/ (i = 2 /\ stack'[i] = Frame("callback", s0) /\ s0 \in Calling
                      /\ handle'[s0] /\ connection'[s0] = "closing")
      /\ handle'[s0] => /\ 2 \in DOMAIN stack' /\ stack'[2] = Frame("callback", s0)
                        /\ s0 \in g_services /\ connection'[s0] = "closing"
  <2>1. CASE stack' = stack /\ ~handle'[s0]
    BY <1>1, <1>2, <2>1 DEF IInv, TypeOK
  <2>2. CASE /\ stack' = Append(stack, Frame("callback", s0)) /\ s0 \in Calling
             /\ handle[s0] /\ handle'[s0] /\ connection'[s0] = "closing"
    <3>1. /\ stack' \in Seq(Frames) /\ Len(stack') = 2
          /\ DOMAIN stack' = 1..(1 + 1)
          /\ \A i \in 1..1 : stack'[i] = stack[i]
          /\ stack'[1 + 1] = Frame("callback", s0)
      <4>1. stack \in Seq(Frames) /\ Frame("callback", s0) \in Frames
        BY FrameFacts DEF IInv, TypeOK
      <4>2. Len(stack) = 1 /\ 1 + 1 = 2
        BY <1>2
      <4>3. /\ Append(stack, Frame("callback", s0)) \in Seq(Frames)
            /\ Len(Append(stack, Frame("callback", s0))) = Len(stack) + 1
            /\ DOMAIN Append(stack, Frame("callback", s0)) = 1..(Len(stack) + 1)
            /\ \A i \in 1..Len(stack) :
                  Append(stack, Frame("callback", s0))[i] = stack[i]
            /\ Append(stack, Frame("callback", s0))[Len(stack) + 1]
                  = Frame("callback", s0)
        BY <4>1, PushFacts
      <4> QED
        BY <2>2, <4>2, <4>3
    <3>2. 1 + 1 = 2 /\ 1..2 = {1, 2} /\ 1..1 = {1}
      OBVIOUS
    <3>3. /\ DOMAIN stack' = {1, 2} /\ stack'[1] = stack[1]
          /\ stack'[2] = Frame("callback", s0) /\ stack' # <<>>
      <4>1. DOMAIN stack' = {1, 2} /\ stack'[2] = Frame("callback", s0)
        BY <3>1, <3>2
      <4>2. stack'[1] = stack[1]
        BY <3>1, <3>2
      <4>3. stack' # <<>>
        BY <3>1
      <4> QED
        BY <4>1, <4>2, <4>3
    <3>4. s0 \in g_services
      BY <2>2 DEF IInv, Connected
    <3> QED
      BY <1>2, <2>2, <3>1, <3>3, <3>4
  <2> QED
    BY <1>6, <2>1, <2>2
<1>9. handle'[s0] => InCallback(s0)'
  BY <1>8 DEF InCallback
<1>10. TypeOK' /\ NoFault' /\ Registered'
  BY <1>1, <1>6, <1>8 DEF IInv, TypeOK, NoFault, Registered
<1>11. Connected'
  BY <1>1, <1>2, <1>6, <1>8, <1>9 DEF IInv, Connected
<1>12. Callbacks' /\ Destructors'
  BY <1>1, <1>2, <1>7, <1>8 DEF Callbacks, Destructors
<1>13. StopShape'
  BY <1>1, <1>2, <1>6, <1>7, <1>8 DEF StopShape
<1>14. TodoLeft'
  BY <1>1, <1>2, <1>6, <1>9 DEF IInv, TodoLeft
<1> QED
  BY <1>6, <1>10, <1>11, <1>12, <1>13, <1>14 DEF IInv

LEMMA StopSchedulerInv == IInv /\ StopScheduler => IInv'
<1> SUFFICES ASSUME IInv, StopScheduler PROVE IInv'
  OBVIOUS
<1>1. /\ stack # <<>> /\ Top.op = "all" /\ todo = {}
      /\ g_services' = {} /\ locked' = FALSE
      /\ asked' = (asked \/ AsksGNUnet) /\ running' = FALSE
      /\ stack' = <<>>
      /\ UNCHANGED <<object, handle, connection, todo, ready, g_running, tasks, loop,
                     started, fault>>
  BY DEF StopScheduler, At
<1>2. loop /\ locked /\ \A s : ~InCallback(s)
  BY <1>1, ClosureAlone
<1>3. \A s \in Services : ~handle[s]
  BY <1>1, <1>2 DEF IInv, TodoLeft
<1>4. DOMAIN stack' = {} /\ stack' \in Seq(Frames) /\ asked' \in BOOLEAN
  BY <1>1, EmptySeq DEF IInv, TypeOK, AsksGNUnet
<1>5. TypeOK' /\ NoFault' /\ Registered' /\ Queued'
  BY <1>1, <1>4 DEF IInv, TypeOK, NoFault, QueuedOnce, Registered, Queued
<1>6. Connected' /\ Callbacks' /\ Destructors'
  BY <1>1, <1>3, <1>4 DEF Connected, Callbacks, Destructors
<1>7. StopShape' /\ TodoLeft'
  BY <1>1, <1>2, <1>4 DEF StopShape, TodoLeft
<1> QED
  BY <1>5, <1>6, <1>7 DEF IInv

-----------------------------------------------------------------------------
(***************************************************************************)
(* The invariant and the theorems                                          *)
(***************************************************************************)

LEMMA NextInv == CallbacksCare /\ IInv /\ [Next]_vars => IInv'
<1> SUFFICES ASSUME CallbacksCare, IInv, [Next]_vars PROVE IInv'
  OBVIOUS
<1>1. CASE Run
  BY <1>1, RunInv
<1>2. CASE Callback
  BY <1>2, CallbackInv
<1>3. CASE Signal
  BY <1>3, SignalInv
<1>4. CASE Shutdown
  BY <1>4, ShutdownInv
<1>5. ASSUME NEW s \in Services, Construct(s) \/ Destroy(s)
      PROVE  IInv'
  BY <1>5, ConstructInv, DestroyInv
<1>6. CASE Disconnect
  BY <1>6, DisconnectInv
<1>7. CASE BeginStop
  BY <1>7, BeginStopInv
<1>8. CASE Unwind
  BY <1>8, UserReturnsInv, CallbackReturnsInv, RemoveServiceInv DEF Unwind
<1>9. CASE StopStep
  BY <1>9, LockServicesInv, ShutdownNextInv, StopSchedulerInv DEF StopStep
<1>10. CASE LoopStep
  BY <1>10, ShutdownTaskInv, ExitInv DEF LoopStep
<1>11. CASE UNCHANGED vars
  BY <1>11, QuietInv DEF vars, IInv, TypeOK
<1> QED
  BY <1>1, <1>2, <1>3, <1>4, <1>5, <1>6, <1>7, <1>8, <1>9, <1>10, <1>11 DEF Next, Ended

LEMMA Invariance ==
    ASSUME CallbacksCare
    PROVE  Spec => []IInv
<1>1. Init => IInv
  BY InitInv
<1>2. IInv /\ [Next]_vars => IInv'
  BY NextInv
<1> QED
  BY <1>1, <1>2, PTL DEF Spec

\* Services, the registry, the stack of calls and GNUnet's ready list keep their shape.
THEOREM TypeCorrect ==
    ASSUME CallbacksCare
    PROVE  Spec => []TypeOK
<1>1. IInv => TypeOK
  BY DEF IInv
<1>2. Spec => []IInv
  BY Invariance
<1> QED
  BY <1>1, <1>2, PTL

\* However constructors, destructors, disconnect callbacks, signals and shutdown() are
\* nested, no service is disconnected or queued for it twice or outside of the loop,
\* removeAllServices meets no destroyed service, and g_mtx_services is never locked by
\* the thread that holds it.
THEOREM NeverFaults ==
    ASSUME CallbacksCare
    PROVE  Spec => []NoFault
<1>1. IInv => NoFault
  BY DEF IInv
<1>2. Spec => []IInv
  BY Invariance
<1> QED
  BY <1>1, <1>2, PTL

\* Every service that has a handle is in the registry, from where removeAllServices
\* disconnects it, and every service in the registry exists.
THEOREM RegistryStaysComplete ==
    ASSUME CallbacksCare
    PROVE  Spec => []RegistryComplete
<1>1. IInv => RegistryComplete
  BY DEF IInv, Connected, Registered, RegistryComplete
<1>2. Spec => []IInv
  BY Invariance
<1> QED
  BY <1>1, <1>2, PTL
=============================================================================
