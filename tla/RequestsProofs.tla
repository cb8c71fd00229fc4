--------------------------- MODULE RequestsProofs ---------------------------
(***************************************************************************)
(* Proofs about Requests for any number of calls, any nesting of user code *)
(* in the callbacks and any width of a uid: nothing is used after it is    *)
(* gone, nobody is told twice or forgotten, and DataStore::get yields each *)
(* entry once.                                                             *)
(*                                                                         *)
(* Most steps are about one call.  The invariant therefore says, for every *)
(* call, which states of its pack, operation, timer and caller go together *)
(* (StateOK), and for every frame of the stack the state of the call that  *)
(* it is to go on with (FrameOK); three lemmas, for a step that leaves the *)
(* stack alone, pushes a frame or pops one, reduce a step to the state     *)
(* that its call gets into.                                                *)
(***************************************************************************)
EXTENDS Requests, SequenceTheorems, TLAPS

\* The calls that wait in a vector of observers, and those that GNUnet answers once and
\* that need nothing else.
Observed == {"estimate", "init"}
Single == {"change", "ego", "records", "store", "put", "getOne", "peers", "addPeer",
           "list", "dhtPut"}

Walking(k) == \E i \in DOMAIN stack : stack[i].then = k

\* What goes together.  A call that is not answered and that GNUnet has forgotten was cut
\* off by the shutdown.  A lookup's timer and operation wait together; an iteration over
\* egos has its operation until the queued disconnection, the first sign of which is
\* its end; a connection is there for every operation, and in use until the shutdown.
StateOK(c) ==
    /\ kind[c] = "none" => pack[c] = "none" /\ told[c] = 0
    /\ kind[c] # "none" /\ told[c] = 0 => pack[c] = "live"
    /\ op[c] => pack[c] = "live"
    /\ pack[c] \in {"freed", "lost"} => told[c] = 1
    /\ pack[c] = "live" /\ told[c] = 0 /\ ~op[c] =>
          phase = "stopped" /\ kind[c] \in DOMAIN ServiceKinds \ {"lookup"}
    /\ timer[c] # "off" => kind[c] = "lookup" /\ pack[c] = "live"
    /\ kind[c] = "lookup" /\ op[c] =>
          phase # "stopped" /\ (told[c] = 0 => timer[c] = "armed")
    /\ c \in closing => kind[c] = "identities" /\ op[c] /\ told[c] = 1
    /\ kind[c] = "identities" /\ pack[c] = "live" => op[c] /\ (told[c] = 1 => c \in closing)
    /\ kind[c] = "estimate" /\ op[c] => told[c] = 0
    /\ \A s \in Services : op[c] /\ Uses(kind[c], s) =>
          service[s] # "down" /\ (phase # "stopped" => service[s] = "up")

\* Told, with a pack that is still to be deleted: the callback is on the stack.
Answering(c) ==
    pack[c] = "live" /\ told[c] = 1 /\ kind[c] \notin {"identities"} \cup Observed

\* Who called waitForInit when it was known already stays in init_cbs; identity_callback
\* has been there, and will not come again.
NotWalked(c) ==
    kind[c] = "init" /\ op[c] /\ told[c] = 1 => "init" \in known /\ ~Walking("init")

CallOK(c) == StateOK(c) /\ (Answering(c) => BeingAnswered(c)) /\ NotWalked(c)

\* What a frame goes on with when the user code returns is there, and so is the
\* connection that the callback came from.
ThenOK(c, a) ==
    /\ a = "free" => kind[c] \in Single \cup {"hello"} /\ pack[c] = "live" /\ ~op[c] /\ told[c] = 1
    /\ a = "cancelTimer" =>
          kind[c] = "lookup" /\ pack[c] = "live" /\ ~op[c] /\ timer[c] = "armed"
    /\ a = "cancelLookup" =>
          kind[c] = "lookup" /\ op[c] /\ timer[c] = "firing" /\ told[c] = 1
    /\ a = "cancelHello" => kind[c] = "hello" /\ op[c] /\ told[c] = 1
    /\ a = "nothing" => \/ kind[c] = "identities"
                        \/ kind[c] \in Observed /\ ~op[c]
    /\ \A s \in Services : Uses(kind[c], s) => service[s] # "down"
FrameOK(i) ==
    /\ stack[i].c = NoCall <=> stack[i].then \in {"task"} \cup Observed
    /\ stack[i].c # NoCall => ThenOK(stack[i].c, stack[i].then)
OneFrame == \A i, j \in DOMAIN stack : stack[i].c # NoCall /\ stack[i].c = stack[j].c => i = j

\* What the iteration has passed over it has yielded.
CursorOK ==
    /\ CursorExact
    /\ \A u \in cursor.got : u < cursor.uid
    /\ \A v \in cursor.kept : v < cursor.uid => v \in cursor.got
    /\ cursor.state = "idle" => cursor.uid = 0

IInv ==
    /\ TypeOK /\ ~fault
    /\ \A c \in Calls : CallOK(c)
    /\ \A i \in DOMAIN stack : FrameOK(i)
    /\ OneFrame /\ CursorOK

-----------------------------------------------------------------------------
(***************************************************************************)
(* The stack                                                               *)
(***************************************************************************)
Frames == [c : Calls \cup {NoCall}, then : Afterwards, user : BOOLEAN]

\* The stack is a sequence of frames.
LEMMA StackFacts ==
  ASSUME TypeOK
  PROVE  /\ stack \in Seq(Frames)
         /\ DOMAIN stack = 1..Len(stack) /\ Len(stack) \in Nat
         /\ \A i \in DOMAIN stack : stack[i] \in Frames
         /\ \A i \in DOMAIN stack : stack[i].c \in Calls \cup {NoCall}
                                    /\ stack[i].then \in Afterwards
         /\ stack # <<>> => Len(stack) \in DOMAIN stack
  <1>1. stack \in Seq(Frames)
    BY DEF TypeOK, Frames
  <1>2. /\ DOMAIN stack = 1..Len(stack) /\ Len(stack) \in Nat
        /\ \A i \in DOMAIN stack : stack[i] \in Frames
        /\ stack # <<>> => Len(stack) # 0
    BY <1>1
  <1>3. \A f \in Frames : f.c \in Calls \cup {NoCall} /\ f.then \in Afterwards
    BY DEF Frames
  <1> QED
    BY <1>1, <1>2, <1>3

\* A frame is pushed: nothing else was going on with its call.
LEMMA PushFacts ==
  ASSUME TypeOK, OneFrame, NEW c \in Calls \cup {NoCall}, NEW a \in Afterwards,
         Push(c, a), c \in Calls => ~BeingAnswered(c)
  PROVE  /\ stack' \in Seq(Frames)
         /\ Len(stack) \in Nat /\ DOMAIN stack = 1..Len(stack)
         /\ \A i \in DOMAIN stack : i \in DOMAIN stack' /\ stack'[i] = stack[i]
         /\ \A i \in DOMAIN stack' : i \in DOMAIN stack \/ i = Len(stack) + 1
         /\ Len(stack) + 1 \in DOMAIN stack'
         /\ stack'[Len(stack) + 1].c = c /\ stack'[Len(stack) + 1].then = a
         /\ OneFrame'
         /\ \A d \in Calls : BeingAnswered(d)' <=> BeingAnswered(d) \/ d = c
         /\ \A k : Walking(k)' <=> Walking(k) \/ k = a
  <1> DEFINE f == [c |-> c, then |-> a, user |-> TRUE]
             n == Len(stack)
  <1>1. stack \in Seq(Frames) /\ f \in Frames /\ stack' = Append(stack, f)
    BY StackFacts DEF Frames, Push
  <1>2. f.c = c /\ f.then = a
    OBVIOUS
  <1> HIDE DEF f
  <1>3. /\ stack' \in Seq(Frames) /\ Len(stack') = n + 1 /\ n \in Nat
        /\ DOMAIN stack = 1..n /\ DOMAIN stack' = 1..(n + 1)
        /\ \A i \in 1..n : stack'[i] = stack[i]
        /\ stack'[n + 1] = f
    BY <1>1
  <1> HIDE DEF n
  <1>4. /\ \A i \in DOMAIN stack : i \in DOMAIN stack' /\ stack'[i] = stack[i]
        /\ \A i \in DOMAIN stack' : i \in DOMAIN stack \/ i = n + 1
        /\ n + 1 \in DOMAIN stack'
    BY <1>3
  <1>5. OneFrame'
    <2>1. \A i \in DOMAIN stack : stack[i].c = c => c = NoCall
      BY DEF BeingAnswered
    <2> QED
      BY <1>2, <1>3, <1>4, <2>1 DEF OneFrame
  <1>6. \A d \in Calls : BeingAnswered(d)' <=> BeingAnswered(d) \/ d = c
    BY <1>2, <1>3, <1>4 DEF BeingAnswered
  <1>7. \A k : Walking(k)' <=> Walking(k) \/ k = a
    BY <1>2, <1>3, <1>4 DEF Walking
  <1> QED
    BY <1>2, <1>3, <1>4, <1>5, <1>6, <1>7 DEF n

\* The stack without its innermost frame.
LEMMA PoppedFacts ==
  ASSUME TypeOK, stack # <<>>
  PROVE  /\ Popped \in Seq(Frames)
         /\ Len(stack) \in DOMAIN stack /\ Top = stack[Len(stack)]
         /\ \A i \in DOMAIN Popped : i \in DOMAIN stack /\ i < Len(stack) /\ Popped[i] = stack[i]
         /\ \A i \in DOMAIN stack : i = Len(stack) \/ i \in DOMAIN Popped
         /\ Len(stack) \in Nat
  <1> DEFINE last == Len(stack) - 1
  <1>1. /\ stack \in Seq(Frames) /\ DOMAIN stack = 1..Len(stack)
        /\ Len(stack) \in Nat /\ Len(stack) # 0
        /\ last \in Nat /\ last = Len(stack) - 1
    BY StackFacts
  <1>2. \A i \in 1..last : stack[i] \in Frames /\ i \in DOMAIN stack /\ i < Len(stack)
    BY <1>1
  <1>3. \A i \in DOMAIN stack : i = Len(stack) \/ i \in 1..last
    BY <1>1
  <1> HIDE DEF last
  <1>4. /\ SubSeq(stack, 1, last) \in Seq(Frames)
        /\ Len(SubSeq(stack, 1, last)) = IF 1 <= last THEN last - 1 + 1 ELSE 0
        /\ \A i \in 1..(last - 1 + 1) : SubSeq(stack, 1, last)[i] = stack[1 + i - 1]
    BY <1>1, <1>2, SubSeqProperties
  <1>5. Popped = SubSeq(stack, 1, last)
    BY DEF last, Popped
  <1>6. Len(Popped) = last
    BY <1>1, <1>4, <1>5
  <1>7. DOMAIN Popped = 1..last
    BY <1>4, <1>5, <1>6, LenProperties
  <1>8. \A i \in 1..last : Popped[i] = stack[i]
    <2>1. \A i \in 1..last : 1 + i - 1 = i /\ i \in 1..(last - 1 + 1)
      BY <1>1
    <2> QED
      BY <1>4, <1>5, <2>1
  <1> QED
    BY <1>1, <1>2, <1>3, <1>4, <1>5, <1>7, <1>8, StackFacts DEF Top

\* The innermost frame is popped: its call was nowhere else in the stack.
LEMMA PopFacts ==
  ASSUME TypeOK, OneFrame, stack # <<>>, stack' = Popped
  PROVE  /\ stack' \in Seq(Frames)
         /\ Len(stack) \in DOMAIN stack /\ Top = stack[Len(stack)]
         /\ \A i \in DOMAIN stack' : i \in DOMAIN stack /\ stack'[i] = stack[i]
         /\ OneFrame'
         /\ Top.c # NoCall => \A i \in DOMAIN stack' : stack'[i].c # Top.c
         /\ \A d \in Calls : d # Top.c => (BeingAnswered(d)' <=> BeingAnswered(d))
         /\ \A k : Walking(k)' => Walking(k)
  <1>1. /\ Len(stack) \in DOMAIN stack /\ Top = stack[Len(stack)] /\ Len(stack) \in Nat
        /\ \A i \in DOMAIN stack' : i \in DOMAIN stack /\ i # Len(stack) /\ stack'[i] = stack[i]
        /\ \A i \in DOMAIN stack : i = Len(stack) \/ i \in DOMAIN stack'
        /\ stack' \in Seq(Frames)
    BY PoppedFacts
  <1>2. OneFrame'
    BY <1>1 DEF OneFrame
  <1>3. Top.c # NoCall => \A i \in DOMAIN stack' : stack'[i].c # Top.c
    BY <1>1 DEF OneFrame
  <1>4. \A d \in Calls : d # Top.c => (BeingAnswered(d)' <=> BeingAnswered(d))
    BY <1>1 DEF BeingAnswered
  <1>5. \A k : Walking(k)' => Walking(k)
    BY <1>1 DEF Walking
  <1> QED
    BY <1>1, <1>2, <1>3, <1>4, <1>5

-----------------------------------------------------------------------------
(***************************************************************************)
(* Steps of one call                                                       *)
(***************************************************************************)
CallsTyped ==
    /\ kind \in [Calls -> Kinds \cup {"none"}]
    /\ pack \in [Calls -> {"none", "live", "freed", "lost"}]
    /\ op \in [Calls -> BOOLEAN]
    /\ timer \in [Calls -> {"off", "armed", "firing"}]
    /\ told \in [Calls -> 0..1]
    /\ closing \subseteq Calls

Same(d) ==
    /\ kind'[d] = kind[d] /\ pack'[d] = pack[d] /\ op'[d] = op[d]
    /\ timer'[d] = timer[d] /\ told'[d] = told[d]
    /\ d \in closing' <=> d \in closing

OneCall(c) ==
    /\ \A d \in Calls \ {c} : Same(d)
    /\ CallsTyped' /\ UNCHANGED <<service, known, phase, cursor>> /\ fault' = FALSE

\* What the types of a call's state say.
LEMMA TypeFacts ==
  ASSUME TypeOK
  PROVE  /\ CallsTyped
         /\ \A c \in Calls : /\ kind[c] \in Kinds \cup {"none"} /\ told[c] \in {0, 1}
                             /\ pack[c] \in {"none", "live", "freed", "lost"}
                             /\ op[c] \in BOOLEAN /\ timer[c] \in {"off", "armed", "firing"}
         /\ fault \in BOOLEAN /\ phase \in {"running", "cancelAll", "stopped"}
  <1>1. CallsTyped
    BY DEF TypeOK, CallsTyped
  <1> QED
    BY <1>1 DEF TypeOK, CallsTyped

\* The other calls are as well as they were ...
LEMMA OthersKept ==
  ASSUME IInv, NEW c \in Calls, OneCall(c), NEW d \in Calls, d # c,
         BeingAnswered(d) => BeingAnswered(d)', Walking("init")' => Walking("init")
  PROVE  CallOK(d)'
  <1>1. Same(d) /\ UNCHANGED <<service, known, phase>>
    BY DEF OneCall
  <1>2. StateOK(d) /\ (Answering(d) => BeingAnswered(d)) /\ NotWalked(d)
    BY DEF IInv, CallOK
  <1>3. StateOK(d)'
    BY <1>1, <1>2 DEF StateOK, Same, Uses
  <1>4. Answering(d)' => BeingAnswered(d)'
    BY <1>1, <1>2 DEF Answering, Same
  <1>5. NotWalked(d)'
    BY <1>1, <1>2 DEF NotWalked, Same
  <1> QED
    BY <1>3, <1>4, <1>5 DEF CallOK

\* ... and so are their frames.
LEMMA FrameKept ==
  ASSUME IInv, NEW c \in Calls, OneCall(c), NEW i \in DOMAIN stack,
         stack'[i].c = stack[i].c, stack'[i].then = stack[i].then, stack[i].c # c
  PROVE  FrameOK(i)'
  <1>1. FrameOK(i)
    BY DEF IInv
  <1>2. CASE stack[i].c = NoCall
    BY <1>1, <1>2 DEF FrameOK
  <1>3. CASE stack[i].c # NoCall
    <2>1. PICK d \in Calls : stack[i].c = d
      BY <1>3, StackFacts DEF IInv
    <2>2. PICK a \in Afterwards : stack[i].then = a
      BY StackFacts DEF IInv
    <2>3. Same(d) /\ UNCHANGED service
      BY <2>1 DEF OneCall
    <2>4. ThenOK(d, a)
      BY <1>1, <1>3, <2>1, <2>2 DEF FrameOK
    <2>5. ThenOK(d, a)'
      BY <2>3, <2>4 DEF ThenOK, Same, Uses
    <2>6. ThenOK(d, a)' => ThenOK(stack[i].c, stack[i].then)'
      BY <2>1, <2>2 DEF ThenOK
    <2> QED
      BY <1>1, <2>5, <2>6 DEF FrameOK
  <1> QED
    BY <1>2, <1>3

\* So are the types, and the cursor.
LEMMA RestKept ==
  ASSUME IInv, NEW c \in Calls, OneCall(c), stack' \in Seq(Frames)
  PROVE  TypeOK' /\ CursorOK' /\ ~fault'
  <1>1. CallsTyped' /\ UNCHANGED <<service, known, phase, cursor>> /\ fault' = FALSE
    BY DEF OneCall
  <1>2. TypeOK /\ CursorOK
    BY DEF IInv
  <1>3. CursorOK'
    BY <1>1, <1>2 DEF CursorOK, CursorExact
  <1>4. /\ service' \in [Services -> {"up", "queued", "down"}]
        /\ known' \subseteq {"estimate", "init"}
        /\ phase' \in {"running", "cancelAll", "stopped"}
        /\ fault' \in BOOLEAN
    BY <1>1, <1>2 DEF TypeOK
  <1>5. cursor' \in [uid : Uids, kept : SUBSET Entries, got : SUBSET Entries, twice : BOOLEAN,
                    state : {"idle", "asked", "yielded", "refused", "over"}]
    BY <1>1, <1>2 DEF TypeOK
  <1> QED
    BY <1>1, <1>3, <1>4, <1>5 DEF TypeOK, CallsTyped, Frames

\* A step of one call that leaves the stack alone, while nothing is going on with it.
LEMMA StayStep ==
  ASSUME IInv, NEW c \in Calls, OneCall(c), UNCHANGED stack, ~BeingAnswered(c),
         StateOK(c)', ~Answering(c)', NotWalked(c)'
  PROVE  IInv'
  <1>1. \A k : Walking(k)' <=> Walking(k)
    BY DEF Walking
  <1>2. \A d \in Calls : BeingAnswered(d)' <=> BeingAnswered(d)
    BY DEF BeingAnswered
  <1>3. ASSUME NEW d \in Calls PROVE CallOK(d)'
    <2>1. CASE d = c
      BY <2>1 DEF CallOK
    <2>2. CASE d # c
      BY <1>1, <1>2, <2>2, OthersKept
    <2> QED
      BY <2>1, <2>2
  <1>4. ASSUME NEW i \in DOMAIN stack' PROVE FrameOK(i)'
    <2>1. i \in DOMAIN stack /\ stack[i].c # c
      BY DEF BeingAnswered
    <2> QED
      BY <2>1, FrameKept
  <1>5. TypeOK' /\ CursorOK' /\ ~fault'
    BY RestKept, StackFacts DEF IInv
  <1>6. OneFrame'
    BY DEF IInv, OneFrame
  <1> QED
    BY <1>3, <1>4, <1>5, <1>6 DEF IInv

\* One that pushes a frame for the call.
LEMMA PushStep ==
  ASSUME IInv, NEW c \in Calls, OneCall(c), ~BeingAnswered(c),
         NEW a \in Afterwards \ ({"task"} \cup Observed), Push(c, a),
         StateOK(c)', NotWalked(c)', ThenOK(c, a)'
  PROVE  IInv'
  <1> DEFINE n == Len(stack) + 1
  <1>1. TypeOK /\ OneFrame /\ CursorOK /\ c # NoCall
    BY RequestsAssumption DEF IInv
  <1>2. /\ stack' \in Seq(Frames)
        /\ \A i \in DOMAIN stack : i \in DOMAIN stack' /\ stack'[i] = stack[i]
        /\ \A i \in DOMAIN stack' : i \in DOMAIN stack \/ i = n
        /\ stack'[n].c = c /\ stack'[n].then = a
        /\ OneFrame'
        /\ \A d \in Calls : BeingAnswered(d)' <=> BeingAnswered(d) \/ d = c
        /\ \A k : Walking(k)' <=> Walking(k) \/ k = a
    BY <1>1, PushFacts
  <1> HIDE DEF n
  <1>3. Walking("init")' => Walking("init")
    BY <1>2 DEF Observed
  <1>4. ASSUME NEW d \in Calls PROVE CallOK(d)'
    <2>1. CASE d = c
      BY <1>2, <2>1 DEF CallOK
    <2>2. CASE d # c
      BY <1>2, <1>3, <2>2, OthersKept
    <2> QED
      BY <2>1, <2>2
  <1>5. ASSUME NEW i \in DOMAIN stack' PROVE FrameOK(i)'
    <2>1. CASE i \in DOMAIN stack
      <3>1. stack'[i] = stack[i] /\ stack[i].c # c
        BY <1>2, <2>1 DEF BeingAnswered
      <3> QED
        BY <2>1, <3>1, FrameKept
    <2>2. CASE i = n
      <3>1. stack'[i].c = c /\ stack'[i].then = a
        BY <1>2, <2>2
      <3>2. ThenOK(c, a)' => ThenOK(stack[i].c, stack[i].then)'
        BY <3>1 DEF ThenOK
      <3> QED
        BY <1>1, <3>1, <3>2 DEF FrameOK
    <2> QED
      BY <1>2, <2>1, <2>2
  <1>6. TypeOK' /\ CursorOK' /\ ~fault'
    BY <1>2, RestKept
  <1> QED
    BY <1>2, <1>4, <1>5, <1>6 DEF IInv

\* One that goes on when the code under the call's callback returns.
LEMMA PopStep ==
  ASSUME IInv, NEW c \in Calls, OneCall(c), stack # <<>>, Top.c = c, stack' = Popped,
         StateOK(c)', ~Answering(c)', NotWalked(c)'
  PROVE  IInv'
  <1>1. TypeOK /\ OneFrame /\ CursorOK /\ c # NoCall
    BY RequestsAssumption DEF IInv
  <1>2. /\ stack' \in Seq(Frames)
        /\ \A i \in DOMAIN stack' : i \in DOMAIN stack /\ stack'[i] = stack[i]
        /\ OneFrame'
        /\ \A i \in DOMAIN stack' : stack'[i].c # c
        /\ \A d \in Calls : d # c => (BeingAnswered(d)' <=> BeingAnswered(d))
        /\ Walking("init")' => Walking("init")
    BY <1>1, PopFacts
  <1>3. ASSUME NEW d \in Calls PROVE CallOK(d)'
    <2>1. CASE d = c
      BY <2>1 DEF CallOK
    <2>2. CASE d # c
      BY <1>2, <2>2, OthersKept
    <2> QED
      BY <2>1, <2>2
  <1>4. ASSUME NEW i \in DOMAIN stack' PROVE FrameOK(i)'
    BY <1>2, FrameKept
  <1>5. TypeOK' /\ CursorOK' /\ ~fault'
    BY <1>2, RestKept
  <1> QED
    BY <1>2, <1>3, <1>4, <1>5 DEF IInv

-----------------------------------------------------------------------------
(***************************************************************************)
(* Making a call                                                           *)
(***************************************************************************)

\* No frame goes on with a call that has not been made.
LEMMA UnmadeIsNowhere ==
  ASSUME IInv, NEW c \in Calls, kind[c] = "none"
  PROVE  ~BeingAnswered(c)
  <1> SUFFICES ASSUME NEW i \in DOMAIN stack, stack[i].c = c PROVE FALSE
    BY DEF BeingAnswered
  <1>1. PICK a \in Afterwards : stack[i].then = a
    BY StackFacts DEF IInv
  <1>2. FrameOK(i) /\ c # NoCall
    BY RequestsAssumption DEF IInv
  <1>3. ThenOK(c, a) /\ a \notin {"task"} \cup Observed
    BY <1>1, <1>2 DEF FrameOK
  <1> QED
    BY <1>3 DEF ThenOK, Afterwards, Observed, Single

\* A call that has not been made has nothing.
LEMMA UnmadeFacts ==
  ASSUME IInv, NEW c \in Calls, kind[c] = "none"
  PROVE  told[c] = 0 /\ timer[c] = "off" /\ c \notin closing
  BY DEF IInv, CallOK, StateOK

\* A call comes into being: what it has, and what it does not touch.
LEMMA MadeFacts ==
  ASSUME IInv, NEW c \in Calls, NEW k \in Kinds, NEW p \in {"none", "live", "freed", "lost"},
         NEW active \in BOOLEAN, Made(c, k, p, active), UNCHANGED known,
         \/ UNCHANGED told
         \/ Tell(c),
         \/ UNCHANGED timer
         \/ timer' = ArmTimer(c)
  PROVE  /\ ~BeingAnswered(c) /\ OneCall(c)
         /\ kind'[c] = k /\ pack'[c] = p /\ op'[c] = active
         /\ UNCHANGED told => told'[c] = 0
         /\ Tell(c) => told'[c] = 1
         /\ UNCHANGED timer => timer'[c] = "off"
         /\ timer' = ArmTimer(c) => timer'[c] = "armed"
         /\ c \notin closing' /\ phase' = phase /\ phase # "stopped"
         /\ \A s \in Services : Uses(k, s) => service'[s] = "up"
  <1>1. kind[c] = "none" /\ phase # "stopped" /\ UNCHANGED <<service, closing, cursor, phase>>
        /\ \A s \in Services : Uses(k, s) => service[s] = "up"
    BY DEF Made
  <1>2. told[c] = 0 /\ timer[c] = "off" /\ c \notin closing /\ ~BeingAnswered(c)
    BY <1>1, UnmadeFacts, UnmadeIsNowhere
  <1>3. CallsTyped
    BY TypeFacts DEF IInv
  <1>4. /\ kind' \in [Calls -> Kinds \cup {"none"}] /\ kind'[c] = k
        /\ \A d \in Calls \ {c} : kind'[d] = kind[d]
    BY <1>3 DEF Made, CallsTyped
  <1>5. /\ pack' \in [Calls -> {"none", "live", "freed", "lost"}] /\ pack'[c] = p
        /\ \A d \in Calls \ {c} : pack'[d] = pack[d]
    BY <1>3 DEF Made, CallsTyped
  <1>6. /\ op' \in [Calls -> BOOLEAN] /\ op'[c] = active
        /\ \A d \in Calls \ {c} : op'[d] = op[d]
    BY <1>3 DEF Made, CallsTyped
  <1>7. /\ told' \in [Calls -> 0..1] /\ \A d \in Calls \ {c} : told'[d] = told[d]
        /\ UNCHANGED told => told'[c] = 0
        /\ Tell(c) => told'[c] = 1
    BY <1>2, <1>3 DEF Tell, CallsTyped
  <1>8. /\ timer' \in [Calls -> {"off", "armed", "firing"}]
        /\ \A d \in Calls \ {c} : timer'[d] = timer[d]
        /\ UNCHANGED timer => timer'[c] = "off"
        /\ timer' = ArmTimer(c) => timer'[c] = "armed"
    BY <1>2, <1>3 DEF ArmTimer, CallsTyped
  <1>9. fault' = FALSE
    BY DEF Made, InUser, IInv
  <1>10. CallsTyped'
    BY <1>1, <1>3, <1>4, <1>5, <1>6, <1>7, <1>8 DEF CallsTyped
  <1>11. OneCall(c)
    BY <1>1, <1>4, <1>5, <1>6, <1>7, <1>8, <1>9, <1>10 DEF OneCall, Same
  <1> QED
    BY <1>1, <1>2, <1>4, <1>5, <1>6, <1>7, <1>8, <1>11

\* Every operation has a name of its own.
LEMMA KindFacts == "none" \notin Kinds
  BY DEF Kinds, ServiceKinds

LEMMA PendingStep ==
  ASSUME IInv, NEW c \in Calls, NEW k \in Kinds \ {"lookup"}, Pending(c, k)
  PROVE  IInv'
  <1>1. Made(c, k, "live", TRUE) /\ UNCHANGED <<timer, told, known, stack>>
    BY DEF Pending
  <1>2. /\ ~BeingAnswered(c) /\ OneCall(c)
        /\ kind'[c] = k /\ pack'[c] = "live" /\ op'[c] = TRUE /\ told'[c] = 0
        /\ timer'[c] = "off" /\ c \notin closing'
        /\ \A s \in Services : Uses(k, s) => service'[s] = "up"
    BY <1>1, MadeFacts
  <1>3. StateOK(c)'
    BY <1>2, KindFacts DEF StateOK
  <1>4. ~Answering(c)' /\ NotWalked(c)'
    BY <1>2 DEF Answering, NotWalked
  <1> QED
    BY <1>1, <1>2, <1>3, <1>4, StayStep

LEMMA ThrowsStep ==
  ASSUME IInv, NEW c \in Calls, NEW k \in Kinds, NEW p \in {"freed", "lost"}, Throws(c, k, p)
  PROVE  IInv'
  <1>1. Made(c, k, p, FALSE) /\ Tell(c) /\ UNCHANGED <<timer, known, stack>>
    BY DEF Throws
  <1>2. /\ ~BeingAnswered(c) /\ OneCall(c)
        /\ kind'[c] = k /\ pack'[c] = p /\ op'[c] = FALSE /\ told'[c] = 1
        /\ timer'[c] = "off" /\ c \notin closing'
    BY <1>1, MadeFacts
  <1>3. StateOK(c)'
    BY <1>2, KindFacts DEF StateOK
  <1>4. ~Answering(c)' /\ NotWalked(c)'
    BY <1>2 DEF Answering, NotWalked
  <1> QED
    BY <1>1, <1>2, <1>3, <1>4, StayStep

LEMMA AnswersAtOnceStep ==
  ASSUME IInv, NEW c \in Calls, NEW k \in {"put", "getOne"}, AnswersAtOnce(c, k)
  PROVE  IInv'
  <1>1. Made(c, k, "live", FALSE) /\ Tell(c) /\ Push(c, "free") /\ UNCHANGED <<timer, known>>
    BY DEF AnswersAtOnce
  <1>2. k \in Kinds
    BY DEF Kinds, ServiceKinds
  <1>3. /\ ~BeingAnswered(c) /\ OneCall(c)
        /\ kind'[c] = k /\ pack'[c] = "live" /\ op'[c] = FALSE /\ told'[c] = 1
        /\ timer'[c] = "off" /\ c \notin closing'
        /\ \A s \in Services : Uses(k, s) => service'[s] = "up"
    BY <1>1, <1>2, MadeFacts
  <1>4. StateOK(c)'
    BY <1>3 DEF StateOK
  <1>5. NotWalked(c)' /\ ThenOK(c, "free")'
    BY <1>3 DEF NotWalked, ThenOK, Single
  <1> QED
    BY <1>1, <1>3, <1>4, <1>5, PushStep DEF Afterwards, Observed

LEMMA LookupStep ==
  ASSUME IInv, NEW c \in Calls, Lookup(c)
  PROVE  IInv'
  <1>1. /\ phase = "running" /\ Made(c, "lookup", "live", TRUE)
        /\ timer' = ArmTimer(c) /\ UNCHANGED <<told, known, stack>>
    BY DEF Lookup
  <1>2. "lookup" \in Kinds
    BY DEF Kinds, ServiceKinds
  <1>3. /\ ~BeingAnswered(c) /\ OneCall(c)
        /\ kind'[c] = "lookup" /\ pack'[c] = "live" /\ op'[c] = TRUE /\ told'[c] = 0
        /\ timer'[c] = "armed" /\ c \notin closing' /\ phase' = "running"
        /\ \A s \in Services : Uses("lookup", s) => service'[s] = "up"
    BY <1>1, <1>2, MadeFacts
  <1>4. StateOK(c)'
    BY <1>3 DEF StateOK
  <1>5. ~Answering(c)' /\ NotWalked(c)'
    BY <1>3 DEF Answering, NotWalked
  <1> QED
    BY <1>1, <1>3, <1>4, <1>5, StayStep

LEMMA EstimateStep ==
  ASSUME IInv, NEW c \in Calls, Estimate(c)
  PROVE  IInv'
  <1>1. "estimate" \in Kinds \ {"lookup"}
    BY DEF Kinds
  <1>2. CASE "estimate" \notin known
    BY <1>1, <1>2, PendingStep DEF Estimate
  <1>3. CASE "estimate" \in known
    <2>1. Made(c, "estimate", "none", FALSE) /\ Tell(c) /\ UNCHANGED <<timer, known, stack>>
      BY <1>3 DEF Estimate
    <2>2. /\ ~BeingAnswered(c) /\ OneCall(c)
          /\ kind'[c] = "estimate" /\ pack'[c] = "none" /\ op'[c] = FALSE /\ told'[c] = 1
          /\ timer'[c] = "off" /\ c \notin closing'
      BY <1>1, <2>1, MadeFacts
    <2>3. StateOK(c)'
      BY <2>2 DEF StateOK
    <2>4. ~Answering(c)' /\ NotWalked(c)'
      BY <2>2 DEF Answering, NotWalked
    <2> QED
      BY <2>1, <2>2, <2>3, <2>4, StayStep
  <1> QED
    BY <1>2, <1>3

LEMMA WaitForInitStep ==
  ASSUME IInv, NEW c \in Calls, WaitForInit(c)
  PROVE  IInv'
  <1>1. /\ Made(c, "init", "live", TRUE) /\ UNCHANGED <<timer, known, stack>>
        /\ \A i \in DOMAIN stack : stack[i].then # "init"
        /\ "init" \in known => Tell(c)
        /\ "init" \notin known => UNCHANGED told
    BY DEF WaitForInit
  <1>2. "init" \in Kinds
    BY DEF Kinds
  <1>3. /\ ~BeingAnswered(c) /\ OneCall(c)
        /\ kind'[c] = "init" /\ pack'[c] = "live" /\ op'[c] = TRUE
        /\ told'[c] = IF "init" \in known THEN 1 ELSE 0
        /\ timer'[c] = "off" /\ c \notin closing'
    BY <1>1, <1>2, MadeFacts
  <1>4. StateOK(c)'
    BY <1>3 DEF StateOK, Uses, ServiceKinds
  <1>5. ~Answering(c)'
    BY <1>3 DEF Answering, Observed
  <1>6. NotWalked(c)'
    BY <1>1, <1>3 DEF NotWalked, Walking
  <1> QED
    BY <1>1, <1>3, <1>4, <1>5, <1>6, StayStep

LEMMA MakeStep ==
  ASSUME IInv, NEW c \in Calls, Make(c)
  PROVE  IInv'
  <1>1. /\ {"change", "ego", "identities", "records", "store", "put", "getOne", "peers",
            "addPeer", "hello", "list", "dhtPut"} \subseteq Kinds \ {"lookup"}
    BY DEF Kinds, ServiceKinds
  <1>2. CASE Lookup(c) \/ Estimate(c) \/ WaitForInit(c)
    BY <1>2, LookupStep, EstimateStep, WaitForInitStep
  <1>3. CASE ChangeIdentity(c) \/ AddPeer(c) \/ HelloMessage(c) \/ ListPeers(c)
    BY <1>1, <1>3, PendingStep DEF ChangeIdentity, AddPeer, HelloMessage, ListPeers
  <1>4. CASE GetEgo(c) \/ Peers(c) \/ DhtPut(c)
    BY <1>1, <1>4, PendingStep, ThrowsStep DEF GetEgo, Peers, DhtPut
  <1>5. CASE GetIdentities(c) \/ LookupRecords(c) \/ StoreRecords(c)
    BY <1>1, <1>5, PendingStep, ThrowsStep DEF GetIdentities, LookupRecords, StoreRecords
  <1>6. CASE PutData(c) \/ GetOne(c)
    BY <1>1, <1>6, PendingStep, AnswersAtOnceStep DEF PutData, GetOne
  <1> QED
    BY <1>2, <1>3, <1>4, <1>5, <1>6 DEF Make

-----------------------------------------------------------------------------
(***************************************************************************)
(* Being answered                                                          *)
(***************************************************************************)

\* Between two tasks no call is half answered: one that GNUnet still holds has not been
\* told, but for an iteration that has ended and an observer of what was known already.
LEMMA IdleFacts ==
  ASSUME IInv, NEW c \in Calls, Idle
  PROVE  /\ ~BeingAnswered(c) /\ ~Answering(c)
         /\ op[c] => pack[c] = "live"
         /\ op[c] /\ kind[c] \notin {"identities", "init"} => told[c] = 0
         /\ op[c] /\ kind[c] = "identities" /\ c \notin closing => told[c] = 0
         /\ op[c] => \A s \in Services : Uses(kind[c], s) => service[s] # "down"
  <1>1. ~BeingAnswered(c)
    BY DEF Idle, BeingAnswered
  <1>2. StateOK(c) /\ ~Answering(c) /\ told[c] \in {0, 1}
    BY <1>1, TypeFacts DEF IInv, CallOK
  <1> QED
    BY <1>1, <1>2 DEF StateOK, Answering, Observed

\* An answer arrives, at its caller or at the iteration's callback.
LEMMA AnsweredFacts ==
  ASSUME IInv, NEW c \in Calls, NEW k \in Kinds, NEW a \in Afterwards, NEW active \in BOOLEAN,
         Answered(c, k, a, active), UNCHANGED timer, told[c] = 0,
         \/ UNCHANGED told
         \/ Tell(c),
         \/ UNCHANGED closing
         \/ closing' = EndOfEgos(c)
  PROVE  /\ ~BeingAnswered(c) /\ OneCall(c) /\ Push(c, a)
         /\ kind'[c] = k /\ pack'[c] = "live" /\ op'[c] = active /\ timer'[c] = timer[c]
         /\ UNCHANGED told => told'[c] = 0
         /\ Tell(c) => told'[c] = 1
         /\ UNCHANGED closing => (c \in closing' <=> c \in closing)
         /\ closing' = EndOfEgos(c) => c \in closing'
         /\ \A s \in Services : Uses(k, s) => service'[s] # "down"
         /\ StateOK(c) /\ kind[c] = k /\ op[c] /\ pack[c] = "live" /\ UNCHANGED <<phase, service>>
  <1>1. /\ Idle /\ kind[c] = k /\ op[c] /\ fault' = (pack[c] # "live")
        /\ Push(c, a) /\ UNCHANGED <<kind, pack, service, known, cursor, phase>>
        /\ op' = [op EXCEPT ![c] = active]
    BY DEF Answered
  <1>2. /\ ~BeingAnswered(c) /\ pack[c] = "live"
        /\ \A s \in Services : Uses(k, s) => service[s] # "down"
    BY <1>1, IdleFacts
  <1>3. CallsTyped /\ StateOK(c)
    BY TypeFacts DEF IInv, CallOK
  <1>4. /\ op' \in [Calls -> BOOLEAN] /\ op'[c] = active
        /\ \A d \in Calls \ {c} : op'[d] = op[d]
    BY <1>1, <1>3 DEF CallsTyped
  <1>5. /\ told' \in [Calls -> 0..1] /\ \A d \in Calls \ {c} : told'[d] = told[d]
        /\ UNCHANGED told => told'[c] = 0
        /\ Tell(c) => told'[c] = 1
    BY <1>3 DEF Tell, CallsTyped
  <1>6. /\ closing' \subseteq Calls /\ \A d \in Calls \ {c} : d \in closing' <=> d \in closing
        /\ closing' = EndOfEgos(c) => c \in closing'
    BY <1>3 DEF EndOfEgos, CallsTyped
  <1>7. fault' = FALSE
    BY <1>1, <1>2
  <1>8. CallsTyped'
    BY <1>1, <1>3, <1>4, <1>5, <1>6 DEF CallsTyped
  <1>9. OneCall(c)
    BY <1>1, <1>4, <1>5, <1>6, <1>7, <1>8 DEF OneCall, Same
  <1> QED
    BY <1>1, <1>2, <1>3, <1>4, <1>5, <1>6, <1>9

LEMMA RepliedStep ==
  ASSUME IInv, NEW c \in Calls, NEW k \in Single, Replied(c, k)
  PROVE  IInv'
  <1>1. /\ Answered(c, k, "free", FALSE) /\ Tell(c) /\ UNCHANGED <<timer, closing>>
        /\ k \in Kinds /\ k \notin {"lookup", "identities", "init", "estimate", "none"}
    BY DEF Replied, Single, Kinds, ServiceKinds
  <1>2. told[c] = 0
    BY <1>1, IdleFacts DEF Answered
  <1>3. "free" \in Afterwards \ ({"task"} \cup Observed)
    BY DEF Afterwards, Observed
  <1>4. /\ ~BeingAnswered(c) /\ OneCall(c) /\ Push(c, "free")
        /\ kind'[c] = k /\ pack'[c] = "live" /\ op'[c] = FALSE /\ timer'[c] = timer[c]
        /\ told'[c] = 1 /\ (c \in closing' <=> c \in closing)
        /\ \A s \in Services : Uses(k, s) => service'[s] # "down"
        /\ StateOK(c) /\ kind[c] = k
    BY <1>1, <1>2, <1>3, AnsweredFacts
  <1>5. StateOK(c)'
    BY <1>1, <1>4 DEF StateOK
  <1>6. NotWalked(c)' /\ ThenOK(c, "free")'
    BY <1>1, <1>4 DEF NotWalked, ThenOK
  <1> QED
    BY <1>3, <1>4, <1>5, <1>6, PushStep

LEMMA LookupResultStep ==
  ASSUME IInv, NEW c \in Calls, ProcessLookupResult(c)
  PROVE  IInv'
  <1>1. /\ Answered(c, "lookup", "cancelTimer", FALSE) /\ Tell(c) /\ UNCHANGED <<timer, closing>>
        /\ "lookup" \in Kinds
    BY DEF ProcessLookupResult, LookupResult, Kinds, ServiceKinds
  <1>2. told[c] = 0
    BY <1>1, IdleFacts DEF Answered
  <1>3. "cancelTimer" \in Afterwards \ ({"task"} \cup Observed)
    BY DEF Afterwards, Observed
  <1>4. /\ ~BeingAnswered(c) /\ OneCall(c) /\ Push(c, "cancelTimer")
        /\ kind'[c] = "lookup" /\ pack'[c] = "live" /\ op'[c] = FALSE /\ timer'[c] = timer[c]
        /\ told'[c] = 1 /\ (c \in closing' <=> c \in closing)
        /\ \A s \in Services : Uses("lookup", s) => service'[s] # "down"
        /\ StateOK(c) /\ kind[c] = "lookup" /\ op[c]
    BY <1>1, <1>2, <1>3, AnsweredFacts
  <1>5. timer'[c] = "armed" /\ c \notin closing'
    BY <1>2, <1>4 DEF StateOK
  <1>6. StateOK(c)'
    BY <1>4, <1>5 DEF StateOK
  <1>7. NotWalked(c)' /\ ThenOK(c, "cancelTimer")'
    BY <1>4, <1>5 DEF NotWalked, ThenOK
  <1> QED
    BY <1>3, <1>4, <1>6, <1>7, PushStep

LEMMA IdentityInfoStep ==
  ASSUME IInv, NEW c \in Calls, IdentityInfo(c)
  PROVE  IInv'
  <1>1. /\ Answered(c, "identities", "nothing", TRUE) /\ UNCHANGED timer /\ c \notin closing
        /\ \/ UNCHANGED <<told, closing>>
           \/ Tell(c) /\ closing' = EndOfEgos(c)
        /\ "identities" \in Kinds
    BY DEF IdentityInfo, Kinds
  <1>2. told[c] = 0
    BY <1>1, IdleFacts DEF Answered
  <1>3. "nothing" \in Afterwards \ ({"task"} \cup Observed)
    BY DEF Afterwards, Observed
  <1>4. /\ ~BeingAnswered(c) /\ OneCall(c) /\ Push(c, "nothing")
        /\ kind'[c] = "identities" /\ pack'[c] = "live" /\ op'[c] = TRUE /\ timer'[c] = timer[c]
        /\ \/ told'[c] = 0 /\ c \notin closing'
           \/ told'[c] = 1 /\ c \in closing'
        /\ StateOK(c) /\ kind[c] = "identities"
    BY <1>1, <1>2, <1>3, AnsweredFacts
  <1>5. StateOK(c)'
    BY <1>4 DEF StateOK, Uses, ServiceKinds
  <1>6. NotWalked(c)' /\ ThenOK(c, "nothing")'
    BY <1>4 DEF NotWalked, ThenOK, Uses, ServiceKinds
  <1> QED
    BY <1>3, <1>4, <1>5, <1>6, PushStep

LEMMA HelloReplyStep ==
  ASSUME IInv, NEW c \in Calls, HelloReply(c)
  PROVE  IInv'
  <1>1. Tell(c) /\ UNCHANGED <<timer, closing>> /\ "hello" \in Kinds
    BY DEF HelloReply, Kinds
  <1>2. /\ "cancelHello" \in Afterwards \ ({"task"} \cup Observed)
        /\ "free" \in Afterwards \ ({"task"} \cup Observed)
    BY DEF Afterwards, Observed
  <1>3. ASSUME NEW a \in {"cancelHello", "free"}, NEW active \in BOOLEAN,
               Answered(c, "hello", a, active), active <=> a = "cancelHello"
        PROVE  IInv'
    <2>1. told[c] = 0
      BY <1>3, IdleFacts DEF Answered
    <2>2. /\ ~BeingAnswered(c) /\ OneCall(c) /\ Push(c, a)
          /\ kind'[c] = "hello" /\ pack'[c] = "live" /\ op'[c] = active /\ timer'[c] = timer[c]
          /\ told'[c] = 1 /\ (c \in closing' <=> c \in closing)
          /\ StateOK(c) /\ kind[c] = "hello"
      BY <1>1, <1>2, <1>3, <2>1, AnsweredFacts
    <2>3. StateOK(c)'
      BY <2>2 DEF StateOK, Uses, ServiceKinds
    <2>4. NotWalked(c)' /\ ThenOK(c, a)'
      BY <1>3, <2>2 DEF NotWalked, ThenOK, Uses, ServiceKinds
    <2> QED
      BY <1>2, <1>3, <2>2, <2>3, <2>4, PushStep
  <1> QED
    BY <1>3 DEF HelloReply

LEMMA ReplyStep ==
  ASSUME IInv, NEW c \in Calls, Reply(c)
  PROVE  IInv'
  <1>1. CASE ProcessLookupResult(c) \/ IdentityInfo(c) \/ HelloReply(c)
    BY <1>1, LookupResultStep, IdentityInfoStep, HelloReplyStep
  <1>2. CASE ChangeReply(c) \/ EgoReply(c) \/ RecordsReply(c) \/ StoreReply(c) \/ PutReply(c)
    BY <1>2, RepliedStep
    DEF ChangeReply, EgoReply, RecordsReply, StoreReply, PutReply, Single
  <1>3. CASE GetReply(c) \/ PeersReply(c) \/ AddPeerReply(c) \/ ListReply(c) \/ DhtPutReply(c)
    BY <1>3, RepliedStep
    DEF GetReply, PeersReply, AddPeerReply, ListReply, DhtPutReply, Single
  <1> QED
    BY <1>1, <1>2, <1>3 DEF Reply

\* The timer of a lookup that has not been answered.
LEMMA TimesOutStep ==
  ASSUME IInv, NEW c \in Calls, TimesOut(c)
  PROVE  IInv'
  <1>1. /\ Idle /\ timer[c] = "armed" /\ timer' = [timer EXCEPT ![c] = "firing"]
        /\ fault' = (pack[c] # "live") /\ Tell(c) /\ Push(c, "cancelLookup")
        /\ UNCHANGED <<kind, pack, op, service, closing, known, cursor, phase>>
    BY DEF TimesOut
  <1>2. ~BeingAnswered(c) /\ ~Answering(c)
    BY <1>1, IdleFacts
  <1>3. CallsTyped /\ StateOK(c) /\ told[c] \in {0, 1}
    BY TypeFacts DEF IInv, CallOK
  <1>4. kind[c] = "lookup" /\ pack[c] = "live" /\ told[c] = 0 /\ op[c] /\ c \notin closing
    BY <1>1, <1>2, <1>3 DEF StateOK, Answering, Observed
  <1>5. /\ timer' \in [Calls -> {"off", "armed", "firing"}] /\ timer'[c] = "firing"
        /\ \A d \in Calls \ {c} : timer'[d] = timer[d]
    BY <1>1, <1>3 DEF CallsTyped
  <1>6. /\ told' \in [Calls -> 0..1] /\ told'[c] = 1
        /\ \A d \in Calls \ {c} : told'[d] = told[d]
    BY <1>1, <1>3, <1>4 DEF Tell, CallsTyped
  <1>7. CallsTyped' /\ fault' = FALSE
    BY <1>1, <1>3, <1>4, <1>5, <1>6 DEF CallsTyped
  <1>8. OneCall(c)
    BY <1>1, <1>5, <1>6, <1>7 DEF OneCall, Same
  <1>9. StateOK(c)'
    BY <1>1, <1>3, <1>4, <1>5, <1>6 DEF StateOK
  <1>10. NotWalked(c)' /\ ThenOK(c, "cancelLookup")'
    BY <1>1, <1>3, <1>4, <1>5, <1>6 DEF NotWalked, ThenOK, StateOK
  <1>11. "cancelLookup" \in Afterwards \ ({"task"} \cup Observed)
    BY DEF Afterwards, Observed
  <1> QED
    BY <1>1, <1>2, <1>8, <1>9, <1>10, <1>11, PushStep

-----------------------------------------------------------------------------
(***************************************************************************)
(* When user code returns                                                  *)
(***************************************************************************)

\* The innermost frame, and the state of its call.
LEMMA TopFacts ==
  ASSUME IInv, NEW c \in Calls, NEW a \in Afterwards, Finished(c, a)
  PROVE  /\ stack # <<>> /\ Top.c = c /\ stack' = Popped
         /\ ThenOK(c, a) /\ StateOK(c) /\ NotWalked(c)
         /\ a \notin {"task"} \cup Observed
         /\ told[c] \in {0, 1} /\ timer[c] \in {"off", "armed", "firing"}
         /\ fault = FALSE
  <1>1. stack # <<>> /\ Top.c = c /\ Top.then = a /\ stack' = Popped
    BY DEF Finished, Returning
  <1>2. Len(stack) \in DOMAIN stack /\ c # NoCall
    BY <1>1, StackFacts, RequestsAssumption DEF IInv
  <1>3. FrameOK(Len(stack)) /\ stack[Len(stack)].c = c /\ stack[Len(stack)].then = a
    BY <1>1, <1>2 DEF IInv, Top
  <1>4. ThenOK(c, a) /\ a \notin {"task"} \cup Observed
    BY <1>2, <1>3 DEF FrameOK
  <1> QED
    BY <1>1, <1>4, TypeFacts DEF IInv, CallOK

\* A pack is deleted by the code that follows the callback of its call.
LEMMA DeletedStep ==
  ASSUME IInv, NEW c \in Calls,
         NEW a \in {"free", "cancelTimer", "cancelLookup", "cancelHello"},
         Finished(c, a), Deleted(c), fault' = FALSE,
         \/ UNCHANGED op
         \/ op' = [op EXCEPT ![c] = FALSE],
         \/ UNCHANGED timer
         \/ timer' = [timer EXCEPT ![c] = "off"],
         op'[c] = FALSE, timer'[c] = "off"
  PROVE  IInv'
  <1>1. a \in Afterwards
    BY DEF Afterwards
  <1>2. /\ stack # <<>> /\ Top.c = c /\ stack' = Popped
        /\ ThenOK(c, a) /\ StateOK(c) /\ NotWalked(c) /\ told[c] \in {0, 1}
    BY <1>1, TopFacts
  <1>3. UNCHANGED <<kind, told, service, closing, known, cursor, phase>>
    BY DEF Finished
  <1>4. CallsTyped
    BY TypeFacts DEF IInv
  <1>5. /\ pack' \in [Calls -> {"none", "live", "freed", "lost"}] /\ pack'[c] = "freed"
        /\ \A d \in Calls \ {c} : pack'[d] = pack[d]
    BY <1>4 DEF Deleted, CallsTyped
  <1>6. op' \in [Calls -> BOOLEAN] /\ \A d \in Calls \ {c} : op'[d] = op[d]
    BY <1>4 DEF CallsTyped
  <1>7. /\ timer' \in [Calls -> {"off", "armed", "firing"}]
        /\ \A d \in Calls \ {c} : timer'[d] = timer[d]
    BY <1>4 DEF CallsTyped
  <1>8. CallsTyped'
    BY <1>3, <1>4, <1>5, <1>6, <1>7 DEF CallsTyped
  <1>9. OneCall(c)
    BY <1>3, <1>5, <1>6, <1>7, <1>8 DEF OneCall, Same
  <1>10. told[c] = 1 /\ kind[c] \notin {"none", "identities"}
    BY <1>2 DEF ThenOK, StateOK, Single
  <1>11. StateOK(c)'
    BY <1>2, <1>3, <1>5, <1>10 DEF StateOK
  <1>12. ~Answering(c)' /\ NotWalked(c)'
    BY <1>5 DEF Answering, NotWalked
  <1> QED
    BY <1>2, <1>9, <1>11, <1>12, PopStep

LEMMA DeletePackStep ==
  ASSUME IInv, NEW c \in Calls, DeletePack(c)
  PROVE  IInv'
  <1>1. /\ Finished(c, "free") /\ Deleted(c) /\ fault' = (pack[c] # "live")
        /\ UNCHANGED <<op, timer>>
    BY DEF DeletePack
  <1>2. ThenOK(c, "free") /\ StateOK(c)
    BY <1>1, TopFacts DEF Afterwards
  <1>3. pack[c] = "live" /\ ~op[c] /\ kind[c] # "lookup"
    BY <1>2 DEF ThenOK, Single
  <1>4. timer[c] = "off" /\ op[c] \in BOOLEAN
    BY <1>2, <1>3, TypeFacts DEF StateOK, IInv
  <1> QED
    BY <1>1, <1>3, <1>4, DeletedStep

LEMMA CancelTimerStep ==
  ASSUME IInv, NEW c \in Calls, CancelTimer(c)
  PROVE  IInv'
  <1>1. /\ Finished(c, "cancelTimer") /\ Deleted(c) /\ UNCHANGED op
        /\ timer' = [timer EXCEPT ![c] = "off"]
        /\ fault' = (pack[c] # "live" \/ timer[c] # "armed")
    BY DEF CancelTimer
  <1>2. ThenOK(c, "cancelTimer")
    BY <1>1, TopFacts DEF Afterwards
  <1>3. pack[c] = "live" /\ ~op[c] /\ timer[c] = "armed" /\ op[c] \in BOOLEAN
    BY <1>2, TypeFacts DEF ThenOK, IInv
  <1>4. timer'[c] = "off"
    BY <1>1, TypeFacts DEF IInv, CallsTyped
  <1> QED
    BY <1>1, <1>3, <1>4, DeletedStep

LEMMA CancelLookupStep ==
  ASSUME IInv, NEW c \in Calls, CancelLookup(c)
  PROVE  IInv'
  <1>1. /\ Finished(c, "cancelLookup") /\ Deleted(c)
        /\ timer' = [timer EXCEPT ![c] = "off"] /\ op' = [op EXCEPT ![c] = FALSE]
        /\ fault' = (pack[c] # "live" \/ ~op[c] \/ service["gns"] = "down")
    BY DEF CancelLookup
  <1>2. ThenOK(c, "cancelLookup") /\ StateOK(c)
    BY <1>1, TopFacts DEF Afterwards
  <1>3. Uses("lookup", "gns") /\ "gns" \in Services
    BY DEF Uses, ServiceKinds, Services
  <1>4. pack[c] = "live" /\ op[c] /\ service["gns"] # "down"
    BY <1>2, <1>3 DEF ThenOK, StateOK
  <1>5. timer'[c] = "off" /\ op'[c] = FALSE
    BY <1>1, TypeFacts DEF IInv, CallsTyped
  <1> QED
    BY <1>1, <1>4, <1>5, DeletedStep

LEMMA CancelHelloStep ==
  ASSUME IInv, NEW c \in Calls, CancelHello(c)
  PROVE  IInv'
  <1>1. /\ Finished(c, "cancelHello") /\ Deleted(c) /\ UNCHANGED timer
        /\ op' = [op EXCEPT ![c] = FALSE] /\ fault' = (pack[c] # "live" \/ ~op[c])
    BY DEF CancelHello
  <1>2. ThenOK(c, "cancelHello") /\ StateOK(c)
    BY <1>1, TopFacts DEF Afterwards
  <1>3. pack[c] = "live" /\ op[c] /\ timer[c] = "off"
    BY <1>2 DEF ThenOK, StateOK
  <1>4. op'[c] = FALSE
    BY <1>1, TypeFacts DEF IInv, CallsTyped
  <1> QED
    BY <1>1, <1>3, <1>4, DeletedStep

LEMMA NothingStep ==
  ASSUME IInv, NEW c \in Calls, Nothing(c)
  PROVE  IInv'
  <1>1. /\ Finished(c, "nothing")
        /\ UNCHANGED <<kind, pack, op, timer, told, service, closing, known, cursor, phase, fault>>
    BY DEF Nothing, Finished
  <1>2. /\ stack # <<>> /\ Top.c = c /\ stack' = Popped /\ fault = FALSE
        /\ ThenOK(c, "nothing") /\ StateOK(c) /\ NotWalked(c)
    BY <1>1, TopFacts DEF Afterwards
  <1>3. OneCall(c)
    BY <1>1, <1>2, TypeFacts DEF IInv, OneCall, Same, CallsTyped
  <1>4. StateOK(c)'
    BY <1>1, <1>2 DEF StateOK, Uses
  <1>5. ~Answering(c)'
    BY <1>1, <1>2 DEF Answering, ThenOK
  <1>6. Walking("init")' => Walking("init")
    BY <1>2, PopFacts DEF IInv
  <1>7. NotWalked(c)'
    BY <1>1, <1>2, <1>6 DEF NotWalked
  <1> QED
    BY <1>2, <1>3, <1>4, <1>5, <1>7, PopStep

-----------------------------------------------------------------------------
(***************************************************************************)
(* Observers                                                               *)
(***************************************************************************)

\* An observer is called once, by the walk over the vector it is in.
LEMMA CallObserverStep ==
  ASSUME IInv, NEW c \in Calls, CallObserver(c)
  PROVE  IInv'
  <1>1. /\ Returning /\ kind[c] = Top.then /\ op[c]
        /\ op' = [op EXCEPT ![c] = FALSE] /\ Tell(c) /\ Push(c, "nothing")
        /\ fault' = (pack[c] # "live" \/ told[c] > 0)
        /\ UNCHANGED <<kind, pack, timer, service, closing, known, cursor, phase>>
    BY DEF CallObserver, Unseen
  <1>2. /\ Len(stack) \in DOMAIN stack /\ Top.then \in Afterwards
        /\ Top = stack[Len(stack)]
    BY <1>1, StackFacts DEF IInv, Returning, Top
  <1>3. CallsTyped /\ StateOK(c) /\ NotWalked(c) /\ told[c] \in {0, 1} /\ timer[c] = "off"
    <2>1. kind[c] # "lookup"
      BY <1>1, <1>2 DEF Afterwards
    <2> QED
      BY <2>1, TypeFacts DEF IInv, CallOK, StateOK
  <1>4. kind[c] \in Observed
    <2>1. kind[c] \in Kinds \cup {"none"} /\ kind[c] \in Afterwards
      BY <1>1, <1>2, TypeFacts DEF IInv
    <2> QED
      BY <2>1 DEF Afterwards, Kinds, ServiceKinds, Observed
  <1>5. ~BeingAnswered(c)
    <2> SUFFICES ASSUME NEW i \in DOMAIN stack, stack[i].c = c PROVE FALSE
      BY DEF BeingAnswered
    <2>1. PICK a \in Afterwards : stack[i].then = a
      BY StackFacts DEF IInv
    <2>2. FrameOK(i) /\ c # NoCall
      BY RequestsAssumption DEF IInv
    <2>3. ThenOK(c, a) /\ a \notin {"task"} \cup Observed
      BY <2>1, <2>2 DEF FrameOK
    <2> QED
      BY <1>1, <1>4, <2>3 DEF ThenOK, Afterwards, Observed, Single
  <1>6. told[c] = 0 /\ pack[c] = "live" /\ c \notin closing
    <2>1. CASE kind[c] = "estimate"
      BY <1>1, <1>3, <2>1 DEF StateOK
    <2>2. CASE kind[c] = "init"
      <3>1. Walking("init")
        BY <1>1, <1>2, <2>2 DEF Walking
      <3> QED
        BY <1>1, <1>3, <2>2, <3>1 DEF StateOK, NotWalked
    <2> QED
      BY <1>4, <2>1, <2>2 DEF Observed
  <1>7. /\ op' \in [Calls -> BOOLEAN] /\ op'[c] = FALSE
        /\ \A d \in Calls \ {c} : op'[d] = op[d]
    BY <1>1, <1>3 DEF CallsTyped
  <1>8. /\ told' \in [Calls -> 0..1] /\ told'[c] = 1
        /\ \A d \in Calls \ {c} : told'[d] = told[d]
    BY <1>1, <1>3, <1>6 DEF Tell, CallsTyped
  <1>9. CallsTyped'
    BY <1>1, <1>3, <1>7, <1>8 DEF CallsTyped
  <1>10. OneCall(c)
    <2>1. ~(pack[c] # "live" \/ told[c] > 0)
      BY <1>6
    <2> QED
      BY <1>1, <1>7, <1>8, <1>9, <2>1 DEF OneCall, Same
  <1>11. StateOK(c)'
    BY <1>1, <1>3, <1>4, <1>6, <1>7, <1>8 DEF StateOK, Observed
  <1>12. NotWalked(c)' /\ ThenOK(c, "nothing")'
    BY <1>1, <1>4, <1>7 DEF NotWalked, ThenOK, Observed, Uses, ServiceKinds
  <1>13. "nothing" \in Afterwards \ ({"task"} \cup Observed)
    BY DEF Afterwards, Observed
  <1> QED
    BY <1>1, <1>5, <1>10, <1>11, <1>12, <1>13, PushStep

-----------------------------------------------------------------------------
(***************************************************************************)
(* Steps that change no call                                               *)
(***************************************************************************)

\* When nothing happens to the calls and their connections, and frames come and go that
\* belong to no call, the calls and the other frames are as well as they were.
LEMMA NoCallStep ==
  ASSUME IInv, UNCHANGED <<kind, pack, op, timer, told, closing, service>>,
         phase' = "stopped" <=> phase = "stopped",
         TypeOK', CursorOK', ~fault', OneFrame',
         \A d \in Calls : BeingAnswered(d) => BeingAnswered(d)',
         \A d \in Calls : NotWalked(d)',
         \A i \in DOMAIN stack' :
            \/ i \in DOMAIN stack /\ stack'[i].c = stack[i].c /\ stack'[i].then = stack[i].then
            \/ stack'[i].c = NoCall /\ stack'[i].then \in {"task"} \cup Observed
  PROVE  IInv'
  <1>1. ASSUME NEW d \in Calls PROVE CallOK(d)'
    <2>1. CallOK(d)
      BY DEF IInv
    <2>2. StateOK(d)'
      BY <2>1 DEF CallOK, StateOK, Uses
    <2>3. Answering(d)' => BeingAnswered(d)'
      BY <2>1 DEF CallOK, Answering
    <2> QED
      BY <2>2, <2>3 DEF CallOK
  <1>2. ASSUME NEW i \in DOMAIN stack' PROVE FrameOK(i)'
    <2>1. CASE stack'[i].c = NoCall /\ stack'[i].then \in {"task"} \cup Observed
      BY <2>1 DEF FrameOK
    <2>2. CASE i \in DOMAIN stack /\ stack'[i].c = stack[i].c /\ stack'[i].then = stack[i].then
      <3>1. FrameOK(i)
        BY <2>2 DEF IInv
      <3> QED
        BY <2>2, <3>1 DEF FrameOK, ThenOK, Uses
    <2> QED
      BY <2>1, <2>2
  <1> QED
    BY <1>1, <1>2 DEF IInv

\* The types, when the calls stay as they are.
LEMMA TypesKept ==
  ASSUME TypeOK, UNCHANGED <<kind, pack, op, timer, told, closing, service>>,
         stack' \in Seq(Frames), known' \subseteq {"estimate", "init"},
         \/ UNCHANGED cursor
         \/ cursor' \in [uid : Uids, kept : SUBSET Entries, got : SUBSET Entries,
                         twice : BOOLEAN, state : {"idle", "asked", "yielded", "refused", "over"}],
         phase' \in {"running", "cancelAll", "stopped"}, fault' \in BOOLEAN
  PROVE  TypeOK'
  BY DEF TypeOK, Frames

\* A task of the user's begins, or the generator's consumer goes on.
LEMMA PushTaskStep ==
  ASSUME IInv, UNCHANGED <<kind, pack, op, timer, told, closing, service, known, phase, fault>>,
         Push(NoCall, "task"), CursorOK',
         \/ UNCHANGED cursor
         \/ cursor' \in [uid : Uids, kept : SUBSET Entries, got : SUBSET Entries,
                         twice : BOOLEAN, state : {"idle", "asked", "yielded", "refused", "over"}]
  PROVE  IInv'
  <1> DEFINE n == Len(stack) + 1
  <1>1. "task" \in Afterwards /\ NoCall \notin Calls /\ TypeOK /\ OneFrame /\ fault = FALSE
    BY RequestsAssumption, TypeFacts DEF Afterwards, IInv
  <1>2. /\ stack' \in Seq(Frames)
        /\ \A i \in DOMAIN stack : i \in DOMAIN stack' /\ stack'[i] = stack[i]
        /\ \A i \in DOMAIN stack' : i \in DOMAIN stack \/ i = n
        /\ stack'[n].c = NoCall /\ stack'[n].then = "task"
        /\ OneFrame'
        /\ \A d \in Calls : BeingAnswered(d)' <=> BeingAnswered(d) \/ d = NoCall
        /\ \A k : Walking(k)' <=> Walking(k) \/ k = "task"
    BY <1>1, PushFacts
  <1> HIDE DEF n
  <1>3. known' \subseteq {"estimate", "init"} /\ phase' \in {"running", "cancelAll", "stopped"}
    BY DEF IInv, TypeOK
  <1>4. TypeOK'
    BY <1>1, <1>2, <1>3, TypesKept
  <1>5. \A d \in Calls : NotWalked(d)'
    BY <1>2 DEF IInv, CallOK, NotWalked
  <1> QED
    BY <1>1, <1>2, <1>4, <1>5, NoCallStep

LEMMA TaskStep ==
  ASSUME IInv, Task
  PROVE  IInv'
  <1>1. CursorOK'
    BY DEF Task, IInv, CursorOK, CursorExact
  <1> QED
    BY <1>1, PushTaskStep DEF Task

LEMMA StopStep ==
  ASSUME IInv, Stop
  PROVE  IInv'
  <1>1. /\ UNCHANGED <<kind, pack, op, timer, told, service, closing, known, cursor, stack, fault>>
        /\ phase = "running" /\ phase' = "cancelAll"
    BY DEF Stop
  <1>2. TypeOK' /\ CursorOK' /\ ~fault' /\ OneFrame'
    BY <1>1 DEF IInv, TypeOK, CursorOK, CursorExact, OneFrame
  <1>3. \A d \in Calls : BeingAnswered(d) => BeingAnswered(d)'
    BY <1>1 DEF BeingAnswered
  <1>4. \A d \in Calls : NotWalked(d)'
    BY <1>1 DEF IInv, CallOK, NotWalked, Walking
  <1> QED
    BY <1>1, <1>2, <1>3, <1>4, NoCallStep

\* The observers' walk begins.  What is known for the first time had nobody told.
LEMMA ObserveStep ==
  ASSUME IInv, NEW k \in Observed, Observe(k)
  PROVE  IInv'
  <1> DEFINE f == [c |-> NoCall, then |-> k, user |-> FALSE]
  <1>1. /\ stack = <<>> /\ stack' = <<f>>
        /\ k = "init" => k \notin known
        /\ known' = known \cup {k} /\ k \in {"estimate", "init"}
        /\ UNCHANGED <<kind, pack, op, timer, told, service, closing, cursor, phase, fault>>
    BY DEF Observe, Idle, Observed
  <1>2. f \in Frames /\ f.c = NoCall /\ f.then = k
    BY <1>1 DEF Frames, Afterwards
  <1> HIDE DEF f
  <1>3. stack' \in Seq(Frames) /\ DOMAIN stack' = {1} /\ stack'[1] = f
    BY <1>1, <1>2
  <1>4. known' \subseteq {"estimate", "init"} /\ phase' \in {"running", "cancelAll", "stopped"}
        /\ fault' \in BOOLEAN /\ ~fault'
    BY <1>1 DEF IInv, TypeOK
  <1>5. TypeOK'
    BY <1>1, <1>3, <1>4, TypesKept DEF IInv
  <1>6. CursorOK' /\ OneFrame'
    BY <1>1, <1>3 DEF IInv, CursorOK, CursorExact, OneFrame
  <1>7. \A d \in Calls : BeingAnswered(d) => BeingAnswered(d)'
    BY <1>1 DEF BeingAnswered
  <1>8. ASSUME NEW d \in Calls PROVE NotWalked(d)'
    <2>1. NotWalked(d)
      BY DEF IInv, CallOK
    <2>2. CASE k = "init"
      BY <1>1, <2>1, <2>2 DEF NotWalked
    <2>3. CASE k # "init"
      <3>1. ~Walking("init")'
        BY <1>2, <1>3, <2>3 DEF Walking
      <3> QED
        BY <1>1, <2>1, <3>1 DEF NotWalked
    <2> QED
      BY <2>2, <2>3
  <1>9. \A i \in DOMAIN stack' :
           stack'[i].c = NoCall /\ stack'[i].then \in {"task"} \cup Observed
    BY <1>2, <1>3
  <1> QED
    BY <1>1, <1>4, <1>5, <1>6, <1>7, <1>8, <1>9, NoCallStep

\* User code returns: to a task's end, or into the library.
LEMMA UserReturnsStep ==
  ASSUME IInv, UserReturns
  PROVE  IInv'
  <1> DEFINE n == Len(stack)
  <1>1. /\ stack # <<>> /\ TypeOK /\ OneFrame
        /\ UNCHANGED <<kind, pack, op, timer, told, service, closing, known, cursor, phase, fault>>
        /\ stack' = IF Top.then = "task" THEN Popped ELSE [stack EXCEPT ![n].user = FALSE]
    BY DEF UserReturns, InUser, IInv
  <1>2. CursorOK' /\ ~fault' /\ fault' \in BOOLEAN
    BY <1>1, TypeFacts DEF IInv, CursorOK, CursorExact
  <1>3. known' \subseteq {"estimate", "init"} /\ phase' \in {"running", "cancelAll", "stopped"}
    BY <1>1 DEF TypeOK
  <1>4. CASE Top.then = "task"
    <2>1. n \in DOMAIN stack /\ Top = stack[n]
      BY <1>1, PoppedFacts
    <2>2. Top.c = NoCall
      BY <1>4, <2>1 DEF IInv, FrameOK
    <2>3. /\ stack' \in Seq(Frames) /\ OneFrame'
          /\ \A i \in DOMAIN stack' : i \in DOMAIN stack /\ stack'[i] = stack[i]
          /\ \A d \in Calls : d # Top.c => (BeingAnswered(d)' <=> BeingAnswered(d))
          /\ Walking("init")' => Walking("init")
      BY <1>1, <1>4, PopFacts
    <2>4. TypeOK'
      BY <1>1, <1>2, <1>3, <2>3, TypesKept
    <2>5. \A d \in Calls : BeingAnswered(d) => BeingAnswered(d)'
      BY <2>2, <2>3, RequestsAssumption
    <2>6. \A d \in Calls : NotWalked(d)'
      BY <1>1, <2>3 DEF IInv, CallOK, NotWalked
    <2> QED
      BY <1>1, <1>2, <2>3, <2>4, <2>5, <2>6, NoCallStep
  <1>5. CASE Top.then # "task"
    <2>1. stack \in Seq(Frames) /\ n \in DOMAIN stack /\ stack[n] \in Frames
      BY <1>1, StackFacts
    <2> DEFINE f == [stack[n] EXCEPT !.user = FALSE]
    <2>2. stack' = [stack EXCEPT ![n] = f]
      BY <1>1, <1>5
    <2>3. f \in Frames /\ f.c = stack[n].c /\ f.then = stack[n].then
      BY <2>1 DEF Frames
    <2> HIDE DEF f
    <2>4. /\ stack' \in Seq(Frames) /\ DOMAIN stack' = DOMAIN stack
          /\ \A i \in DOMAIN stack : stack'[i] = IF i = n THEN f ELSE stack[i]
      BY <2>1, <2>2, <2>3
    <2>5. \A i \in DOMAIN stack :
             stack'[i].c = stack[i].c /\ stack'[i].then = stack[i].then
      BY <2>3, <2>4
    <2>6. OneFrame'
      BY <1>1, <2>4, <2>5 DEF OneFrame
    <2>7. TypeOK'
      BY <1>1, <1>2, <1>3, <2>4, TypesKept
    <2>8. \A d \in Calls : BeingAnswered(d) => BeingAnswered(d)'
      BY <2>4, <2>5 DEF BeingAnswered
    <2>9. Walking("init")' => Walking("init")
      BY <2>4, <2>5 DEF Walking
    <2>10. \A d \in Calls : NotWalked(d)'
      BY <1>1, <2>9 DEF IInv, CallOK, NotWalked
    <2> QED
      BY <1>1, <1>2, <2>4, <2>5, <2>6, <2>7, <2>8, <2>10, NoCallStep
  <1> QED
    BY <1>4, <1>5


\* The walk ends.  Who was told the network's size is forgotten; nobody else is.
LEMMA ObserversDoneStep ==
  ASSUME IInv, ObserversDone
  PROVE  IInv'
  <1> DEFINE k == Top.then
  <1>1. /\ stack # <<>> /\ k \in Observed /\ Unseen(k) = {} /\ stack' = Popped
        /\ pack' = [c \in Calls |-> IF c \in ClearObservers(k) /\ pack[c] = "live"
                                    THEN "freed" ELSE pack[c]]
        /\ UNCHANGED <<kind, op, timer, told, service, closing, known, cursor, phase, fault>>
    BY DEF ObserversDone, Returning, Observed
  <1> HIDE DEF k
  <1>2. TypeOK /\ OneFrame /\ CursorOK /\ fault = FALSE /\ CallsTyped
    BY TypeFacts DEF IInv
  <1>3. Len(stack) \in DOMAIN stack /\ Top = stack[Len(stack)]
    BY <1>1, <1>2, PopFacts
  <1>4. Top.c = NoCall
    BY <1>1, <1>3 DEF IInv, FrameOK, k
  <1>5. /\ stack' \in Seq(Frames) /\ OneFrame'
        /\ \A i \in DOMAIN stack' : i \in DOMAIN stack /\ stack'[i] = stack[i]
        /\ \A d \in Calls : BeingAnswered(d)' <=> BeingAnswered(d)
        /\ Walking("init")' => Walking("init")
    BY <1>1, <1>2, <1>4, PopFacts, RequestsAssumption
  <1>6. ASSUME NEW d \in Calls
        PROVE  \/ pack'[d] = pack[d]
               \/ kind[d] = "estimate" /\ pack'[d] = "freed" /\ ~op[d] /\ told[d] = 1
    <2>1. CASE d \in ClearObservers(k) /\ pack[d] = "live"
      <3>1. kind[d] = "estimate" /\ k = "estimate" /\ pack'[d] = "freed"
        BY <1>1, <2>1 DEF ClearObservers
      <3>2. ~op[d]
        BY <1>1, <3>1 DEF Unseen
      <3>3. StateOK(d) /\ told[d] \in {0, 1}
        BY TypeFacts DEF IInv, CallOK
      <3> QED
        BY <2>1, <3>1, <3>2, <3>3 DEF StateOK, ServiceKinds
    <2> QED
      BY <1>1, <2>1
  <1>7. ASSUME NEW d \in Calls PROVE CallOK(d)'
    <2>1. CallOK(d)
      BY DEF IInv
    <2>2. NotWalked(d)'
      BY <1>1, <1>5, <2>1 DEF CallOK, NotWalked
    <2>3. CASE pack'[d] = pack[d]
      <3>1. StateOK(d)'
        BY <1>1, <2>1, <2>3 DEF CallOK, StateOK, Uses
      <3>2. Answering(d)' => BeingAnswered(d)'
        BY <1>1, <1>5, <2>1, <2>3 DEF CallOK, Answering
      <3> QED
        BY <2>2, <3>1, <3>2 DEF CallOK
    <2>4. CASE kind[d] = "estimate" /\ pack'[d] = "freed" /\ ~op[d] /\ told[d] = 1
      <3>1. StateOK(d)'
        BY <1>1, <2>1, <2>4 DEF CallOK, StateOK, Uses
      <3> QED
        BY <1>1, <2>2, <2>4, <3>1 DEF CallOK, Answering
    <2> QED
      BY <1>6, <2>3, <2>4
  <1>8. ASSUME NEW i \in DOMAIN stack' PROVE FrameOK(i)'
    <2>1. FrameOK(i) /\ stack'[i] = stack[i] /\ i \in DOMAIN stack
      BY <1>5 DEF IInv
    <2>2. CASE stack[i].c = NoCall
      BY <2>1, <2>2 DEF FrameOK
    <2>3. CASE stack[i].c # NoCall
      <3>1. PICK d \in Calls : stack[i].c = d
        BY <1>2, <2>1, <2>3, StackFacts
      <3>2. PICK a \in Afterwards : stack[i].then = a
        BY <1>2, <2>1, StackFacts
      <3>3. ThenOK(d, a)
        BY <2>1, <2>3, <3>1, <3>2 DEF FrameOK
      <3>4. ThenOK(d, a)'
        BY <1>1, <1>6, <3>3 DEF ThenOK, Uses, Single
      <3>5. ThenOK(d, a)' => ThenOK(stack[i].c, stack[i].then)'
        BY <2>1, <3>1, <3>2 DEF ThenOK
      <3> QED
        BY <2>1, <3>4, <3>5 DEF FrameOK
    <2> QED
      BY <2>2, <2>3
  <1>9. CursorOK'
    BY <1>1, <1>2 DEF CursorOK, CursorExact
  <1>10. pack' \in [Calls -> {"none", "live", "freed", "lost"}]
    BY <1>1, <1>2 DEF CallsTyped
  <1>11. CallsTyped'
    BY <1>1, <1>2, <1>10 DEF CallsTyped
  <1>12. TypeOK'
    BY <1>1, <1>2, <1>5, <1>11 DEF TypeOK, CallsTyped, Frames
  <1> QED
    BY <1>1, <1>2, <1>5, <1>7, <1>8, <1>9, <1>12 DEF IInv

\* The end of an iteration over egos, after its queued disconnection.
LEMMA DisconnectIdentitiesStep ==
  ASSUME IInv, NEW c \in Calls, DisconnectIdentities(c)
  PROVE  IInv'
  <1>1. /\ Idle /\ c \in closing /\ closing' = closing \ {c}
        /\ op' = [op EXCEPT ![c] = FALSE] /\ pack' = [pack EXCEPT ![c] = "freed"]
        /\ fault' = (pack[c] # "live")
        /\ UNCHANGED <<kind, timer, told, service, known, cursor, stack, phase>>
    BY DEF DisconnectIdentities, Deleted
  <1>2. CallsTyped /\ StateOK(c)
    BY TypeFacts DEF IInv, CallOK
  <1>3. kind[c] = "identities" /\ op[c] /\ told[c] = 1 /\ pack[c] = "live" /\ timer[c] = "off"
    BY <1>1, <1>2, TypeFacts DEF IInv, StateOK
  <1>4. /\ op' \in [Calls -> BOOLEAN] /\ op'[c] = FALSE
        /\ \A d \in Calls \ {c} : op'[d] = op[d]
    BY <1>1, <1>2 DEF CallsTyped
  <1>5. /\ pack' \in [Calls -> {"none", "live", "freed", "lost"}] /\ pack'[c] = "freed"
        /\ \A d \in Calls \ {c} : pack'[d] = pack[d]
    BY <1>1, <1>2 DEF CallsTyped
  <1>6. fault' = FALSE
    <2>1. ~(pack[c] # "live")
      BY <1>3
    <2> QED
      BY <1>1, <2>1
  <1>7. CallsTyped'
    BY <1>1, <1>2, <1>4, <1>5 DEF CallsTyped
  <1>8. OneCall(c)
    BY <1>1, <1>4, <1>5, <1>6, <1>7 DEF OneCall, Same
  <1>9. StateOK(c)' /\ ~Answering(c)' /\ NotWalked(c)'
    BY <1>1, <1>3, <1>4, <1>5 DEF StateOK, Answering, NotWalked
  <1> QED
    BY <1>1, <1>8, <1>9, IdleFacts, StayStep

-----------------------------------------------------------------------------
(***************************************************************************)
(* DataStore::get                                                          *)
(***************************************************************************)
Cursors == [uid : Uids, kept : SUBSET Entries, got : SUBSET Entries, twice : BOOLEAN,
            state : {"idle", "asked", "yielded", "refused", "over"}]

LEMMA SmallMod ==
  ASSUME NEW N \in Nat \ {0}, NEW a \in 0..N - 1
  PROVE  a % N = a
  OBVIOUS

\* An entry's uid is not the last one: the iteration goes on after it.
LEMMA UidFacts ==
  /\ Uids \subseteq Nat /\ Entries \subseteq Uids /\ 0 \in Uids
  /\ \A u \in Entries : NextUid(u) = u + 1 /\ NextUid(u) \in Uids
  <1> DEFINE N == 2^UidBits
  <1>1. N \in Nat \ {0} /\ Entries \subseteq 0..N - 2 /\ Uids = 0..N - 1
    BY RequestsAssumption DEF Uids
  <1>2. \A u : NextUid(u) = (u + 1) % N
    BY DEF NextUid
  <1> HIDE DEF N
  <1>3. \A u \in Entries : u + 1 \in 0..N - 1
    BY <1>1
  <1>4. \A u \in Entries : (u + 1) % N = u + 1
    BY <1>1, <1>3, SmallMod
  <1> QED
    BY <1>1, <1>2, <1>3, <1>4

LEMMA AdvanceCursorStep ==
  ASSUME IInv, AdvanceCursor
  PROVE  IInv'
  <1>1. /\ UNCHANGED <<kind, pack, op, timer, told, service, closing, known, stack, phase, fault>>
        /\ cursor.state \in {"idle", "yielded"}
    BY DEF AdvanceCursor
  <1>2. PICK kept \in SUBSET Entries, x \in {"asked", "refused"} :
           /\ cursor.state = "yielded" => kept = cursor.kept
           /\ cursor' = [cursor EXCEPT !.kept = kept, !.state = x]
    BY DEF AdvanceCursor
  <1>3. TypeOK /\ CursorOK /\ cursor \in Cursors /\ fault = FALSE
    BY TypeFacts DEF IInv, TypeOK, Cursors
  <1>4. /\ cursor' \in Cursors
        /\ cursor'.uid = cursor.uid /\ cursor'.got = cursor.got /\ cursor'.kept = kept
        /\ cursor'.twice = cursor.twice /\ cursor'.state = x
    BY <1>2, <1>3 DEF Cursors
  <1>5. \A v \in kept : v < cursor.uid => v \in cursor.got
    <2>1. CASE cursor.state = "yielded"
      BY <1>2, <1>3, <2>1 DEF CursorOK
    <2>2. CASE cursor.state = "idle"
      <3>1. cursor.uid = 0
        BY <1>3, <2>2 DEF CursorOK
      <3> QED
        BY <3>1, UidFacts
    <2> QED
      BY <1>1, <2>1, <2>2
  <1>6. CursorOK'
    BY <1>2, <1>3, <1>4, <1>5 DEF CursorOK, CursorExact
  <1>7. stack' \in Seq(Frames) /\ OneFrame'
    BY <1>1, <1>3, StackFacts DEF IInv, OneFrame
  <1>8. known' \subseteq {"estimate", "init"} /\ phase' \in {"running", "cancelAll", "stopped"}
    BY <1>1, <1>3 DEF TypeOK
  <1>9. TypeOK'
    BY <1>1, <1>3, <1>4, <1>7, <1>8, TypesKept DEF Cursors
  <1>10. \A d \in Calls : BeingAnswered(d) => BeingAnswered(d)'
    BY <1>1 DEF BeingAnswered
  <1>11. \A d \in Calls : NotWalked(d)'
    BY <1>1 DEF IInv, CallOK, NotWalked, Walking
  <1> QED
    BY <1>1, <1>3, <1>6, <1>7, <1>9, <1>10, <1>11, NoCallStep

\* No number of kept lies between uid and u, so what was passed over is still what is got.
LEMMA YieldedFacts ==
  ASSUME NEW got \in SUBSET Nat, NEW kept \in SUBSET Nat, NEW uid \in Nat, NEW u \in Nat,
         u >= uid,
         \A w \in got : w < uid,
         \A v \in kept : v < uid => v \in got,
         \A v \in kept : v >= uid => v >= u
  PROVE  /\ \A w \in got \cup {u} : w < u + 1
         /\ \A v \in kept : v < u + 1 => v \in got \cup {u}
  OBVIOUS

\* GNUnet answers with the first entry from the uid on: no entry that stays is passed
\* over, and none that was yielded comes again.
LEMMA CursorReplyStep ==
  ASSUME IInv, CursorReply
  PROVE  IInv'
  <1>1. /\ UNCHANGED <<kind, pack, op, timer, told, service, closing, known, phase, fault>>
        /\ Push(NoCall, "task")
    BY DEF CursorReply
  <1>2. CursorOK /\ cursor \in Cursors
    BY DEF IInv, TypeOK, Cursors
  <1>3. /\ cursor.uid \in Nat /\ cursor.kept \subseteq Entries /\ cursor.got \subseteq Entries
        /\ cursor.twice = FALSE
    BY <1>2, UidFacts DEF Cursors, CursorOK, CursorExact
  <1>4. CASE \E u \in Answers :
               cursor' = [cursor EXCEPT !.uid = NextUid(u), !.got = @ \cup {u},
                                        !.twice = @ \/ u \in cursor.got, !.state = "yielded"]
    <2>1. PICK u \in Answers :
             cursor' = [cursor EXCEPT !.uid = NextUid(u), !.got = cursor.got \cup {u},
                                      !.twice = cursor.twice \/ u \in cursor.got,
                                      !.state = "yielded"]
      BY <1>4
    <2>2. /\ u \in Entries /\ u \in Nat /\ u >= cursor.uid
          /\ \A v \in cursor.kept : v >= cursor.uid => v >= u
          /\ NextUid(u) = u + 1 /\ NextUid(u) \in Uids
      BY UidFacts DEF Answers
    <2>3. u \notin cursor.got
      BY <1>2, <1>3, <2>2 DEF CursorOK
    <2>4. /\ cursor' \in Cursors
          /\ cursor'.uid = NextUid(u) /\ cursor'.got = cursor.got \cup {u}
          /\ cursor'.kept = cursor.kept /\ cursor'.twice = (cursor.twice \/ u \in cursor.got)
          /\ cursor'.state = "yielded"
      BY <1>2, <2>1, <2>2 DEF Cursors
    <2>5. ~cursor'.twice
      BY <1>3, <2>3, <2>4
    <2>6. cursor.got \subseteq Nat /\ cursor.kept \subseteq Nat
      BY <1>3, UidFacts
    <2>7. /\ \A w \in cursor.got \cup {u} : w < u + 1
          /\ \A v \in cursor.kept : v < u + 1 => v \in cursor.got \cup {u}
      BY <1>2, <1>3, <2>2, <2>6, YieldedFacts DEF CursorOK
    <2>8. CursorOK'
      BY <2>2, <2>4, <2>5, <2>7 DEF CursorOK, CursorExact
    <2> QED
      BY <1>1, <2>4, <2>8, PushTaskStep DEF Cursors
  <1>5. CASE /\ \A v \in cursor.kept : v < cursor.uid
             /\ cursor' = [cursor EXCEPT !.state = "over"]
    <2>1. /\ cursor' \in Cursors
          /\ cursor'.uid = cursor.uid /\ cursor'.got = cursor.got
          /\ cursor'.kept = cursor.kept /\ cursor'.twice = cursor.twice /\ cursor'.state = "over"
      BY <1>2, <1>5 DEF Cursors
    <2>2. CursorOK'
      BY <1>2, <1>5, <2>1 DEF CursorOK, CursorExact
    <2> QED
      BY <1>1, <2>1, <2>2, PushTaskStep DEF Cursors
  <1> QED
    BY <1>4, <1>5 DEF CursorReply


-----------------------------------------------------------------------------
(***************************************************************************)
(* Services and shutdown                                                   *)
(***************************************************************************)

\* The types and the cursor, when only operations, connections and the phase change.
LEMMA ServiceTypes ==
  ASSUME IInv, UNCHANGED <<kind, pack, timer, told, closing, known, cursor, stack, fault>>,
         op' \in [Calls -> BOOLEAN],
         service' \in [Services -> {"up", "queued", "down"}],
         phase' \in {"running", "cancelAll", "stopped"}
  PROVE  TypeOK' /\ CursorOK' /\ ~fault' /\ OneFrame'
  <1>1. TypeOK /\ CursorOK /\ OneFrame /\ fault = FALSE
    BY TypeFacts DEF IInv
  <1>2. CursorOK' /\ OneFrame' /\ ~fault'
    BY <1>1 DEF CursorOK, CursorExact, OneFrame
  <1>3. CallsTyped'
    BY <1>1 DEF TypeOK, CallsTyped
  <1>4. /\ known' \subseteq {"estimate", "init"} /\ fault' \in BOOLEAN
        /\ stack' \in Seq(Frames)
        /\ cursor' \in [uid : Uids, kept : SUBSET Entries, got : SUBSET Entries, twice : BOOLEAN,
                       state : {"idle", "asked", "yielded", "refused", "over"}]
    BY <1>1 DEF TypeOK, Frames
  <1> QED
    BY <1>2, <1>3, <1>4 DEF TypeOK, CallsTyped, Frames

\* A service is destroyed: none of its calls is left, and none of its callbacks is running
\* if it is closed at once.
LEMMA DestroyStep ==
  ASSUME IInv, NEW s \in Services, Destroy(s)
  PROVE  IInv'
  <1>1. /\ service[s] = "up" /\ service' = [service EXCEPT ![s] = Closed(s)]
        /\ \A c \in Calls : Uses(kind[c], s) => ~op[c]
        /\ s \in {"datastore", "peerinfo", "dht"} =>
              \A i \in DOMAIN stack : stack[i].c # NoCall => ~Uses(kind[stack[i].c], s)
        /\ UNCHANGED <<kind, pack, op, timer, told, closing, known, cursor, stack, phase, fault>>
    BY DEF Destroy
  <1>2. TypeOK
    BY DEF IInv
  <1>3. Closed(s) \in {"queued", "down"}
        /\ (s \notin {"datastore", "peerinfo", "dht"} => Closed(s) = "queued")
    BY DEF Closed, Deferred, Services
  <1>4. /\ service' \in [Services -> {"up", "queued", "down"}] /\ service'[s] = Closed(s)
        /\ \A t \in Services : t # s => service'[t] = service[t]
    BY <1>1, <1>2, <1>3 DEF TypeOK
  <1>5. TypeOK' /\ CursorOK' /\ ~fault' /\ OneFrame'
    <2>1. op' \in [Calls -> BOOLEAN] /\ phase' \in {"running", "cancelAll", "stopped"}
      BY <1>1, <1>2 DEF TypeOK
    <2> QED
      BY <1>1, <1>4, <2>1, ServiceTypes
  <1>6. ASSUME NEW d \in Calls PROVE CallOK(d)'
    <2>1. CallOK(d)
      BY DEF IInv
    <2>2. \A t \in Services : op[d] /\ Uses(kind[d], t) => service'[t] = service[t]
      BY <1>1, <1>4
    <2>3. StateOK(d)'
      BY <1>1, <2>1, <2>2 DEF CallOK, StateOK, Uses
    <2>4. (Answering(d) <=> Answering(d)') /\ (BeingAnswered(d) <=> BeingAnswered(d)')
      BY <1>1 DEF Answering, BeingAnswered
    <2>5. NotWalked(d)'
      BY <1>1, <2>1 DEF CallOK, NotWalked, Walking
    <2> QED
      BY <2>1, <2>3, <2>4, <2>5 DEF CallOK
  <1>7. ASSUME NEW i \in DOMAIN stack' PROVE FrameOK(i)'
    <2>1. FrameOK(i) /\ stack'[i] = stack[i] /\ i \in DOMAIN stack
      BY <1>1 DEF IInv
    <2>2. CASE stack[i].c = NoCall
      BY <2>1, <2>2 DEF FrameOK
    <2>3. CASE stack[i].c # NoCall
      <3>1. PICK d \in Calls : stack[i].c = d
        BY <1>2, <2>1, <2>3, StackFacts
      <3>2. PICK a \in Afterwards : stack[i].then = a
        BY <1>2, <2>1, StackFacts
      <3>3. ThenOK(d, a)
        BY <2>1, <2>3, <3>1, <3>2 DEF FrameOK
      <3>4. \A t \in Services : Uses(kind[d], t) => service'[t] # "down"
        BY <1>1, <1>3, <1>4, <2>1, <2>3, <3>1, <3>3 DEF ThenOK
      <3>5. ThenOK(d, a)'
        BY <1>1, <3>3, <3>4 DEF ThenOK, Uses
      <3>6. ThenOK(d, a)' => ThenOK(stack[i].c, stack[i].then)'
        BY <2>1, <3>1, <3>2 DEF ThenOK
      <3> QED
        BY <2>1, <3>5, <3>6 DEF FrameOK
    <2> QED
      BY <2>2, <2>3
  <1> QED
    BY <1>5, <1>6, <1>7 DEF IInv

\* Connections close, and the operations that they carried are gone with them: that is a
\* shutdown, and no lookup is among them.
LEMMA CutOffStep ==
  ASSUME IInv, Idle, NEW S \in SUBSET Services, op' = CutOff(S),
         UNCHANGED <<kind, pack, timer, told, closing, known, cursor, stack, fault>>,
         service' \in [Services -> {"up", "queued", "down"}],
         phase' \in {"running", "cancelAll", "stopped"},
         phase = "stopped" => phase' = "stopped",
         \A c \in Calls : kind[c] = "lookup" /\ op[c] =>
             phase' # "stopped" /\ \A s \in S : ~Uses("lookup", s),
         \A c \in Calls : \A s \in S : op[c] /\ Uses(kind[c], s) => phase' = "stopped",
         \A c \in Calls : \A s \in Services \ S : op[c] /\ Uses(kind[c], s) =>
             service'[s] # "down" /\ (phase' # "stopped" => service'[s] = "up")
  PROVE  IInv'
  <1>1. \A c \in Calls : /\ op'[c] \in BOOLEAN
                         /\ op'[c] <=> op[c] /\ \A s \in S : ~Uses(kind[c], s)
    BY TypeFacts DEF IInv, CutOff
  <1>2. op' \in [Calls -> BOOLEAN]
    BY <1>1 DEF CutOff
  <1>3. TypeOK' /\ CursorOK' /\ ~fault' /\ OneFrame'
    BY <1>2, ServiceTypes
  <1>4. ASSUME NEW d \in Calls PROVE CallOK(d)'
    <2>1. CallOK(d) /\ StateOK(d)
      BY DEF IInv, CallOK
    <2>2. op[d] /\ ~op'[d] =>
             phase' = "stopped" /\ kind[d] \in DOMAIN ServiceKinds /\ kind[d] # "lookup"
      BY <1>1 DEF Uses
    <2>3. kind[d] \in {"identities", "none"} => (op'[d] <=> op[d])
      BY <1>1 DEF Uses, ServiceKinds
    <2>4. \A s \in Services : op'[d] /\ Uses(kind[d], s) =>
             service'[s] # "down" /\ (phase' # "stopped" => service'[s] = "up")
      BY <1>1
    <2>5. StateOK(d)'
      <3>1. pack[d] = "live" /\ told[d] = 0 /\ ~op'[d] =>
               phase' = "stopped" /\ kind[d] \in DOMAIN ServiceKinds \ {"lookup"}
        BY <2>1, <2>2 DEF StateOK
      <3>2. kind[d] = "lookup" /\ op'[d] =>
               phase' # "stopped" /\ (told[d] = 0 => timer[d] = "armed")
        BY <1>1, <2>1 DEF StateOK
      <3>3. d \in closing => kind[d] = "identities" /\ op'[d] /\ told[d] = 1
        BY <2>1, <2>3 DEF StateOK
      <3>4. kind[d] = "identities" /\ pack[d] = "live" =>
               op'[d] /\ (told[d] = 1 => d \in closing)
        BY <2>1, <2>3 DEF StateOK
      <3>5. op'[d] => op[d]
        BY <1>1
      <3> QED
        BY <2>1, <2>4, <3>1, <3>2, <3>3, <3>4, <3>5 DEF StateOK, Uses
    <2>6. Answering(d)' => BeingAnswered(d)'
      BY <2>1 DEF CallOK, Answering, BeingAnswered
    <2>7. NotWalked(d)'
      BY <1>1, <2>1 DEF CallOK, NotWalked, Walking
    <2> QED
      BY <2>5, <2>6, <2>7 DEF CallOK
  <1>5. \A i \in DOMAIN stack' : FALSE
    BY DEF Idle
  <1> QED
    BY <1>3, <1>4, <1>5 DEF IInv

\* A queued disconnection was left by a destructor, and then no call is cut off, or by
\* the shutdown.
LEMMA DisconnectStep ==
  ASSUME IInv, NEW s \in Services, Disconnect(s)
  PROVE  IInv'
  <1>1. /\ Idle /\ service[s] = "queued" /\ service' = [service EXCEPT ![s] = "down"]
        /\ op' = CutOff({s})
        /\ UNCHANGED <<kind, pack, timer, told, closing, known, cursor, stack, phase, fault>>
    BY DEF Disconnect
  <1>2. /\ service' \in [Services -> {"up", "queued", "down"}]
        /\ \A t \in Services : t # s => service'[t] = service[t]
        /\ phase' \in {"running", "cancelAll", "stopped"}
    BY <1>1 DEF IInv, TypeOK
  <1>3. ASSUME NEW c \in Calls, op[c], Uses(kind[c], s)
        PROVE  phase = "stopped" /\ kind[c] # "lookup"
    <2>1. StateOK(c)
      BY DEF IInv, CallOK
    <2>2. phase = "stopped"
      BY <1>1, <1>3, <2>1 DEF StateOK
    <2> QED
      BY <1>3, <2>1, <2>2 DEF StateOK
  <1>4. ASSUME NEW c \in Calls, kind[c] = "lookup", op[c]
        PROVE  phase' # "stopped" /\ ~Uses("lookup", s)
    <2>1. StateOK(c)
      BY DEF IInv, CallOK
    <2> QED
      BY <1>1, <1>3, <1>4, <2>1 DEF StateOK
  <1>5. ASSUME NEW c \in Calls, NEW t \in Services \ {s}, op[c], Uses(kind[c], t)
        PROVE  service'[t] # "down" /\ (phase' # "stopped" => service'[t] = "up")
    <2>1. StateOK(c) /\ service'[t] = service[t]
      BY <1>2 DEF IInv, CallOK
    <2> QED
      BY <1>1, <1>5, <2>1 DEF StateOK
  <1> DEFINE S == {s}
  <1>6. S \in SUBSET Services /\ op' = CutOff(S) /\ \A t \in S : t = s
    BY <1>1
  <1>7. \A t \in Services \ S : t \in Services \ {s}
    OBVIOUS
  <1> HIDE DEF S
  <1> QED
    BY <1>1, <1>2, <1>3, <1>4, <1>5, <1>6, <1>7, CutOffStep

\* cancelAll has called every lookup's timer: no lookup is left to be cut off.
LEMMA RemoveServicesStep ==
  ASSUME IInv, RemoveServices
  PROVE  IInv'
  <1> DEFINE S == {s \in Services : service'[s] = "down"}
  <1>1. /\ Idle /\ phase = "cancelAll" /\ phase' = "stopped"
        /\ \A c \in Calls : timer[c] # "armed"
        /\ service' = [s \in Services |-> IF service[s] = "up" THEN Closed(s) ELSE service[s]]
        /\ op' = CutOff(S)
        /\ UNCHANGED <<kind, pack, timer, told, closing, known, cursor, stack, fault>>
    BY DEF RemoveServices
  <1>2. service' \in [Services -> {"up", "queued", "down"}]
    <2>1. \A s \in Services : service[s] \in {"up", "queued", "down"}
      BY DEF IInv, TypeOK
    <2> QED
      BY <1>1, <2>1 DEF Closed
  <1>3. ASSUME NEW c \in Calls, kind[c] = "lookup", op[c]
        PROVE  FALSE
    <2>1. StateOK(c)
      BY DEF IInv, CallOK
    <2>2. told[c] = 0
      BY <1>1, <1>3, IdleFacts
    <2> QED
      BY <1>1, <1>3, <2>1, <2>2 DEF StateOK
  <1>4. S \in SUBSET Services /\ \A s \in Services \ S : service'[s] # "down"
    OBVIOUS
  <1> HIDE DEF S
  <1> QED
    BY <1>1, <1>2, <1>3, <1>4, CutOffStep

-----------------------------------------------------------------------------
(***************************************************************************)
(* The invariant                                                           *)
(***************************************************************************)
LEMMA InvInit == Init => IInv
  <1> SUFFICES ASSUME Init PROVE IInv
    OBVIOUS
  <1>1. /\ kind = [c \in Calls |-> "none"] /\ pack = [c \in Calls |-> "none"]
        /\ op = [c \in Calls |-> FALSE] /\ timer = [c \in Calls |-> "off"]
        /\ told = [c \in Calls |-> 0] /\ service = [s \in Services |-> "up"]
        /\ closing = {} /\ known = {} /\ stack = <<>>
        /\ cursor = [uid |-> 0, kept |-> {}, got |-> {}, twice |-> FALSE, state |-> "idle"]
        /\ phase = "running" /\ fault = FALSE
    BY DEF Init
  <1>2. CallsTyped
    BY <1>1 DEF CallsTyped
  <1>3. cursor \in Cursors
    BY <1>1, UidFacts DEF Cursors
  <1>4. service \in [Services -> {"up", "queued", "down"}] /\ stack \in Seq(Frames)
    BY <1>1
  <1>5. TypeOK
    BY <1>1, <1>2, <1>3, <1>4 DEF TypeOK, CallsTyped, Cursors, Frames
  <1>6. \A c \in Calls : CallOK(c)
    BY <1>1 DEF CallOK, StateOK, Answering, NotWalked
  <1>7. \A i \in DOMAIN stack : FALSE
    BY <1>1
  <1>8. OneFrame
    BY <1>7 DEF OneFrame
  <1>9. CursorOK
    BY <1>1 DEF CursorOK, CursorExact
  <1> QED
    BY <1>1, <1>5, <1>6, <1>7, <1>8, <1>9 DEF IInv

LEMMA InvStep == IInv /\ [Next]_vars => IInv'
  <1> SUFFICES ASSUME IInv, [Next]_vars PROVE IInv'
    OBVIOUS
  <1>1. CASE UNCHANGED vars
    <2>1. UNCHANGED <<kind, pack, op, timer, told, service, closing, known, cursor, stack,
                      phase, fault>>
      BY <1>1 DEF vars
    <2>2. TypeOK' /\ CursorOK' /\ OneFrame' /\ ~fault'
      BY <2>1 DEF IInv, TypeOK, CursorOK, CursorExact, OneFrame
    <2>3. \A d \in Calls : (BeingAnswered(d) => BeingAnswered(d)') /\ NotWalked(d)'
      BY <2>1 DEF IInv, CallOK, BeingAnswered, NotWalked, Walking
    <2> QED
      BY <2>1, <2>2, <2>3, NoCallStep
  <1>2. CASE Task \/ Stop
    BY <1>2, TaskStep, StopStep
  <1>3. CASE Unwind
    BY <1>3, UserReturnsStep, ObserversDoneStep, DeletePackStep, CancelTimerStep,
       CancelLookupStep, CancelHelloStep, NothingStep, CallObserverStep DEF Unwind
  <1>4. CASE CancelAllStep
    BY <1>4, TimesOutStep, RemoveServicesStep DEF CancelAllStep, Visit
  <1>5. CASE Ended
    BY <1>1, <1>5 DEF Ended
  <1>6. CASE \E c \in Calls : Make(c) \/ Reply(c) \/ LookupTimeout(c) \/ DisconnectIdentities(c)
    BY <1>6, MakeStep, ReplyStep, TimesOutStep, DisconnectIdentitiesStep DEF LookupTimeout
  <1>7. CASE \E s \in Services : Destroy(s) \/ Disconnect(s)
    BY <1>7, DestroyStep, DisconnectStep
  <1>8. CASE HandleEstimate \/ IdentityCallback
    BY <1>8, ObserveStep DEF HandleEstimate, IdentityCallback, Observed
  <1>9. CASE AdvanceCursor \/ CursorReply
    BY <1>9, AdvanceCursorStep, CursorReplyStep
  <1> QED
    BY <1>1, <1>2, <1>3, <1>4, <1>5, <1>6, <1>7, <1>8, <1>9 DEF Next

LEMMA Invariance == Spec => []IInv
  BY InvInit, InvStep, PTL DEF Spec

\* Every variable stays in its type: in particular a caller is told at most once, and a
\* uid fits its width.
THEOREM TypeCorrect == Spec => []TypeOK
  <1>1. IInv => TypeOK
    BY DEF IInv
  <1> QED
    BY <1>1, Invariance, PTL

\* Whatever user code does in the callbacks, makes calls, destroys services, stops the
\* program, no pack, operation or timer is used after it is gone, and GNUnet never goes
\* on with a connection that was closed under one of its callbacks.
THEOREM NothingUsedAfterFree == Spec => []NoUseAfterFree
  <1>1. ASSUME IInv PROVE NoUseAfterFree
    <2>1. ASSUME NEW i \in DOMAIN stack, NEW s \in Services,
                 stack[i].c # NoCall, Uses(kind[stack[i].c], s)
          PROVE  service[s] # "down"
      <3>1. PICK d \in Calls : stack[i].c = d
        BY <1>1, <2>1, StackFacts DEF IInv
      <3>2. FrameOK(i)
        BY <1>1, <2>1 DEF IInv
      <3> QED
        BY <2>1, <3>1, <3>2 DEF FrameOK, ThenOK
    <2> QED
      BY <1>1, <2>1 DEF IInv, NoUseAfterFree, ConnectionOpenInCallback
  <1> QED
    BY <1>1, Invariance, PTL

\* No caller is told twice, no pack is deleted before its caller is told, and a pack is
\* there as long as GNUnet may use it and no longer than somebody will: a pack that only
\* the shutdown's cutting off can explain is there after the shutdown only.
THEOREM ToldExactlyOnce == Spec => []ToldOnce
  <1>1. ASSUME IInv PROVE ToldOnce
    <2>1. ASSUME NEW c \in Calls
          PROVE  /\ told[c] <= 1
                 /\ pack[c] \in {"freed", "lost"} => told[c] = 1
                 /\ kind[c] # "none" /\ told[c] = 0 => op[c] \/ phase = "stopped"
                 /\ op[c] => pack[c] = "live"
                 /\ pack[c] = "live" =>
                       op[c] \/ BeingAnswered(c) \/ phase = "stopped"
                       \/ kind[c] \in {"estimate", "init"}
      <3>1. StateOK(c) /\ (Answering(c) => BeingAnswered(c)) /\ told[c] \in {0, 1}
        BY <1>1, TypeFacts DEF IInv, CallOK
      <3>2. told[c] <= 1
        BY <3>1
      <3>3. pack[c] = "live" =>
               op[c] \/ BeingAnswered(c) \/ phase = "stopped" \/ kind[c] \in {"estimate", "init"}
        BY <3>1 DEF StateOK, Answering, Observed
      <3> QED
        BY <3>1, <3>2, <3>3 DEF StateOK
    <2> QED
      BY <2>1 DEF ToldOnce
  <1> QED
    BY <1>1, Invariance, PTL

\* However entries come and go, DataStore::get yields none twice, and at its end every
\* entry that was there from the beginning, for any width of the uids.
THEOREM CursorStaysExact == Spec => []CursorExact
  <1>1. IInv => CursorExact
    BY DEF IInv, CursorOK
  <1> QED
    BY <1>1, Invariance, PTL
=============================================================================
