--------------------------- MODULE HandlesProofs ---------------------------
(***************************************************************************)
(* Wrappers and GNUnet's objects stay in step for any number of channels,  *)
(* rooms and ports and any depth of callbacks, whoever ends a channel.     *)
(*                                                                         *)
(* InStep is not inductive: it does not say what the calls that are going  *)
(* on have made sure of.  FrameInv does: a message and a disconnect() find *)
(* their object as it was when they began; and GNUnet is ending exactly    *)
(* the channels whose callback runs, so that nobody else destroys them.    *)
(***************************************************************************)
EXTENDS Handles, SequenceTheorems, TLAPS

\* An object is what one call is about, at most.
OneFrame ==
    \A i, j \in DOMAIN stack :
        stack[i].o \in Objects /\ stack[i].o = stack[j].o => i = j

\* What the calls that are going on rely on.
FrameInv ==
    \A i \in DOMAIN stack :
        LET o == stack[i].o
            at == stack[i].at
        IN  /\ at \in {"task", "shutdown"} <=> o = Nothing
            /\ at = "shutdown" => i = 2 /\ stack[1].o \notin Channels
            /\ at = "connected" => kind[o] = "in"
            /\ at = "returning" => kind[o] # "none"
            /\ at = "message" => gnunet[o] = "open"
            /\ at = "disconnecting" => o \in Channels /\ ptr[o] /\ o \in held
            /\ at = "gone" => kind[o] \in {"in", "out"}

\* InStep for one object, and that what is ending has its callback running.
EndingNow(o) == \E i \in DOMAIN stack : stack[i] = [o |-> o, at |-> "gone"]
ObjInv(o) ==
    /\ gnunet[o] = "ending" <=> EndingNow(o)
    /\ gnunet[o] \in {"open", "ending"} => ptr[o] /\ Referenced(o, held, pack, stack)
    /\ ptr[o] => gnunet[o] \in {"open", "ending"} \/ LeftDangling(o)
    /\ o \in Rooms => (o \in rooms <=> gnunet[o] = "open")
    /\ gnunet[o] \in {"open", "ending"} /\ o \in Channels => pack[o] = "live"

\* Channels and rooms keep to their kind, and what has not been made is nowhere.
Kinds ==
    \A o \in Objects :
        /\ o \in Rooms => kind[o] \in {"none", "room"}
        /\ o \in Channels => kind[o] \in {"none", "in", "out"}
        /\ kind[o] = "none" => gnunet[o] = "none" /\ ~ptr[o] /\ o \notin held

IInv ==
    TypeOK /\ OnlyDanglingFaults /\ (\A o \in Objects : ObjInv(o)) /\ OneFrame /\ FrameInv /\ Kinds

-----------------------------------------------------------------------------
(***************************************************************************)
(* The stack                                                               *)
(***************************************************************************)

\* A call on the stack holds the object.
OnStack(o) == \E i \in DOMAIN stack : LocksIt(o, stack[i])

\* Frames are about an object, or about Nothing.
LEMMA FrameFacts ==
    /\ \A f \in Frames : f.o \in Objects \cup {Nothing}
    /\ \A f \in Frames : f = [o |-> f.o, at |-> f.at]
    /\ \A o \in Objects \cup {Nothing},
          at \in {"task", "connected", "message", "gone", "disconnecting", "returning",
                  "shutdown"} :
              [o |-> o, at |-> at] \in Frames
BY DEF Frames

\* The stack is a sequence of frames.
LEMMA StackFacts ==
    ASSUME TypeOK
    PROVE  /\ stack \in Seq(Frames)
           /\ DOMAIN stack = 1..Len(stack) /\ Len(stack) \in Nat
           /\ \A i \in DOMAIN stack : stack[i] \in Frames
           /\ \A i \in DOMAIN stack : stack[i].o \in Objects \cup {Nothing}
           /\ \A i \in DOMAIN stack : stack[i] = [o |-> stack[i].o, at |-> stack[i].at]
           /\ stack # <<>> <=> Len(stack) # 0
           /\ stack # <<>> => Len(stack) \in DOMAIN stack
<1>1. stack \in Seq(Frames)
  BY DEF TypeOK
<1>2. /\ DOMAIN stack = 1..Len(stack) /\ Len(stack) \in Nat
      /\ \A i \in DOMAIN stack : stack[i] \in Frames
      /\ stack # <<>> <=> Len(stack) # 0
  BY <1>1
<1>3. stack # <<>> => Len(stack) \in DOMAIN stack
  BY <1>2
<1> QED
  BY <1>1, <1>2, <1>3, FrameFacts

\* A call about o0 is pushed, when no other is about it.
LEMMA PushFacts ==
    ASSUME TypeOK, OneFrame,
           NEW o0 \in Objects \cup {Nothing},
           NEW at0 \in {"task", "connected", "message", "gone", "disconnecting",
                        "returning", "shutdown"},
           Len(stack) < MaxDepth, stack' = Pushed(o0, at0),
           o0 \in Objects => ~InCallbackOf(o0)
    PROVE  /\ stack' \in Seq(Frames) /\ Len(stack') <= MaxDepth
           /\ Len(stack) \in Nat /\ DOMAIN stack = 1..Len(stack)
           /\ \A i \in DOMAIN stack : i \in DOMAIN stack' /\ stack'[i] = stack[i]
           /\ \A i \in DOMAIN stack' :
                 \/ i \in DOMAIN stack
                 \/ i = Len(stack) + 1
           /\ Len(stack) + 1 \in DOMAIN stack'
           /\ stack'[Len(stack) + 1] = [o |-> o0, at |-> at0]
           /\ OneFrame'
           /\ \A o : OnStack(o)' <=> OnStack(o) \/ LocksIt(o, [o |-> o0, at |-> at0])
<1> DEFINE f == [o |-> o0, at |-> at0]
           n == Len(stack)
<1>1. stack \in Seq(Frames) /\ f \in Frames /\ stack' = Append(stack, f)
  BY FrameFacts DEF TypeOK, Pushed
<1>2. f.o = o0
  OBVIOUS
<1> HIDE DEF f
<1>3. /\ stack' \in Seq(Frames) /\ Len(stack') = n + 1 /\ n \in Nat
      /\ DOMAIN stack = 1..n /\ DOMAIN stack' = 1..(n + 1)
      /\ \A i \in 1..n : stack'[i] = stack[i]
      /\ stack'[n + 1] = f
  BY <1>1
<1>4. Len(stack') <= MaxDepth
  BY <1>3, HandlesAssumption
<1> HIDE DEF n
<1>5. /\ \A i \in DOMAIN stack : i \in DOMAIN stack' /\ stack'[i] = stack[i]
      /\ \A i \in DOMAIN stack' : i \in DOMAIN stack \/ i = n + 1
      /\ n + 1 \in DOMAIN stack'
  BY <1>3
<1>6. OneFrame'
  <2>1. \A i \in DOMAIN stack : stack[i].o = o0 => o0 \notin Objects
    BY DEF InCallbackOf
  <2> QED
    BY <1>2, <1>3, <1>5, <2>1 DEF OneFrame
<1>7. \A o : OnStack(o)' <=> OnStack(o) \/ LocksIt(o, f)
  BY <1>3, <1>5 DEF OnStack, LocksIt
<1> QED
  BY <1>3, <1>4, <1>5, <1>6, <1>7 DEF f, n

\* The innermost call returns.
LEMMA PopFacts ==
    ASSUME TypeOK, stack # <<>>
    PROVE  /\ Popped \in Seq(Frames) /\ Len(Popped) = Len(stack) - 1
           /\ Len(stack) \in Nat \ {0} /\ DOMAIN stack = 1..Len(stack)
           /\ DOMAIN Popped = 1..(Len(stack) - 1)
           /\ \A i \in DOMAIN Popped :
                 i \in DOMAIN stack /\ i < Len(stack) /\ Popped[i] = stack[i]
           /\ \A i \in DOMAIN stack : i = Len(stack) \/ i \in DOMAIN Popped
           /\ Len(stack) \in DOMAIN stack /\ Top = stack[Len(stack)]
<1> DEFINE last == Len(stack) - 1
<1>1. /\ stack \in Seq(Frames) /\ DOMAIN stack = 1..Len(stack)
      /\ Len(stack) \in Nat /\ Len(stack) # 0
      /\ last \in Nat /\ last = Len(stack) - 1
  BY StackFacts
<1>2. \A i \in 1..last : stack[i] \in Frames /\ i \in DOMAIN stack /\ i < Len(stack)
  BY <1>1
<1> HIDE DEF last
<1>3. /\ SubSeq(stack, 1, last) \in Seq(Frames)
      /\ Len(SubSeq(stack, 1, last)) = IF 1 <= last THEN last - 1 + 1 ELSE 0
      /\ \A i \in 1..(last - 1 + 1) : SubSeq(stack, 1, last)[i] = stack[1 + i - 1]
  BY <1>1, <1>2, SubSeqProperties
<1>4. Popped = SubSeq(stack, 1, last)
  BY DEF last, Popped
<1>5. Len(Popped) = last
  BY <1>1, <1>3, <1>4
<1>6. \A i \in 1..last : Popped[i] = stack[i]
  <2>1. \A i \in 1..last : 1 + i - 1 = i /\ i \in 1..(last - 1 + 1)
    BY <1>1
  <2> QED
    BY <1>3, <1>4, <2>1
<1>7. DOMAIN Popped = 1..last
  BY <1>3, <1>4, <1>5, LenProperties
<1>8. \A i \in DOMAIN stack : i = Len(stack) \/ i \in 1..last
  BY <1>1
<1>9. Len(stack) \in DOMAIN stack
  BY <1>1
<1> QED
  BY <1>1, <1>2, <1>3, <1>4, <1>5, <1>6, <1>7, <1>8, <1>9 DEF last, Top

\* The call about o0 returns, and no other is about it.
LEMMA ReturnFacts ==
    ASSUME TypeOK, OneFrame, stack # <<>>, stack' = Popped
    PROVE  /\ stack' \in Seq(Frames) /\ Len(stack') <= MaxDepth
           /\ \A i \in DOMAIN stack' : i \in DOMAIN stack /\ stack'[i] = stack[i]
           /\ \A i \in DOMAIN stack : i > 1 /\ i \in DOMAIN stack' => 1 \in DOMAIN stack'
           /\ OneFrame'
           /\ Top.o \in Objects => \A i \in DOMAIN stack' : stack'[i].o # Top.o
           /\ \A o : o # Top.o => (OnStack(o)' <=> OnStack(o))
           /\ Top.at \notin {"message", "gone", "returning"} =>
                 \A o : OnStack(o)' <=> OnStack(o)
           /\ \A o : o # Top.o => (EndingNow(o)' <=> EndingNow(o))
           /\ Top.at # "gone" => \A o : EndingNow(o)' <=> EndingNow(o)
<1>1. /\ Popped \in Seq(Frames) /\ Len(Popped) = Len(stack) - 1
      /\ Len(stack) \in Nat \ {0} /\ DOMAIN stack = 1..Len(stack)
      /\ DOMAIN Popped = 1..(Len(stack) - 1)
      /\ \A i \in DOMAIN Popped :
            i \in DOMAIN stack /\ i < Len(stack) /\ Popped[i] = stack[i]
      /\ \A i \in DOMAIN stack : i = Len(stack) \/ i \in DOMAIN Popped
      /\ Len(stack) \in DOMAIN stack /\ Top = stack[Len(stack)]
  BY PopFacts
<1>2. Len(stack') <= MaxDepth
  <2>1. Len(stack') = Len(stack) - 1 /\ Len(stack) \in Nat
    BY <1>1
  <2>2. Len(stack) <= MaxDepth /\ MaxDepth \in Nat
    BY HandlesAssumption DEF TypeOK
  <2> QED
    BY <2>1, <2>2
<1>3. \A i \in DOMAIN stack : i > 1 /\ i \in DOMAIN stack' => 1 \in DOMAIN stack'
  BY <1>1
<1>4. OneFrame'
  BY <1>1 DEF OneFrame
<1>5. Top.o \in Objects => \A i \in DOMAIN stack' : stack'[i].o # Top.o
  BY <1>1 DEF OneFrame
<1>6. /\ \A o : o # Top.o => (OnStack(o)' <=> OnStack(o))
      /\ Top.at \notin {"message", "gone", "returning"} =>
            \A o : OnStack(o)' <=> OnStack(o)
  BY <1>1 DEF OnStack, LocksIt
<1>7. /\ \A o : o # Top.o => (EndingNow(o)' <=> EndingNow(o))
      /\ Top.at # "gone" => \A o : EndingNow(o)' <=> EndingNow(o)
  BY <1>1 DEF EndingNow
<1> QED
  BY <1>1, <1>2, <1>3, <1>4, <1>5, <1>6, <1>7

\* What refers to an object now, and after a step.
LEMMA ReferencedNow ==
    /\ \A o : Referenced(o, held, pack, stack)
                 <=> o \in held \/ (kind[o] = "in" /\ pack[o] = "live") \/ OnStack(o)
    /\ \A o : Referenced(o, held, pack, stack)'
                 <=> o \in held' \/ (kind'[o] = "in" /\ pack'[o] = "live") \/ OnStack(o)'
BY DEF Referenced, OnStack

\* What the calls that are going on say of an object that is ending.
LEMMA EndingFacts ==
    ASSUME IInv, NEW o \in Objects, EndingNow(o)
    PROVE  /\ OnStack(o) /\ InCallbackOf(o)
           /\ kind[o] \in {"in", "out"} /\ gnunet[o] = "ending" /\ pack[o] = "live"
           /\ o \in Channels
<1>1. PICK i \in DOMAIN stack : stack[i] = [o |-> o, at |-> "gone"]
  BY DEF EndingNow
<1>2. kind[o] \in {"in", "out"} /\ gnunet[o] = "ending"
  BY <1>1 DEF IInv, FrameInv, ObjInv
<1>3. o \in Channels /\ pack[o] = "live"
  BY <1>2 DEF IInv, Kinds, Objects, ObjInv
<1> QED
  BY <1>1, <1>2, <1>3 DEF OnStack, LocksIt, InCallbackOf

-----------------------------------------------------------------------------
(***************************************************************************)
(* User code                                                               *)
(***************************************************************************)

LEMMA InitInv == Init => IInv
<1> SUFFICES ASSUME Init PROVE IInv
  OBVIOUS
<1>1. DOMAIN stack = {} /\ stack \in Seq(Frames) /\ Len(stack) = 0
  BY EmptySeq DEF Init
<1>2. TypeOK
  <2>1. Len(stack) <= MaxDepth
    BY <1>1, HandlesAssumption
  <2>2. /\ kind \in [Objects -> {"none", "in", "out", "room"}]
        /\ gnunet \in [Objects -> {"none", "open", "ending", "gone"}]
        /\ ptr \in [Objects -> BOOLEAN]
        /\ pack \in [Objects -> {"none", "live", "freed"}]
    BY DEF Init
  <2>3. /\ held \subseteq Objects /\ rooms \subseteq Rooms /\ unacked \subseteq Channels
        /\ open_ports \subseteq Ports /\ crashed \in BOOLEAN
        /\ cadet \in {"up", "closing", "down"} /\ messenger \in {"up", "down"}
        /\ faults \subseteq Faults
    BY DEF Init
  <2> QED
    BY <1>1, <2>1, <2>2, <2>3 DEF TypeOK
<1>3. OnlyDanglingFaults /\ OneFrame /\ FrameInv /\ Kinds
  BY <1>1 DEF Init, OnlyDanglingFaults, LeftDangling, OneFrame, FrameInv, Kinds
<1>4. \A o \in Objects : ObjInv(o)
  BY <1>1 DEF Init, ObjInv, EndingNow, Objects
<1> QED
  BY <1>2, <1>3, <1>4 DEF IInv

\* A fault that a step finds is the last thing that happens.
LEMMA FaultFacts ==
    ASSUME IInv, Alive, NEW o \in Objects, NEW ok \in BOOLEAN,
           NEW what \in {"asserted", "used after the end", "destroyed twice"},
           FaultUnless(ok, o, what), ~ok => what # "asserted" /\ LeftDangling(o)'
    PROVE  faults' \subseteq Faults /\ OnlyDanglingFaults' /\ (ok => faults' = faults)
<1>1. faults = {}
  BY DEF Alive
<1>2. ok \/ ~ok
  OBVIOUS
<1>3. CASE ok
  BY <1>1, <1>3 DEF FaultUnless, OnlyDanglingFaults
<1>4. CASE ~ok
  <2>1. faults' = {[o |-> o, what |-> what]}
    BY <1>1, <1>4 DEF FaultUnless
  <2>2. /\ [o |-> o, what |-> what] \in Faults
        /\ [o |-> o, what |-> what].o = o /\ [o |-> o, what |-> what].what = what
    BY DEF Faults
  <2>3. what # "asserted" /\ LeftDangling(o)'
    BY <1>4
  <2>4. \A f \in faults' : f.what # "asserted" /\ f.o = o
    BY <2>1, <2>2, <2>3
  <2>5. OnlyDanglingFaults'
    BY <2>3, <2>4 DEF OnlyDanglingFaults, LeftDangling
  <2> QED
    BY <1>4, <2>1, <2>2, <2>5
<1> QED
  BY <1>2, <1>3, <1>4

\* Ports, the services and what has yet to be acknowledged matter to nothing else.
LEMMA QuietInv ==
    ASSUME IInv, UNCHANGED <<kind, gnunet, ptr, held, pack, rooms, stack>>,
           faults' \subseteq Faults, OnlyDanglingFaults',
           unacked' \subseteq Channels, open_ports' \subseteq Ports,
           cadet' \in {"up", "closing", "down"}, messenger' \in {"up", "down"},
           crashed' \in BOOLEAN
    PROVE  IInv'
<1>1. TypeOK' /\ OneFrame' /\ FrameInv' /\ Kinds'
  BY DEF IInv, TypeOK, OneFrame, FrameInv, Kinds
<1>2. \A o \in Objects : ObjInv(o)'
  BY DEF IInv, ObjInv, LeftDangling, EndingNow, Referenced
<1> QED
  BY <1>1, <1>2 DEF IInv

LEMMA PortInv ==
    ASSUME IInv, NEW p \in Ports, OpenPort(p) \/ ClosePort(p)
    PROVE  IInv'
BY QuietInv DEF OpenPort, ClosePort, IInv, TypeOK, OnlyDanglingFaults, LeftDangling

LEMMA ShutdownMessengerInv == IInv /\ ShutdownMessenger => IInv'
BY QuietInv DEF ShutdownMessenger, IInv, TypeOK, OnlyDanglingFaults, LeftDangling

LEMMA ConnectInv ==
    ASSUME IInv, NEW o0 \in Objects, Connect(o0)
    PROVE  IInv'
<1>1. /\ o0 \in Channels /\ kind[o0] = "none"
      /\ kind' = [kind EXCEPT ![o0] = "out"]
      /\ gnunet' = [gnunet EXCEPT ![o0] = "open"]
      /\ ptr' = [ptr EXCEPT ![o0] = TRUE]
      /\ held' = held \cup {o0}
      /\ pack' = [pack EXCEPT ![o0] = "live"]
      /\ UNCHANGED <<rooms, unacked, open_ports, cadet, messenger, stack, crashed, faults>>
      /\ faults = {}
  BY DEF Connect, Made, InUser, Alive
<1>2. /\ kind' \in [Objects -> {"none", "in", "out", "room"}]
      /\ gnunet' \in [Objects -> {"none", "open", "ending", "gone"}]
      /\ ptr' \in [Objects -> BOOLEAN]
      /\ pack' \in [Objects -> {"none", "live", "freed"}]
      /\ kind'[o0] = "out" /\ gnunet'[o0] = "open" /\ ptr'[o0] /\ pack'[o0] = "live"
      /\ \A o \in Objects : o # o0 =>
            /\ kind'[o] = kind[o] /\ gnunet'[o] = gnunet[o] /\ ptr'[o] = ptr[o]
            /\ pack'[o] = pack[o] /\ (o \in held' <=> o \in held)
  BY <1>1 DEF IInv, TypeOK
<1>3. o0 \notin Rooms /\ gnunet[o0] = "none" /\ ~ptr[o0] /\ ~EndingNow(o0)
  BY <1>1, HandlesAssumption, EndingFacts DEF IInv, Kinds
<1>4. \A o : (OnStack(o)' <=> OnStack(o)) /\ (EndingNow(o)' <=> EndingNow(o))
  BY <1>1 DEF OnStack, EndingNow
<1>5. TypeOK'
  BY <1>1, <1>2 DEF IInv, TypeOK
<1>6. OnlyDanglingFaults' /\ OneFrame'
  BY <1>1 DEF IInv, OnlyDanglingFaults, LeftDangling, OneFrame
<1>7. \A o \in Objects : ObjInv(o)'
  <2>1. SUFFICES ASSUME NEW o \in Objects
                 PROVE  ObjInv(o)'
    OBVIOUS
  <2>2. CASE o = o0
    <3>1. o \in held'
      BY <1>1, <2>2
    <3> QED
      BY <1>2, <1>3, <1>4, <2>2, <3>1, ReferencedNow DEF ObjInv
  <2>3. CASE o # o0
    <3>1. ObjInv(o)
      BY DEF IInv
    <3>2. Referenced(o, held, pack, stack)' <=> Referenced(o, held, pack, stack)
      BY <1>2, <1>4, <2>3, ReferencedNow
    <3> QED
      BY <1>1, <1>2, <1>4, <2>3, <3>1, <3>2 DEF ObjInv, LeftDangling
  <2> QED
    BY <2>2, <2>3
<1>8. FrameInv'
  <2>1. \A i \in DOMAIN stack : stack[i].o = o0 =>
            stack[i].at \notin {"connected", "message", "disconnecting", "gone"}
    BY <1>3, <1>1 DEF IInv, FrameInv
  <2>2. \A i \in DOMAIN stack : stack[i].at \notin {"task", "shutdown"} =>
            stack[i].o \in Objects
    BY StackFacts DEF IInv, FrameInv
  <2> QED
    BY <1>1, <1>2, <2>1, <2>2 DEF IInv, FrameInv
<1>9. Kinds'
  BY <1>1, <1>2, <1>3 DEF IInv, Kinds
<1> QED
  BY <1>5, <1>6, <1>7, <1>8, <1>9 DEF IInv

\* A reference more to an object that has been made changes nothing else.
LEMMA HeldInv ==
    ASSUME IInv, NEW o0 \in Objects, kind[o0] # "none", held' = held \cup {o0},
           UNCHANGED <<kind, gnunet, ptr, pack, rooms, unacked, open_ports, cadet,
                       messenger, stack, crashed, faults>>
    PROVE  IInv'
<1>1. TypeOK' /\ OnlyDanglingFaults' /\ OneFrame' /\ FrameInv' /\ Kinds'
  BY DEF IInv, TypeOK, OnlyDanglingFaults, LeftDangling, OneFrame, FrameInv, Kinds
<1>2. \A o : (OnStack(o)' <=> OnStack(o)) /\ (EndingNow(o)' <=> EndingNow(o))
  BY DEF OnStack, EndingNow
<1>3. \A o \in Objects : ObjInv(o)'
  BY <1>2, ReferencedNow DEF IInv, ObjInv, LeftDangling
<1> QED
  BY <1>1, <1>3 DEF IInv

LEMMA OpenRoomInv ==
    ASSUME IInv, NEW o0 \in Rooms, OpenRoom(o0)
    PROVE  IInv'
<1>1. o0 \in Objects /\ o0 \notin Channels
  BY HandlesAssumption DEF Objects
<1>2. /\ KnownRoom(o0) \/ NewRoom(o0)
      /\ held' = held \cup {o0}
      /\ UNCHANGED <<pack, unacked, open_ports, cadet, messenger, stack, crashed>>
  BY DEF OpenRoom
<1>3. CASE KnownRoom(o0)
  <2>1. gnunet[o0] = "open" /\ Referenced(o0, held, pack, stack) /\ kind[o0] # "none"
    BY <1>1, <1>3 DEF KnownRoom, IInv, ObjInv, Kinds
  <2>2. UNCHANGED <<kind, gnunet, ptr, rooms, faults>>
    BY <1>3, <2>1 DEF KnownRoom, FaultUnless
  <2> QED
    BY <1>1, <1>2, <2>1, <2>2, HeldInv
<1>4. CASE NewRoom(o0)
  <2>1. /\ o0 \notin rooms
        /\ kind' = [kind EXCEPT ![o0] = "room"]
        /\ gnunet' = [gnunet EXCEPT ![o0] = "open"]
        /\ ptr' = [ptr EXCEPT ![o0] = TRUE]
        /\ rooms' = rooms \cup {o0} /\ faults' = faults /\ faults = {}
    BY <1>4 DEF NewRoom, Made, OpenRoom, InUser, Alive
  <2>2. /\ kind' \in [Objects -> {"none", "in", "out", "room"}]
        /\ gnunet' \in [Objects -> {"none", "open", "ending", "gone"}]
        /\ ptr' \in [Objects -> BOOLEAN]
        /\ kind'[o0] = "room" /\ gnunet'[o0] = "open" /\ ptr'[o0]
        /\ \A o \in Objects : o # o0 =>
              /\ kind'[o] = kind[o] /\ gnunet'[o] = gnunet[o] /\ ptr'[o] = ptr[o]
              /\ (o \in held' <=> o \in held) /\ (o \in rooms' <=> o \in rooms)
        /\ o0 \in rooms' /\ o0 \in held'
    BY <1>1, <1>2, <2>1 DEF IInv, TypeOK
  <2>3. \A o : (OnStack(o)' <=> OnStack(o)) /\ (EndingNow(o)' <=> EndingNow(o))
    BY <1>2 DEF OnStack, EndingNow
  <2>4. TypeOK'
    <3>1. rooms' \subseteq Rooms /\ held' \subseteq Objects
      BY <1>1, <1>2, <2>1 DEF IInv, TypeOK
    <3> QED
      BY <1>2, <2>1, <2>2, <3>1 DEF IInv, TypeOK
  <2>5. OnlyDanglingFaults' /\ OneFrame'
    BY <1>2, <2>1 DEF IInv, OnlyDanglingFaults, LeftDangling, OneFrame
  <2>6. \A o \in Objects : ObjInv(o)'
    <3>1. SUFFICES ASSUME NEW o \in Objects
                   PROVE  ObjInv(o)'
      OBVIOUS
    <3>2. CASE o = o0
      <4>1. ~EndingNow(o0) /\ Referenced(o0, held, pack, stack)'
        BY <1>1, <2>2, EndingFacts, ReferencedNow
      <4> QED
        BY <1>1, <2>2, <2>3, <3>2, <4>1 DEF ObjInv
    <3>3. CASE o # o0
      <4>1. ObjInv(o)
        BY DEF IInv
      <4>2. Referenced(o, held, pack, stack)' <=> Referenced(o, held, pack, stack)
        BY <1>2, <2>2, <2>3, <3>3, ReferencedNow
      <4> QED
        BY <1>2, <2>2, <2>3, <3>3, <4>1, <4>2 DEF ObjInv, LeftDangling
    <3> QED
      BY <3>2, <3>3
  <2>7. FrameInv'
    <3>1. \A i \in DOMAIN stack : stack[i].o = o0 =>
              stack[i].at \notin {"connected", "disconnecting", "gone"}
      BY <1>1 DEF IInv, FrameInv, Kinds
    <3>2. \A i \in DOMAIN stack : stack[i].at \notin {"task", "shutdown"} =>
              stack[i].o \in Objects
      BY StackFacts DEF IInv, FrameInv
    <3> QED
      BY <1>2, <2>2, <3>1, <3>2 DEF IInv, FrameInv
  <2>8. Kinds'
    BY <1>1, <2>2 DEF IInv, Kinds
  <2> QED
    BY <2>4, <2>5, <2>6, <2>7, <2>8 DEF IInv
<1> QED
  BY <1>2, <1>3, <1>4

LEMMA UseInv ==
    ASSUME IInv, NEW o0 \in Objects, Use(o0)
    PROVE  IInv'
<1>1. /\ Alive /\ FaultUnless(ptr[o0] => gnunet[o0] \in {"open", "ending"}, o0, "used after the end")
      /\ UNCHANGED <<kind, gnunet, ptr, held, pack, rooms, unacked, open_ports, cadet,
                     messenger, stack, crashed>>
  BY DEF Use, InUser
<1>2. ~(ptr[o0] => gnunet[o0] \in {"open", "ending"}) => LeftDangling(o0)'
  BY <1>1 DEF IInv, ObjInv, LeftDangling
<1>3. faults' \subseteq Faults /\ OnlyDanglingFaults'
  BY <1>1, <1>2, FaultFacts
<1> QED
  BY <1>1, <1>3, QuietInv DEF IInv, TypeOK

LEMMA HoldInv ==
    ASSUME IInv, NEW o0 \in Objects, Hold(o0)
    PROVE  IInv'
<1>1. stack # <<>> /\ Top.o = o0 /\ Top.at \in {"connected", "message", "gone"}
  BY DEF Hold, InUser
<1>2. Len(stack) \in DOMAIN stack /\ Top = stack[Len(stack)]
  BY <1>1, StackFacts DEF IInv, Top
<1>3. kind[o0] \in {"in", "out"} \/ gnunet[o0] = "open"
  BY <1>1, <1>2 DEF IInv, FrameInv
<1>4. kind[o0] # "none"
  BY <1>3 DEF IInv, Kinds
<1> QED
  BY <1>4, HeldInv DEF Hold

\* What is released goes if nothing refers to it, and is destroyed if GNUnet has it.
LEMMA ReleaseFacts ==
    ASSUME IInv, Alive, NEW o0 \in Objects, NEW h, NEW st, Release(o0, h, pack, st),
           kind[o0] # "none", UNCHANGED <<kind, pack>>,
           Referenced(o0, h, pack, st) \/ gnunet[o0] # "ending"
    PROVE  /\ held' = h /\ stack' = st
           /\ faults' \subseteq Faults /\ OnlyDanglingFaults'
           /\ gnunet' \in [Objects -> {"none", "open", "ending", "gone"}]
           /\ ptr' \in [Objects -> BOOLEAN]
           /\ rooms' \subseteq rooms /\ unacked' \subseteq unacked
           /\ \A o \in Objects : o # o0 =>
                 /\ gnunet'[o] = gnunet[o] /\ ptr'[o] = ptr[o]
                 /\ (o \in rooms' <=> o \in rooms)
           /\ \/ Referenced(o0, h, pack, st) /\ UNCHANGED <<gnunet, ptr, rooms>>
              \/ /\ ~Referenced(o0, h, pack, st)
                 /\ gnunet'[o0] \in {"none", "gone"} /\ gnunet[o0] # "ending"
                 /\ ~ptr'[o0] /\ o0 \notin rooms'
<1>1. /\ gnunet \in [Objects -> {"none", "open", "ending", "gone"}]
      /\ ptr \in [Objects -> BOOLEAN] /\ faults \subseteq Faults
  BY DEF IInv, TypeOK
<1>2. held' = h /\ stack' = st
  BY DEF Release
<1>3. CASE Referenced(o0, h, pack, st)
  <2>1. UNCHANGED <<gnunet, faults, unacked, rooms, ptr>>
    BY <1>3 DEF Release
  <2>2. OnlyDanglingFaults'
    BY <2>1 DEF Alive, OnlyDanglingFaults
  <2> QED
    BY <1>1, <1>2, <1>3, <2>1, <2>2
<1>4. CASE ~Referenced(o0, h, pack, st)
  <2>1. /\ IF ptr[o0] THEN Destroyed(o0) ELSE UNCHANGED <<gnunet, faults, unacked>>
        /\ ptr' = [ptr EXCEPT ![o0] = FALSE]
        /\ rooms' = rooms \ {o0}
    BY <1>4 DEF Release, Destructed
  <2>2. /\ gnunet[o0] # "ending"
        /\ ptr[o0] => gnunet[o0] = "open" \/ LeftDangling(o0)
        /\ ~ptr[o0] => gnunet[o0] # "open"
    BY <1>4 DEF IInv, ObjInv
  <2>3. CASE ptr[o0]
    <3>1. /\ gnunet' = [gnunet EXCEPT ![o0] = "gone"]
          /\ FaultUnless(gnunet[o0] = "open", o0, "destroyed twice")
          /\ unacked' = unacked \ {o0}
      BY <2>1, <2>3 DEF Destroyed
    <3>2. gnunet[o0] # "open" => LeftDangling(o0)'
      BY <2>2, <2>3 DEF LeftDangling
    <3>3. faults' \subseteq Faults /\ OnlyDanglingFaults'
      BY <3>1, <3>2, FaultFacts
    <3> QED
      BY <1>1, <1>2, <1>4, <2>1, <2>2, <3>1, <3>3
  <2>4. CASE ~ptr[o0]
    <3>1. OnlyDanglingFaults'
      BY <2>1, <2>4 DEF Alive, OnlyDanglingFaults
    <3> QED
      BY <1>1, <1>2, <1>4, <2>1, <2>2, <2>4, <3>1
  <2> QED
    BY <2>3, <2>4
<1> QED
  BY <1>3, <1>4

LEMMA DropInv ==
    ASSUME IInv, NEW o0 \in Objects, Drop(o0)
    PROVE  IInv'
<1>1. /\ o0 \in held /\ Alive
      /\ \A i \in DOMAIN stack : stack[i] # [o |-> o0, at |-> "disconnecting"]
      /\ Release(o0, held \ {o0}, pack, stack)
      /\ UNCHANGED <<kind, pack, open_ports, cadet, messenger, crashed>>
  BY DEF Drop, InUser
<1>2. kind[o0] # "none"
  BY <1>1 DEF IInv, Kinds
<1>3. Referenced(o0, held \ {o0}, pack, stack) \/ gnunet[o0] # "ending"
  BY EndingFacts DEF Referenced, OnStack, IInv, ObjInv
<1>4. /\ held' = held \ {o0} /\ stack' = stack
      /\ faults' \subseteq Faults /\ OnlyDanglingFaults'
      /\ gnunet' \in [Objects -> {"none", "open", "ending", "gone"}]
      /\ ptr' \in [Objects -> BOOLEAN]
      /\ rooms' \subseteq rooms /\ unacked' \subseteq unacked
      /\ \A o \in Objects : o # o0 =>
            /\ gnunet'[o] = gnunet[o] /\ ptr'[o] = ptr[o]
            /\ (o \in rooms' <=> o \in rooms)
      /\ \/ Referenced(o0, held \ {o0}, pack, stack) /\ UNCHANGED <<gnunet, ptr, rooms>>
         \/ /\ ~Referenced(o0, held \ {o0}, pack, stack)
            /\ gnunet'[o0] \in {"none", "gone"} /\ gnunet[o0] # "ending"
            /\ ~ptr'[o0] /\ o0 \notin rooms'
  BY <1>1, <1>2, <1>3, ReleaseFacts
<1>5. \A o : (OnStack(o)' <=> OnStack(o)) /\ (EndingNow(o)' <=> EndingNow(o))
  BY <1>4 DEF OnStack, EndingNow
<1>6. Referenced(o0, held, pack, stack)' <=> Referenced(o0, held \ {o0}, pack, stack)
  BY <1>1, <1>4, <1>5, ReferencedNow DEF Referenced, OnStack
<1>7. TypeOK'
  BY <1>1, <1>4 DEF IInv, TypeOK
<1>8. OnlyDanglingFaults' /\ OneFrame'
  BY <1>4 DEF IInv, OneFrame
<1>9. \A o \in Objects : ObjInv(o)'
  <2>1. SUFFICES ASSUME NEW o \in Objects
                 PROVE  ObjInv(o)'
    OBVIOUS
  <2>2. ObjInv(o)
    BY DEF IInv
  <2>3. CASE o = o0
    BY <1>1, <1>4, <1>5, <1>6, <2>2, <2>3 DEF ObjInv, LeftDangling
  <2>4. CASE o # o0
    <3>1. Referenced(o, held, pack, stack)' <=> Referenced(o, held, pack, stack)
      BY <1>1, <1>4, <1>5, <2>4, ReferencedNow
    <3> QED
      BY <1>1, <1>4, <1>5, <2>2, <2>4, <3>1 DEF ObjInv, LeftDangling
  <2> QED
    BY <2>3, <2>4
<1>10. FrameInv'
  <2>1. SUFFICES ASSUME NEW i \in DOMAIN stack, stack[i].at \in {"message", "disconnecting", "gone"},
                        stack[i].o = o0
                 PROVE  UNCHANGED <<gnunet, ptr>> /\ stack[i].at # "disconnecting"
    <3>1. \A i \in DOMAIN stack : stack[i].at \notin {"task", "shutdown"} =>
              stack[i].o \in Objects
      BY StackFacts DEF IInv, FrameInv
    <3> QED
      BY <1>1, <1>4, <2>1, <3>1 DEF IInv, FrameInv
  <2>2. stack[i].at # "disconnecting"
    BY <1>1, <2>1, StackFacts DEF IInv
  <2>3. LocksIt(o0, stack[i])
    BY <2>1, <2>2 DEF LocksIt
  <2>4. Referenced(o0, held \ {o0}, pack, stack)
    BY <2>3 DEF Referenced
  <2> QED
    BY <1>4, <2>2, <2>4
<1>11. Kinds'
  BY <1>1, <1>2, <1>4 DEF IInv, Kinds
<1> QED
  BY <1>7, <1>8, <1>9, <1>10, <1>11 DEF IInv

-----------------------------------------------------------------------------
(***************************************************************************)
(* Calls begin                                                             *)
(***************************************************************************)

\* A call that begins relies on what is the case.
LEMMA CallInv ==
    ASSUME IInv,
           NEW o0 \in Objects \cup {Nothing},
           NEW at0 \in {"task", "message", "disconnecting", "shutdown"},
           Len(stack) < MaxDepth, stack' = Pushed(o0, at0),
           o0 \in Objects => ~InCallbackOf(o0),
           at0 \in {"task", "shutdown"} <=> o0 = Nothing,
           at0 = "shutdown" => Len(stack) = 1 /\ stack[1].o \notin Channels,
           at0 = "message" => gnunet[o0] = "open",
           at0 = "disconnecting" => o0 \in Channels /\ ptr[o0] /\ o0 \in held,
           UNCHANGED <<kind, gnunet, ptr, held, pack, rooms, faults>>,
           unacked' \subseteq Channels, open_ports' \subseteq Ports,
           cadet' \in {"up", "closing", "down"}, messenger' = messenger,
           crashed' \in BOOLEAN
    PROVE  IInv'
<1> DEFINE n == Len(stack)
<1>1. /\ stack' \in Seq(Frames) /\ Len(stack') <= MaxDepth
      /\ n \in Nat /\ DOMAIN stack = 1..n
      /\ \A i \in DOMAIN stack : i \in DOMAIN stack' /\ stack'[i] = stack[i]
      /\ \A i \in DOMAIN stack' : i \in DOMAIN stack \/ i = n + 1
      /\ n + 1 \in DOMAIN stack'
      /\ stack'[n + 1] = [o |-> o0, at |-> at0]
      /\ OneFrame'
      /\ \A o : OnStack(o)' <=> OnStack(o) \/ LocksIt(o, [o |-> o0, at |-> at0])
  BY PushFacts DEF IInv
<1>2. n = 1 => 1 \in DOMAIN stack /\ n + 1 = 2
  BY <1>1
<1>3. \A i \in DOMAIN stack : i = 2 => 1 \in DOMAIN stack
  BY <1>1
<1> HIDE DEF n
<1>4. stack'[n + 1].o = o0 /\ stack'[n + 1].at = at0
  BY <1>1
<1>5. \A o : EndingNow(o)' <=> EndingNow(o)
  BY <1>1, <1>4 DEF EndingNow
<1>6. TypeOK' /\ OnlyDanglingFaults' /\ Kinds'
  BY <1>1 DEF IInv, TypeOK, OnlyDanglingFaults, LeftDangling, Kinds
<1>7. \A o \in Objects : ObjInv(o)'
  BY <1>1, <1>5, ReferencedNow DEF IInv, ObjInv, LeftDangling
<1>8. FrameInv'
  BY <1>1, <1>2, <1>3, <1>4 DEF IInv, FrameInv, n
<1> QED
  BY <1>1, <1>6, <1>7, <1>8 DEF IInv

LEMMA TaskInv == IInv /\ Task => IInv'
<1> SUFFICES ASSUME IInv, Task PROVE IInv'
  OBVIOUS
<1>1. Len(stack) < MaxDepth
  BY HandlesAssumption, StackFacts DEF Task, Idle, IInv
<1>2. Nothing \notin Objects
  BY HandlesAssumption DEF Objects
<1> QED
  BY <1>1, <1>2, CallInv DEF Task, IInv, TypeOK

LEMMA DisconnectInv ==
    ASSUME IInv, NEW o0 \in Objects, Disconnect(o0)
    PROVE  IInv'
<1>1. /\ o0 \in held /\ o0 \in Channels /\ ptr[o0] /\ ~InCallbackOf(o0)
      /\ Len(stack) < MaxDepth /\ stack' = Pushed(o0, "disconnecting")
      /\ UNCHANGED <<kind, gnunet, ptr, held, pack, rooms, unacked, open_ports, cadet,
                     messenger, crashed, faults>>
  BY DEF Disconnect, Deeper
<1>2. o0 # Nothing
  BY HandlesAssumption DEF Objects
<1> QED
  BY <1>1, <1>2, CallInv DEF IInv, TypeOK

LEMMA ShutdownCadetInv == IInv /\ ShutdownCadet => IInv'
<1> SUFFICES ASSUME IInv, ShutdownCadet PROVE IInv'
  OBVIOUS
<1>1. /\ Len(stack) = 1 /\ Top.o \notin Channels
      /\ open_ports' = {} /\ crashed' \in BOOLEAN /\ cadet' = "closing"
      /\ Len(stack) < MaxDepth /\ stack' = Pushed(Nothing, "shutdown")
      /\ UNCHANGED <<kind, gnunet, ptr, held, pack, rooms, unacked, messenger, faults>>
  BY DEF ShutdownCadet, Deeper
<1>2. stack[1].o \notin Channels
  BY <1>1 DEF Top
<1>3. Nothing \notin Objects
  BY HandlesAssumption DEF Objects
<1> QED
  BY <1>1, <1>2, <1>3, CallInv DEF IInv, TypeOK

LEMMA MessageInv ==
    ASSUME IInv, NEW o0 \in Objects, Message(o0)
    PROVE  IInv'
<1>1. /\ stack = <<>> /\ gnunet[o0] = "open" /\ o0 \notin unacked
      /\ FaultUnless(CanBeDelivered(o0), o0, "asserted")
      /\ stack' = Pushed(o0, "message")
      /\ unacked' = unacked \cup ({o0} \cap Channels)
      /\ crashed' \in BOOLEAN
      /\ UNCHANGED <<kind, gnunet, ptr, held, pack, rooms, open_ports, cadet, messenger>>
  BY DEF Message, Idle
<1>2. DOMAIN stack = {} /\ Len(stack) = 0 /\ Len(stack) < MaxDepth
  BY <1>1, HandlesAssumption
<1>3. ~InCallbackOf(o0) /\ ~EndingNow(o0)
  BY <1>2 DEF InCallbackOf, EndingNow
<1>4. /\ ptr[o0] /\ Referenced(o0, held, pack, stack)
      /\ o0 \in Rooms => o0 \in rooms
      /\ o0 \in Channels => pack[o0] = "live"
  BY <1>1, <1>3 DEF IInv, ObjInv, LeftDangling
<1>5. o0 \in Rooms \/ o0 \in Channels
  BY DEF Objects
<1>6. o0 \in Rooms => kind[o0] = "room"
  BY <1>1 DEF IInv, Kinds
<1>7. o0 \in Channels => kind[o0] # "room"
  BY DEF IInv, Kinds
<1>8. faults' = faults
  BY <1>1, <1>4, <1>5, <1>6, <1>7 DEF CanBeDelivered, FaultUnless
<1>9. unacked' \subseteq Channels /\ o0 # Nothing
  BY <1>1, HandlesAssumption DEF IInv, TypeOK, Objects
<1> QED
  BY <1>1, <1>2, <1>3, <1>4, <1>8, <1>9, CallInv DEF IInv, TypeOK

LEMMA ConnectedInv ==
    ASSUME IInv, NEW o0 \in Objects, Connected(o0)
    PROVE  IInv'
<1> DEFINE f == [o |-> o0, at |-> "connected"]
<1>1. /\ stack = <<>> /\ o0 \in Channels /\ kind[o0] = "none"
      /\ kind' = [kind EXCEPT ![o0] = "in"]
      /\ gnunet' = [gnunet EXCEPT ![o0] = "open"]
      /\ ptr' = [ptr EXCEPT ![o0] = TRUE]
      /\ pack' = [pack EXCEPT ![o0] = "live"]
      /\ stack' = Pushed(o0, "connected")
      /\ UNCHANGED <<held, rooms, unacked, open_ports, cadet, messenger, crashed, faults>>
      /\ faults = {}
  BY DEF Connected, Made, Idle, Alive
<1>2. DOMAIN stack = {} /\ Len(stack) = 0 /\ Len(stack) < MaxDepth
  BY <1>1, HandlesAssumption
<1>3. \A o : ~InCallbackOf(o) /\ ~EndingNow(o) /\ ~OnStack(o)
  BY <1>2 DEF InCallbackOf, EndingNow, OnStack
<1>4. /\ stack' \in Seq(Frames) /\ Len(stack') <= MaxDepth
      /\ \A i \in DOMAIN stack' : i = Len(stack) + 1
      /\ stack'[Len(stack) + 1] = f
      /\ OneFrame'
  BY <1>1, <1>2, <1>3, PushFacts DEF IInv
<1>5. /\ kind' \in [Objects -> {"none", "in", "out", "room"}]
      /\ gnunet' \in [Objects -> {"none", "open", "ending", "gone"}]
      /\ ptr' \in [Objects -> BOOLEAN]
      /\ pack' \in [Objects -> {"none", "live", "freed"}]
      /\ kind'[o0] = "in" /\ gnunet'[o0] = "open" /\ ptr'[o0] /\ pack'[o0] = "live"
      /\ \A o \in Objects : o # o0 =>
            /\ kind'[o] = kind[o] /\ gnunet'[o] = gnunet[o] /\ ptr'[o] = ptr[o]
            /\ pack'[o] = pack[o]
  BY <1>1 DEF IInv, TypeOK
<1>6. o0 \notin Rooms /\ o0 # Nothing
  BY <1>1, HandlesAssumption DEF Objects
<1>7. TypeOK' /\ OnlyDanglingFaults'
  BY <1>1, <1>4, <1>5 DEF IInv, TypeOK, OnlyDanglingFaults, LeftDangling
<1>8. \A o \in Objects : ObjInv(o)'
  <2>1. SUFFICES ASSUME NEW o \in Objects
                 PROVE  ObjInv(o)'
    OBVIOUS
  <2>2. CASE o = o0
    <3>1. ~EndingNow(o0)'
      BY <1>4 DEF EndingNow
    <3> QED
      BY <1>5, <1>6, <2>2, <3>1, ReferencedNow DEF ObjInv
  <2>3. CASE o # o0
    <3>1. ObjInv(o) /\ ~EndingNow(o) /\ ~EndingNow(o)'
      BY <1>3, <1>4 DEF IInv, EndingNow
    <3>2. Referenced(o, held, pack, stack) => Referenced(o, held, pack, stack)'
      BY <1>1, <1>3, <1>5, <2>3, ReferencedNow
    <3> QED
      BY <1>1, <1>5, <2>3, <3>1, <3>2 DEF ObjInv, LeftDangling
  <2> QED
    BY <2>2, <2>3
<1>9. FrameInv'
  BY <1>4, <1>5, <1>6 DEF FrameInv
<1>10. Kinds'
  BY <1>1, <1>5, <1>6 DEF IInv, Kinds
<1> QED
  BY <1>4, <1>7, <1>8, <1>9, <1>10 DEF IInv

\* GNUnet ends a channel and says so.
LEMMA GoneInv ==
    ASSUME IInv, NEW o0 \in Objects, Gone(o0),
           Len(stack) < MaxDepth, stack' = Pushed(o0, "gone"), ~InCallbackOf(o0)
    PROVE  IInv'
<1> DEFINE n == Len(stack)
<1>1. /\ gnunet[o0] = "open" /\ kind[o0] \in {"in", "out"}
      /\ gnunet' = [gnunet EXCEPT ![o0] = "ending"]
      /\ FaultUnless(Referenced(o0, held, pack, stack), o0, "asserted")
      /\ unacked' = unacked \ {o0}
      /\ UNCHANGED <<kind, ptr, held, pack, rooms, open_ports, cadet, messenger, crashed>>
  BY DEF Gone
<1>2. o0 \in Channels /\ o0 \notin Rooms /\ o0 # Nothing
  BY <1>1, HandlesAssumption DEF IInv, Kinds, Objects
<1>3. pack[o0] = "live" /\ ptr[o0] /\ Referenced(o0, held, pack, stack) /\ faults' = faults
  BY <1>1, <1>2 DEF IInv, ObjInv, FaultUnless
<1>4. /\ gnunet' \in [Objects -> {"none", "open", "ending", "gone"}]
      /\ gnunet'[o0] = "ending"
      /\ \A o \in Objects : o # o0 => gnunet'[o] = gnunet[o]
  BY <1>1 DEF IInv, TypeOK
<1>5. /\ stack' \in Seq(Frames) /\ Len(stack') <= MaxDepth
      /\ n \in Nat /\ DOMAIN stack = 1..n
      /\ \A i \in DOMAIN stack : i \in DOMAIN stack' /\ stack'[i] = stack[i]
      /\ \A i \in DOMAIN stack' : i \in DOMAIN stack \/ i = n + 1
      /\ n + 1 \in DOMAIN stack'
      /\ stack'[n + 1] = [o |-> o0, at |-> "gone"]
      /\ OneFrame'
      /\ \A o : OnStack(o)' <=> OnStack(o) \/ LocksIt(o, [o |-> o0, at |-> "gone"])
  BY PushFacts DEF IInv
<1>6. \A i \in DOMAIN stack : i = 2 => 1 \in DOMAIN stack
  BY <1>5
<1> HIDE DEF n
<1>7. stack'[n + 1].o = o0 /\ stack'[n + 1].at = "gone"
  BY <1>5
<1>8. EndingNow(o0)' /\ \A o : o # o0 => (EndingNow(o)' <=> EndingNow(o))
  BY <1>5, <1>7 DEF EndingNow
<1>9. TypeOK' /\ OnlyDanglingFaults'
  BY <1>1, <1>3, <1>4, <1>5 DEF IInv, TypeOK, OnlyDanglingFaults, LeftDangling
<1>10. \A o \in Objects : ObjInv(o)'
  <2>1. SUFFICES ASSUME NEW o \in Objects
                 PROVE  ObjInv(o)'
    OBVIOUS
  <2>2. CASE o = o0
    BY <1>1, <1>2, <1>3, <1>4, <1>5, <1>8, <2>2, ReferencedNow DEF ObjInv, LocksIt
  <2>3. CASE o # o0
    BY <1>1, <1>4, <1>5, <1>8, <2>3, ReferencedNow DEF IInv, ObjInv, LeftDangling
  <2> QED
    BY <2>2, <2>3
<1>11. FrameInv'
  <2>1. \A i \in DOMAIN stack : stack[i].o # o0
    BY DEF InCallbackOf
  <2>2. \A i \in DOMAIN stack : stack[i].o \in Objects \cup {Nothing}
    BY StackFacts DEF IInv
  <2>3. \A i \in DOMAIN stack : stack[i].at \notin {"task", "shutdown"} =>
            stack[i].o \in Objects
    BY <2>2 DEF IInv, FrameInv
  <2> QED
    BY <1>1, <1>2, <1>3, <1>4, <1>5, <1>6, <1>7, <2>1, <2>3 DEF IInv, FrameInv
<1>12. Kinds'
  BY <1>1, <1>4 DEF IInv, Kinds
<1> QED
  BY <1>5, <1>9, <1>10, <1>11, <1>12 DEF IInv

LEMMA PeerGoneInv ==
    ASSUME IInv, NEW o0 \in Objects, PeerGone(o0)
    PROVE  IInv'
<1>1. stack = <<>> /\ Gone(o0) /\ stack' = Pushed(o0, "gone")
  BY DEF PeerGone, Idle
<1>2. Len(stack) < MaxDepth /\ ~InCallbackOf(o0)
  BY <1>1, HandlesAssumption DEF InCallbackOf
<1> QED
  BY <1>1, <1>2, GoneInv

\* While CADET disconnects, no call about an object is below.
LEMMA GoneWithCadetInv ==
    ASSUME IInv, NEW o0 \in Objects, GoneWithCadet(o0)
    PROVE  IInv'
<1>1. /\ stack # <<>> /\ o0 \in Channels /\ Top = [o |-> Nothing, at |-> "shutdown"]
      /\ Gone(o0) /\ Len(stack) < MaxDepth /\ stack' = Pushed(o0, "gone")
  BY DEF GoneWithCadet, Returns, Deeper
<1>2. Len(stack) \in DOMAIN stack /\ DOMAIN stack = 1..Len(stack) /\ Top = stack[Len(stack)]
  BY <1>1, StackFacts DEF IInv, Top
<1>3. Len(stack) = 2 /\ stack[1].o \notin Channels
  BY <1>1, <1>2 DEF IInv, FrameInv
<1>4. DOMAIN stack = {1, 2} /\ stack[2] = [o |-> Nothing, at |-> "shutdown"]
  BY <1>1, <1>2, <1>3
<1>5. stack[2].o = Nothing /\ Nothing \notin Channels
  BY <1>4, HandlesAssumption
<1>6. ~InCallbackOf(o0)
  BY <1>1, <1>3, <1>4, <1>5 DEF InCallbackOf
<1> QED
  BY <1>1, <1>6, GoneInv

-----------------------------------------------------------------------------
(***************************************************************************)
(* Calls return                                                            *)
(***************************************************************************)

\* A call returns that holds nothing.
LEMMA ReturnInv ==
    ASSUME IInv, stack # <<>>, Top.at \in {"connected", "task", "shutdown"},
           stack' = Popped,
           UNCHANGED <<kind, gnunet, ptr, held, pack, rooms, unacked, open_ports,
                       messenger, crashed, faults>>,
           cadet' \in {"up", "closing", "down"}
    PROVE  IInv'
<1>1. /\ stack' \in Seq(Frames) /\ Len(stack') <= MaxDepth
      /\ \A i \in DOMAIN stack' : i \in DOMAIN stack /\ stack'[i] = stack[i]
      /\ OneFrame'
      /\ \A o : OnStack(o)' <=> OnStack(o)
      /\ \A o : EndingNow(o)' <=> EndingNow(o)
  BY ReturnFacts DEF IInv
<1>2. \A i \in DOMAIN stack' : i = 2 => 1 \in DOMAIN stack'
  BY <1>1
<1>3. TypeOK' /\ OnlyDanglingFaults' /\ Kinds'
  BY <1>1 DEF IInv, TypeOK, OnlyDanglingFaults, LeftDangling, Kinds
<1>4. \A o \in Objects : ObjInv(o)'
  BY <1>1, ReferencedNow DEF IInv, ObjInv, LeftDangling
<1>5. FrameInv'
  BY <1>1, <1>2 DEF IInv, FrameInv
<1> QED
  BY <1>1, <1>3, <1>4, <1>5 DEF IInv

LEMMA EndConnectedInv ==
    ASSUME IInv, NEW o0 \in Objects, EndConnected(o0)
    PROVE  IInv'
<1>1. stack # <<>> /\ Top.at = "connected"
  BY DEF EndConnected, Returns
<1> QED
  BY <1>1, ReturnInv DEF EndConnected, IInv, TypeOK

LEMMA EndShutdownInv == IInv /\ EndShutdown => IInv'
<1> SUFFICES ASSUME IInv, EndShutdown PROVE IInv'
  OBVIOUS
<1>1. stack # <<>> /\ Top.at = "shutdown"
  BY DEF EndShutdown, Returns
<1> QED
  BY <1>1, ReturnInv DEF EndShutdown

LEMMA EndTaskInv == IInv /\ EndTask => IInv'
<1> SUFFICES ASSUME IInv, EndTask PROVE IInv'
  OBVIOUS
<1>1. stack # <<>> /\ Top.at = "task"
  BY DEF EndTask, Returns
<1> QED
  BY <1>1, ReturnInv DEF EndTask, IInv, TypeOK

\* What the innermost call relies on.
LEMMA TopFacts ==
    ASSUME IInv, NEW o0 \in Objects, NEW at0, stack # <<>>, Top = [o |-> o0, at |-> at0]
    PROVE  /\ Len(stack) \in DOMAIN stack /\ stack[Len(stack)] = [o |-> o0, at |-> at0]
           /\ Top.o = o0 /\ Top.at = at0
           /\ at0 = "message" => gnunet[o0] = "open" /\ ptr[o0]
           /\ at0 = "disconnecting" => o0 \in Channels /\ ptr[o0] /\ o0 \in held
           /\ at0 = "gone" => kind[o0] \in {"in", "out"} /\ gnunet[o0] = "ending"
           /\ at0 = "returning" => kind[o0] # "none"
           /\ at0 # "gone" => ~EndingNow(o0) /\ gnunet[o0] # "ending"
<1>1. Len(stack) \in DOMAIN stack /\ Top = stack[Len(stack)]
  BY StackFacts DEF IInv, Top
<1>2. Top.o = o0 /\ Top.at = at0
  OBVIOUS
<1>3. /\ at0 = "message" => gnunet[o0] = "open" /\ ptr[o0]
      /\ at0 = "disconnecting" => o0 \in Channels /\ ptr[o0] /\ o0 \in held
      /\ at0 = "gone" => kind[o0] \in {"in", "out"}
      /\ at0 = "returning" => kind[o0] # "none"
  BY <1>1, <1>2 DEF IInv, FrameInv, ObjInv
<1>4. ASSUME at0 # "gone", EndingNow(o0) PROVE FALSE
  <2>1. PICK i \in DOMAIN stack : stack[i] = [o |-> o0, at |-> "gone"]
    BY <1>4 DEF EndingNow
  <2>2. stack[i].o = o0 /\ stack[i].at = "gone"
    BY <2>1
  <2>3. i = Len(stack)
    BY <1>1, <1>2, <2>2 DEF IInv, OneFrame
  <2> QED
    BY <1>1, <1>2, <1>4, <2>2, <2>3
<1>5. at0 = "gone" => EndingNow(o0)
  BY <1>1 DEF EndingNow
<1>6. gnunet[o0] = "ending" <=> EndingNow(o0)
  BY DEF IInv, ObjInv
<1> QED
  BY <1>1, <1>2, <1>3, <1>4, <1>5, <1>6

LEMMA EndDisconnectInv ==
    ASSUME IInv, NEW o0 \in Objects, EndDisconnect(o0)
    PROVE  IInv'
<1>1. /\ stack # <<>> /\ Alive /\ Top = [o |-> o0, at |-> "disconnecting"]
      /\ gnunet' = [gnunet EXCEPT ![o0] = "gone"]
      /\ FaultUnless(gnunet[o0] = "open", o0, "destroyed twice")
      /\ unacked' = unacked \ {o0}
      /\ ptr' = [ptr EXCEPT ![o0] = FALSE]
      /\ stack' = Popped
      /\ UNCHANGED <<kind, held, pack, rooms, open_ports, cadet, messenger, crashed>>
  BY DEF EndDisconnect, Returns, Destroyed, Disconnected
<1>2. /\ Top.o = o0 /\ Top.at = "disconnecting"
      /\ o0 \in Channels /\ ptr[o0] /\ ~EndingNow(o0)
      /\ gnunet[o0] = "open" \/ LeftDangling(o0)
  BY <1>1, TopFacts DEF IInv, ObjInv
<1>3. /\ stack' \in Seq(Frames) /\ Len(stack') <= MaxDepth
      /\ \A i \in DOMAIN stack' : i \in DOMAIN stack /\ stack'[i] = stack[i]
      /\ \A i \in DOMAIN stack : i > 1 /\ i \in DOMAIN stack' => 1 \in DOMAIN stack'
      /\ OneFrame'
      /\ \A i \in DOMAIN stack' : stack'[i].o # o0
      /\ \A o : OnStack(o)' <=> OnStack(o)
      /\ \A o : EndingNow(o)' <=> EndingNow(o)
  BY <1>1, <1>2, ReturnFacts DEF IInv
<1>4. /\ gnunet' \in [Objects -> {"none", "open", "ending", "gone"}]
      /\ ptr' \in [Objects -> BOOLEAN]
      /\ gnunet'[o0] = "gone" /\ ~ptr'[o0]
      /\ \A o \in Objects : o # o0 => gnunet'[o] = gnunet[o] /\ ptr'[o] = ptr[o]
  BY <1>1, <1>2 DEF IInv, TypeOK
<1>5. o0 \notin Rooms
  BY <1>2, HandlesAssumption
<1>6. TypeOK' /\ OnlyDanglingFaults'
  <2>1. gnunet[o0] # "open" => LeftDangling(o0)'
    BY <1>1, <1>2 DEF LeftDangling
  <2>2. faults' \subseteq Faults /\ OnlyDanglingFaults'
    BY <1>1, <2>1, FaultFacts
  <2> QED
    BY <1>1, <1>3, <1>4, <2>2 DEF IInv, TypeOK
<1>7. \A o \in Objects : ObjInv(o)'
  <2>1. SUFFICES ASSUME NEW o \in Objects
                 PROVE  ObjInv(o)'
    OBVIOUS
  <2>2. CASE o = o0
    BY <1>2, <1>3, <1>4, <1>5, <2>2 DEF ObjInv
  <2>3. CASE o # o0
    <3>1. ObjInv(o)
      BY DEF IInv
    <3>2. Referenced(o, held, pack, stack)' <=> Referenced(o, held, pack, stack)
      BY <1>1, <1>3, ReferencedNow
    <3> QED
      BY <1>1, <1>3, <1>4, <2>3, <3>1, <3>2 DEF ObjInv, LeftDangling
  <2> QED
    BY <2>2, <2>3
<1>8. FrameInv'
  <2>1. \A i \in DOMAIN stack : stack[i].at \notin {"task", "shutdown"} =>
            stack[i].o \in Objects
    BY StackFacts DEF IInv, FrameInv
  <2>2. \A i \in DOMAIN stack' : i = 2 => stack'[1] = stack[1]
    BY <1>3
  <2>3. \A i \in DOMAIN stack' : stack'[i].at \notin {"task", "shutdown"} =>
            stack'[i].o \in Objects /\ stack'[i].o # o0
    BY <1>3, <2>1
  <2>4. /\ UNCHANGED <<kind, held, pack>>
        /\ \A i \in DOMAIN stack' : i \in DOMAIN stack /\ stack'[i] = stack[i]
    BY <1>1, <1>3
  <2> QED
    BY <1>4, <2>2, <2>3, <2>4 DEF IInv, FrameInv
<1>9. Kinds'
  BY <1>1, <1>2, <1>4 DEF IInv, Kinds
<1> QED
  BY <1>3, <1>6, <1>7, <1>8, <1>9 DEF IInv

LEMMA LetGoInv ==
    ASSUME IInv, NEW o0 \in Objects, LetGo(o0)
    PROVE  IInv'
<1>1. /\ stack # <<>> /\ Alive /\ Top = [o |-> o0, at |-> "returning"]
      /\ Release(o0, held, pack, Popped)
      /\ UNCHANGED <<kind, pack, open_ports, cadet, messenger, crashed>>
  BY DEF LetGo, Returns
<1>2. /\ Top.o = o0 /\ Top.at = "returning" /\ kind[o0] # "none" /\ ~EndingNow(o0)
      /\ gnunet[o0] # "ending"
  BY <1>1, TopFacts
<1>3. /\ held' = held /\ stack' = Popped
      /\ faults' \subseteq Faults /\ OnlyDanglingFaults'
      /\ gnunet' \in [Objects -> {"none", "open", "ending", "gone"}]
      /\ ptr' \in [Objects -> BOOLEAN]
      /\ rooms' \subseteq rooms /\ unacked' \subseteq unacked
      /\ \A o \in Objects : o # o0 =>
            /\ gnunet'[o] = gnunet[o] /\ ptr'[o] = ptr[o]
            /\ (o \in rooms' <=> o \in rooms)
      /\ \/ Referenced(o0, held, pack, Popped) /\ UNCHANGED <<gnunet, ptr, rooms>>
         \/ /\ ~Referenced(o0, held, pack, Popped)
            /\ gnunet'[o0] \in {"none", "gone"} /\ gnunet[o0] # "ending"
            /\ ~ptr'[o0] /\ o0 \notin rooms'
  BY <1>1, <1>2, ReleaseFacts
<1>4. /\ stack' \in Seq(Frames) /\ Len(stack') <= MaxDepth
      /\ \A i \in DOMAIN stack' : i \in DOMAIN stack /\ stack'[i] = stack[i]
      /\ \A i \in DOMAIN stack : i > 1 /\ i \in DOMAIN stack' => 1 \in DOMAIN stack'
      /\ OneFrame'
      /\ \A i \in DOMAIN stack' : stack'[i].o # o0
      /\ \A o : o # o0 => (OnStack(o)' <=> OnStack(o))
      /\ \A o : EndingNow(o)' <=> EndingNow(o)
  BY <1>1, <1>2, <1>3, ReturnFacts DEF IInv
<1>5. Referenced(o0, held, pack, stack)' <=> Referenced(o0, held, pack, Popped)
  BY <1>1, <1>3 DEF Referenced
<1>6. TypeOK' /\ OnlyDanglingFaults'
  BY <1>1, <1>3, <1>4 DEF IInv, TypeOK
<1>7. \A o \in Objects : ObjInv(o)'
  <2>1. SUFFICES ASSUME NEW o \in Objects
                 PROVE  ObjInv(o)'
    OBVIOUS
  <2>2. ObjInv(o)
    BY DEF IInv
  <2>3. CASE o = o0
    BY <1>1, <1>2, <1>3, <1>4, <1>5, <2>2, <2>3 DEF ObjInv, LeftDangling
  <2>4. CASE o # o0
    <3>1. Referenced(o, held, pack, stack)' <=> Referenced(o, held, pack, stack)
      BY <1>1, <1>3, <1>4, <2>4, ReferencedNow
    <3> QED
      BY <1>1, <1>3, <1>4, <2>2, <2>4, <3>1 DEF ObjInv, LeftDangling
  <2> QED
    BY <2>3, <2>4
<1>8. FrameInv'
  <2>1. \A i \in DOMAIN stack : stack[i].at \notin {"task", "shutdown"} =>
            stack[i].o \in Objects
    BY StackFacts DEF IInv, FrameInv
  <2> QED
    BY <1>1, <1>3, <1>4, <2>1 DEF IInv, FrameInv
<1>9. Kinds'
  BY <1>1, <1>2, <1>3 DEF IInv, Kinds
<1> QED
  BY <1>4, <1>6, <1>7, <1>8, <1>9 DEF IInv

\* The user's callback has returned to the trampoline, which still holds the object.
LEMMA ReturningFacts ==
    ASSUME IInv, NEW o0 \in Objects, stack # <<>>, Top.o = o0, Returning(o0)
    PROVE  /\ stack' \in Seq(Frames) /\ Len(stack') <= MaxDepth
           /\ Len(stack) \in DOMAIN stack'
           /\ stack'[Len(stack)] = [o |-> o0, at |-> "returning"]
           /\ \A i \in DOMAIN stack' :
                 /\ i \in DOMAIN stack
                 /\ i # Len(stack) => stack'[i] = stack[i] /\ stack'[i].o # o0
           /\ \A i \in DOMAIN stack : i > 1 => stack'[1] = stack[1]
           /\ OneFrame' /\ OnStack(o0)' /\ ~EndingNow(o0)'
           /\ \A o : o # o0 => (OnStack(o)' <=> OnStack(o)) /\ (EndingNow(o)' <=> EndingNow(o))
<1> DEFINE f == [o |-> o0, at |-> "returning"]
           n == Len(stack)
<1>1. /\ Popped \in Seq(Frames) /\ Len(Popped) = n - 1
      /\ n \in Nat \ {0} /\ DOMAIN stack = 1..n
      /\ \A i \in DOMAIN Popped : Popped[i] = stack[i]
      /\ n \in DOMAIN stack /\ Top = stack[n]
  BY PopFacts DEF IInv
<1>2. f \in Frames /\ stack' = Append(Popped, f)
  BY FrameFacts DEF Returning
<1>3. f.o = o0 /\ f.at = "returning"
  OBVIOUS
<1> HIDE DEF f, n
<1>4. /\ stack' \in Seq(Frames) /\ Len(stack') = Len(Popped) + 1
      /\ DOMAIN stack' = 1..(Len(Popped) + 1)
      /\ DOMAIN Popped = 1..Len(Popped)
      /\ \A i \in 1..Len(Popped) : stack'[i] = Popped[i]
      /\ stack'[Len(Popped) + 1] = f
  BY <1>1, <1>2
<1>5. /\ Len(stack') = n /\ DOMAIN stack' = 1..n
      /\ \A i \in 1..(n - 1) : stack'[i] = stack[i]
      /\ stack'[n] = f
  BY <1>1, <1>4
<1>6. \A i \in 1..n : i = n \/ i \in 1..(n - 1)
  BY <1>1
<1>7. \A i \in DOMAIN stack : i # n => stack[i].o # o0
  BY <1>1 DEF IInv, OneFrame
<1>8. \A i \in DOMAIN stack' :
          /\ i \in DOMAIN stack
          /\ i # n => stack'[i] = stack[i] /\ stack'[i].o # o0
  BY <1>1, <1>5, <1>6, <1>7
<1>9. \A i \in DOMAIN stack : i > 1 => stack'[1] = stack[1]
  <2>1. n \in Nat /\ DOMAIN stack = 1..n
    BY <1>1
  <2>2. \A i \in 1..n : i > 1 => 1 \in 1..(n - 1)
    BY <2>1
  <2> QED
    BY <1>5, <2>1, <2>2
<1>10. Len(stack') <= MaxDepth
  BY <1>5 DEF IInv, TypeOK, n
<1>11. n \in DOMAIN stack' /\ DOMAIN stack' = DOMAIN stack
  BY <1>1, <1>5
<1>12. OneFrame'
  BY <1>3, <1>5, <1>8, <1>11 DEF IInv, OneFrame
<1>13. OnStack(o0)' /\ ~EndingNow(o0)'
  BY <1>3, <1>5, <1>8, <1>11 DEF OnStack, LocksIt, EndingNow
<1>14. \A o : o # o0 => (OnStack(o)' <=> OnStack(o)) /\ (EndingNow(o)' <=> EndingNow(o))
  BY <1>1, <1>3, <1>5, <1>8, <1>11 DEF OnStack, LocksIt, EndingNow
<1> QED
  BY <1>4, <1>5, <1>8, <1>9, <1>10, <1>11, <1>12, <1>13, <1>14 DEF f, n

LEMMA EndMessageInv ==
    ASSUME IInv, NEW o0 \in Objects, EndMessage(o0)
    PROVE  IInv'
<1>1. /\ stack # <<>> /\ Top = [o |-> o0, at |-> "message"]
      /\ unacked' = unacked \ {o0}
      /\ FaultUnless(kind[o0] = "room" \/ ptr[o0], o0, "asserted")
      /\ Returning(o0)
      /\ UNCHANGED <<kind, gnunet, ptr, held, pack, rooms, open_ports, cadet, messenger,
                     crashed>>
  BY DEF EndMessage, Returns, ReceiveDone
<1>2. /\ Top.o = o0 /\ Top.at = "message" /\ gnunet[o0] = "open" /\ ptr[o0]
      /\ ~EndingNow(o0)
  BY <1>1, TopFacts
<1>3. faults' = faults /\ kind[o0] # "none"
  BY <1>1, <1>2 DEF IInv, Kinds, FaultUnless
<1>4. /\ stack' \in Seq(Frames) /\ Len(stack') <= MaxDepth
      /\ stack'[Len(stack)] = [o |-> o0, at |-> "returning"]
      /\ \A i \in DOMAIN stack' :
            /\ i \in DOMAIN stack
            /\ i # Len(stack) => stack'[i] = stack[i]
      /\ \A i \in DOMAIN stack : i > 1 => stack'[1] = stack[1]
      /\ OneFrame' /\ OnStack(o0)' /\ ~EndingNow(o0)'
      /\ \A o : o # o0 => (OnStack(o)' <=> OnStack(o)) /\ (EndingNow(o)' <=> EndingNow(o))
  BY <1>1, <1>2, ReturningFacts
<1>5. TypeOK' /\ OnlyDanglingFaults' /\ Kinds'
  BY <1>1, <1>3, <1>4 DEF IInv, TypeOK, OnlyDanglingFaults, LeftDangling, Kinds
<1>6. \A o \in Objects : ObjInv(o)'
  BY <1>1, <1>2, <1>4, ReferencedNow DEF IInv, ObjInv, LeftDangling
<1>7. FrameInv'
  <2>1. o0 # Nothing
    BY HandlesAssumption DEF Objects
  <2> QED
    BY <1>1, <1>3, <1>4, <2>1 DEF IInv, FrameInv
<1> QED
  BY <1>4, <1>5, <1>6, <1>7 DEF IInv

LEMMA EndGoneInv ==
    ASSUME IInv, NEW o0 \in Objects, EndGone(o0)
    PROVE  IInv'
<1>1. /\ stack # <<>> /\ faults = {} /\ Top = [o |-> o0, at |-> "gone"]
      /\ ptr' = Cleared(o0)
      /\ pack' = [pack EXCEPT ![o0] = "freed"]
      /\ gnunet' = [gnunet EXCEPT ![o0] = "gone"]
      /\ Returning(o0)
      /\ UNCHANGED <<kind, held, rooms, unacked, open_ports, cadet, messenger, crashed,
                     faults>>
  BY DEF EndGone, Returns, Alive
<1>2. Top.o = o0 /\ kind[o0] \in {"in", "out"} /\ gnunet[o0] = "ending"
  BY <1>1, TopFacts
<1>3. /\ ptr' = [ptr EXCEPT ![o0] = FALSE] \/ (ptr' = ptr /\ kind[o0] = "out")
      /\ o0 \notin Rooms
  BY <1>1, <1>2 DEF Cleared, IInv, Kinds
<1>4. /\ stack' \in Seq(Frames) /\ Len(stack') <= MaxDepth
      /\ stack'[Len(stack)] = [o |-> o0, at |-> "returning"]
      /\ \A i \in DOMAIN stack' :
            /\ i \in DOMAIN stack
            /\ i # Len(stack) => stack'[i] = stack[i] /\ stack'[i].o # o0
      /\ \A i \in DOMAIN stack : i > 1 => stack'[1] = stack[1]
      /\ OneFrame' /\ OnStack(o0)' /\ ~EndingNow(o0)'
      /\ \A o : o # o0 => (OnStack(o)' <=> OnStack(o)) /\ (EndingNow(o)' <=> EndingNow(o))
  BY <1>1, <1>2, ReturningFacts
<1>5. /\ ptr' \in [Objects -> BOOLEAN] /\ pack' \in [Objects -> {"none", "live", "freed"}]
      /\ gnunet' \in [Objects -> {"none", "open", "ending", "gone"}]
      /\ gnunet'[o0] = "gone" /\ pack'[o0] = "freed"
      /\ ptr'[o0] => kind[o0] = "out"
      /\ \A o \in Objects : o # o0 =>
            ptr'[o] = ptr[o] /\ pack'[o] = pack[o] /\ gnunet'[o] = gnunet[o]
  BY <1>1, <1>3 DEF IInv, TypeOK
<1>6. TypeOK' /\ OnlyDanglingFaults'
  BY <1>1, <1>4, <1>5 DEF IInv, TypeOK, OnlyDanglingFaults, LeftDangling
<1>7. \A o \in Objects : ObjInv(o)'
  <2>1. SUFFICES ASSUME NEW o \in Objects
                 PROVE  ObjInv(o)'
    OBVIOUS
  <2>2. CASE o = o0
    BY <1>1, <1>3, <1>4, <1>5, <2>2 DEF ObjInv, LeftDangling
  <2>3. CASE o # o0
    <3>1. ObjInv(o)
      BY DEF IInv
    <3>2. Referenced(o, held, pack, stack)' <=> Referenced(o, held, pack, stack)
      BY <1>1, <1>4, <1>5, <2>3, ReferencedNow
    <3> QED
      BY <1>1, <1>4, <1>5, <2>3, <3>1, <3>2 DEF ObjInv, LeftDangling
  <2> QED
    BY <2>2, <2>3
<1>8. FrameInv'
  <2>1. o0 # Nothing
    BY HandlesAssumption DEF Objects
  <2>2. \A i \in DOMAIN stack : stack[i].at \notin {"task", "shutdown"} =>
            stack[i].o \in Objects
    BY StackFacts DEF IInv, FrameInv
  <2> QED
    BY <1>1, <1>2, <1>4, <1>5, <2>1, <2>2 DEF IInv, FrameInv
<1>9. Kinds'
  BY <1>1, <1>2, <1>5 DEF IInv, Kinds
<1> QED
  BY <1>4, <1>6, <1>7, <1>8, <1>9 DEF IInv

-----------------------------------------------------------------------------
(***************************************************************************)
(* The invariant and the theorems                                          *)
(***************************************************************************)

LEMMA NextInv == IInv /\ [Next]_vars => IInv'
<1> SUFFICES ASSUME IInv, [Next]_vars PROVE IInv'
  OBVIOUS
<1>1. CASE User
  <2>1. ASSUME NEW p \in Ports, OpenPort(p) \/ ClosePort(p)
        PROVE  IInv'
    BY <2>1, PortInv
  <2>2. ASSUME NEW o \in Rooms, OpenRoom(o)
        PROVE  IInv'
    BY <2>2, OpenRoomInv
  <2>3. ASSUME NEW o \in Objects, Connect(o) \/ Hold(o) \/ Drop(o) \/ Use(o) \/ Disconnect(o)
        PROVE  IInv'
    BY <2>3, ConnectInv, HoldInv, DropInv, UseInv, DisconnectInv
  <2>4. CASE ShutdownCadet
    BY <2>4, ShutdownCadetInv
  <2>5. CASE ShutdownMessenger
    BY <2>5, ShutdownMessengerInv
  <2> QED
    BY <1>1, <2>1, <2>2, <2>3, <2>4, <2>5 DEF User
<1>2. CASE FromGNUnet
  <2>1. ASSUME NEW o \in Objects, Connected(o) \/ Message(o) \/ PeerGone(o)
        PROVE  IInv'
    BY <2>1, ConnectedInv, MessageInv, PeerGoneInv
  <2> QED
    BY <1>2, <2>1, TaskInv DEF FromGNUnet
<1>3. CASE Unwind
  <2>1. ASSUME NEW o \in Objects,
               \/ EndDisconnect(o) \/ EndMessage(o) \/ EndConnected(o) \/ EndGone(o)
               \/ LetGo(o) \/ GoneWithCadet(o)
        PROVE  IInv'
    BY <2>1, EndDisconnectInv, EndMessageInv, EndConnectedInv, EndGoneInv, LetGoInv,
       GoneWithCadetInv
  <2> QED
    BY <1>3, <2>1, EndShutdownInv, EndTaskInv DEF Unwind
<1>4. CASE UNCHANGED vars
  BY <1>4, QuietInv DEF vars, IInv, TypeOK, OnlyDanglingFaults, LeftDangling
<1> QED
  BY <1>1, <1>2, <1>3, <1>4 DEF Next, Ended

LEMMA Invariance == Spec => []IInv
<1>1. Init => IInv
  BY InitInv
<1>2. IInv /\ [Next]_vars => IInv'
  BY NextInv
<1> QED
  BY <1>1, <1>2, PTL DEF Spec

\* Wrappers, packs, the map of rooms and the stack of calls keep their shape, and calls
\* nest no deeper than the bound.
THEOREM TypeCorrect == Spec => []TypeOK
<1>1. IInv => TypeOK
  BY DEF IInv
<1> QED
  BY <1>1, Invariance, PTL

\* However user code connects, uses, lets go, disconnects and shuts down in the callbacks,
\* and whoever ends a channel: no assertion of the trampolines fails, and nothing is used
\* or destroyed after its end but a channel of connect() that GNUnet ended, the one whose
\* pointer the trampoline leaves as it is.
THEOREM FaultsOnlyWhenLeftDangling == Spec => []OnlyDanglingFaults
<1>1. IInv => OnlyDanglingFaults
  BY DEF IInv
<1> QED
  BY <1>1, Invariance, PTL

\* What GNUnet has is pointed to and referred to, in the callback that tells of its end
\* too; nothing else is pointed to but what LeftDangling says; the map of rooms and the
\* packs go with GNUnet's objects.
THEOREM StaysInStep == Spec => []InStep
<1>1. IInv => InStep
  BY DEF IInv, ObjInv, InStep
<1> QED
  BY <1>1, Invariance, PTL
=============================================================================
