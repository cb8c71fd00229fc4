------------------------------ MODULE Handles ------------------------------
(***************************************************************************)
(* What user code holds by shared_ptr: CADET's channels, to this peer and  *)
(* from it, and the messenger's rooms; with the ports, the packs, and the  *)
(* callbacks for messages and disconnections.                              *)
(*                                                                         *)
(* A wrapper's pointer and GNUnet's object must live and die together,     *)
(* although either side may end it: GNUnet, when the peer goes or the      *)
(* service is shut down, the user with disconnect() or by letting go of    *)
(* the last reference, in whatever callback.                               *)
(***************************************************************************)
EXTENDS Naturals, Sequences, FiniteSets

CONSTANTS
    Channels,       \* the CADET channels
    Rooms,          \* the rooms of the messenger
    Ports,          \* the ports that are opened
    MaxDepth,       \* Bound: how deep callbacks nest
    Nothing         \* stands for the object in a frame that has none

ASSUME HandlesAssumption ==
    /\ MaxDepth \in Nat \ {0}
    /\ Nothing \notin Channels \cup Rooms /\ Channels \cap Rooms = {}

Objects == Channels \cup Rooms

VARIABLES
    kind,       \* "none" before it is made, then "in", "out", "room"
    gnunet,     \* GNUnet's object: "none", "open", "ending" (while the callback that tells
                \* of the end runs it can be read and not be destroyed), "gone"
    ptr,        \* the wrapper's pointer is not null
    held,       \* the objects user code has a shared_ptr to
    pack,       \* PortListenerPack, which holds the channel, or ConnectPack, which does
                \* not: "none", "live", "freed"
    rooms,      \* Messenger::rooms
    unacked,    \* the channels with a message that receive_done has not been called for
    open_ports, \* CADET::open_ports
    cadet,      \* "up", "closing" (in GNUNET_CADET_disconnect), "down"
    messenger,  \* "up", "down"
    stack,      \* what GNUnet's thread is doing, innermost call last
    crashed,    \* the program died of what the code does not check
    faults      \* what went wrong, and with which object

vars == <<kind, gnunet, ptr, held, pack, rooms, unacked, open_ports, cadet, messenger,
          stack, crashed, faults>>

Frames == [o : Objects \cup {Nothing},
           at : {"task", "connected", "message", "gone", "disconnecting",
                         "returning", "shutdown"}]
Faults == [o : Objects, what : {"asserted", "used after the end", "destroyed twice"}]

TypeOK ==
    /\ kind \in [Objects -> {"none", "in", "out", "room"}]
    /\ gnunet \in [Objects -> {"none", "open", "ending", "gone"}]
    /\ ptr \in [Objects -> BOOLEAN]
    /\ held \subseteq Objects
    /\ pack \in [Objects -> {"none", "live", "freed"}]
    /\ rooms \subseteq Rooms /\ unacked \subseteq Channels /\ open_ports \subseteq Ports
    /\ cadet \in {"up", "closing", "down"} /\ messenger \in {"up", "down"}
    /\ stack \in Seq(Frames) /\ Len(stack) <= MaxDepth
    /\ crashed \in BOOLEAN
    /\ faults \subseteq Faults

Init ==
    /\ kind = [o \in Objects |-> "none"] /\ gnunet = [o \in Objects |-> "none"]
    /\ ptr = [o \in Objects |-> FALSE] /\ held = {} /\ pack = [o \in Objects |-> "none"]
    /\ rooms = {} /\ unacked = {} /\ open_ports = {}
    /\ cadet = "up" /\ messenger = "up"
    /\ stack = <<>> /\ crashed = FALSE /\ faults = {}

-----------------------------------------------------------------------------
(***************************************************************************)
(* Frames and references                                                   *)
(***************************************************************************)

Alive == ~crashed /\ faults = {}
Idle == Alive /\ stack = <<>>
Top == stack[Len(stack)]
InUser == Alive /\ stack # <<>> /\ Top.at \notin {"returning", "shutdown"}
Returns(o, at) == Alive /\ stack # <<>> /\ Top = [o |-> o, at |-> at]
Pushed(o, at) == Append(stack, [o |-> o, at |-> at])
Popped == SubSeq(stack, 1, Len(stack) - 1)
InCallbackOf(o) == \E i \in DOMAIN stack : stack[i].o = o
Deeper(o, at) == Len(stack) < MaxDepth /\ stack' = Pushed(o, at)

FaultUnless(ok, obj, wrong) ==
    faults' = IF ok THEN faults ELSE faults \cup {[o |-> obj, what |-> wrong]}

\* The trampolines hold the object while they call the user.
LocksIt(o, f) == f.o = o /\ f.at \in {"message", "gone", "returning"}
Referenced(o, h, packs, st) ==
    \/ o \in h
    \/ kind[o] = "in" /\ packs[o] = "live"
    \/ \E i \in DOMAIN st : LocksIt(o, st[i])

\* GNUNET_CADET_channel_destroy or GNUNET_MESSENGER_close_room, with no callback.
Destroyed(o) ==
    /\ gnunet' = [gnunet EXCEPT ![o] = "gone"]
    /\ FaultUnless(gnunet[o] = "open", o, "destroyed twice")
    /\ unacked' = unacked \ {o}

\* ~CADETChannel and ~Room, and the deleter of a room.
Destructed(o) == rooms \ {o}

\* The references are h, packs and st from now on: the object may go.
Release(o, h, packs, st) ==
    /\ held' = h /\ stack' = st
    /\ IF Referenced(o, h, packs, st) \/ kind[o] = "none"
       THEN UNCHANGED <<gnunet, faults, unacked, rooms, ptr>>
       ELSE /\ IF ptr[o] THEN Destroyed(o) ELSE UNCHANGED <<gnunet, faults, unacked>>
            /\ ptr' = [ptr EXCEPT ![o] = FALSE]
            /\ rooms' = Destructed(o)

-----------------------------------------------------------------------------
(***************************************************************************)
(* User code: in a task, or in a callback                                  *)
(***************************************************************************)

Task ==
    /\ Idle
    /\ stack' = Pushed(Nothing, "task")
    /\ UNCHANGED <<kind, gnunet, ptr, held, pack, rooms, unacked, open_ports, cadet,
                   messenger, crashed, faults>>

Made(o, k) ==
    /\ kind' = [kind EXCEPT ![o] = k]
    /\ gnunet' = [gnunet EXCEPT ![o] = "open"]
    /\ ptr' = [ptr EXCEPT ![o] = TRUE]

OpenPort(p) ==
    /\ InUser /\ cadet = "up" /\ p \notin open_ports
    /\ open_ports' = open_ports \cup {p}
    /\ UNCHANGED <<kind, gnunet, ptr, held, pack, rooms, unacked, cadet, messenger, stack,
                   crashed, faults>>

ClosePort(p) ==
    /\ InUser /\ cadet = "up" /\ p \in open_ports
    /\ open_ports' = open_ports \ {p}
    /\ UNCHANGED <<kind, gnunet, ptr, held, pack, rooms, unacked, cadet, messenger, stack,
                   crashed, faults>>

\* CADET::connect.
Connect(o) ==
    /\ InUser /\ cadet = "up" /\ o \in Channels /\ kind[o] = "none"
    /\ Made(o, "out")
    /\ held' = held \cup {o}
    /\ pack' = [pack EXCEPT ![o] = "live"]
    /\ UNCHANGED <<rooms, unacked, open_ports, cadet, messenger, stack, crashed, faults>>

\* openRoom and enterRoom: a room that is in the map is there already.
KnownRoom(o) ==
    /\ o \in rooms
    /\ FaultUnless(Referenced(o, held, pack, stack), o, "asserted")
    /\ UNCHANGED <<kind, gnunet, ptr, rooms>>
NewRoom(o) ==
    /\ o \notin rooms
    /\ Made(o, "room")
    /\ rooms' = rooms \cup {o}
    /\ UNCHANGED faults
OpenRoom(o) ==
    /\ InUser /\ messenger = "up"
    /\ KnownRoom(o) \/ NewRoom(o)
    /\ held' = held \cup {o}
    /\ UNCHANGED <<pack, unacked, open_ports, cadet, messenger, stack, crashed>>

\* A callback is given a reference to the channel, and keeps it.
Hold(o) ==
    /\ InUser /\ Top.o = o /\ Top.at \in {"connected", "message", "gone"}
    /\ held' = held \cup {o}
    /\ UNCHANGED <<kind, gnunet, ptr, pack, rooms, unacked, open_ports, cadet, messenger,
                   stack, crashed, faults>>

\* User code lets go.  Rule: not from the callback that disconnect() is calling, which
\* goes on with the channel.
Drop(o) ==
    /\ InUser /\ o \in held
    /\ \A i \in DOMAIN stack : stack[i] # [o |-> o, at |-> "disconnecting"]
    /\ Release(o, held \ {o}, pack, stack)
    /\ UNCHANGED <<kind, pack, open_ports, cadet, messenger, crashed>>

\* send() and peer(), on what user code holds or what the callback is about: they throw
\* when the pointer is null.
Use(o) ==
    /\ InUser /\ (o \in held \/ Top.o = o)
    /\ FaultUnless(ptr[o] => gnunet[o] \in {"open", "ending"}, o, "used after the end")
    /\ UNCHANGED <<kind, gnunet, ptr, held, pack, rooms, unacked, open_ports, cadet,
                   messenger, stack, crashed>>

\* disconnect(): disconnectCallback, then the end.  Rule: not from the channel's own
\* callbacks: receive_done would have no channel, or the callback be called for ever.
Disconnect(o) ==
    /\ InUser /\ o \in held \cap Channels /\ ptr[o] /\ ~InCallbackOf(o)
    /\ Deeper(o, "disconnecting")
    /\ UNCHANGED <<kind, gnunet, ptr, held, pack, rooms, unacked, open_ports, cadet,
                   messenger, crashed, faults>>

Disconnected_KeepsPointer(o) == ptr
Disconnected(o) == [ptr EXCEPT ![o] = FALSE]

EndDisconnect(o) ==
    /\ Returns(o, "disconnecting")
    /\ Destroyed(o)
    /\ ptr' = Disconnected(o)
    /\ stack' = Popped
    /\ UNCHANGED <<kind, held, pack, rooms, open_ports, cadet, messenger, crashed>>

-----------------------------------------------------------------------------
(***************************************************************************)
(* Callbacks from GNUnet                                                   *)
(***************************************************************************)

\* cadet_connection_trampoline: the pack is returned when connectedCallback has.
Connected(o) ==
    /\ Idle /\ cadet = "up" /\ open_ports # {} /\ o \in Channels /\ kind[o] = "none"
    /\ Made(o, "in")
    /\ pack' = [pack EXCEPT ![o] = "live"]
    /\ stack' = Pushed(o, "connected")
    /\ UNCHANGED <<held, rooms, unacked, open_ports, cadet, messenger, crashed, faults>>

\* The asserts of the message trampolines, and the search of message_callback.
CanBeDelivered(o) ==
    IF kind[o] = "room" THEN o \in rooms /\ Referenced(o, held, pack, stack)
    ELSE pack[o] = "live" /\ ptr[o] /\ Referenced(o, held, pack, stack)

\* GNUnet sends a channel's next message when the last one has been acknowledged.  A room
\* whose recv_cb has not been set throws through GNUnet.
Message(o) ==
    /\ Idle /\ gnunet[o] = "open" /\ o \notin unacked
    /\ FaultUnless(CanBeDelivered(o), o, "asserted")
    /\ stack' = Pushed(o, "message")
    /\ unacked' = unacked \cup ({o} \cap Channels)
    /\ crashed' \in {FALSE, kind[o] = "room"}
    /\ UNCHANGED <<kind, gnunet, ptr, held, pack, rooms, open_ports, cadet, messenger>>

\* receive_done, on a channel that is still there; then the trampoline's reference goes.
ReceiveDone_OnlyHeld(o) == IF o \in held THEN unacked \ {o} ELSE unacked
ReceiveDone(o) == unacked \ {o}

Returning(o) == stack' = Append(Popped, [o |-> o, at |-> "returning"])

EndMessage(o) ==
    /\ Returns(o, "message")
    /\ unacked' = ReceiveDone(o)
    /\ FaultUnless(kind[o] = "room" \/ ptr[o], o, "asserted")
    /\ Returning(o)
    /\ UNCHANGED <<kind, gnunet, ptr, held, pack, rooms, open_ports, cadet, messenger, crashed>>

EndConnected(o) ==
    /\ Returns(o, "connected")
    /\ stack' = Popped
    /\ UNCHANGED <<kind, gnunet, ptr, held, pack, rooms, unacked, open_ports, cadet,
                   messenger, crashed, faults>>

\* GNUnet ends a channel, for the peer has or CADET is shut down: disconnectCallback.
Gone(o) ==
    /\ gnunet[o] = "open" /\ kind[o] \in {"in", "out"}
    /\ gnunet' = [gnunet EXCEPT ![o] = "ending"]
    /\ FaultUnless(Referenced(o, held, pack, stack), o, "asserted")
    /\ unacked' = unacked \ {o}
    /\ UNCHANGED <<kind, ptr, held, pack, rooms, open_ports, cadet, messenger, crashed>>
PeerGone(o) == Idle /\ Gone(o) /\ stack' = Pushed(o, "gone")

\* Only the trampoline of the channels to this peer clears the pointer.
Cleared_Not(o) == ptr
Cleared(o) == IF kind[o] = "in" THEN [ptr EXCEPT ![o] = FALSE] ELSE ptr

EndGone(o) ==
    /\ Returns(o, "gone")
    /\ ptr' = Cleared(o)
    /\ pack' = [pack EXCEPT ![o] = "freed"]
    /\ gnunet' = [gnunet EXCEPT ![o] = "gone"]
    /\ Returning(o)
    /\ UNCHANGED <<kind, held, rooms, unacked, open_ports, cadet, messenger, crashed, faults>>

LetGo(o) ==
    /\ Returns(o, "returning")
    /\ Release(o, held, pack, Popped)
    /\ UNCHANGED <<kind, pack, open_ports, cadet, messenger, crashed>>

-----------------------------------------------------------------------------
(***************************************************************************)
(* Shutdown                                                                *)
(***************************************************************************)

\* CADET::shutdown erases ports from the map it walks: it may get through, or not.  Rule:
\* not from a callback about a channel, which CADET would go on with.
ShutdownCadet ==
    /\ InUser /\ cadet = "up" /\ Len(stack) = 1 /\ Top.o \notin Channels
    /\ open_ports' = {}
    /\ crashed' \in {FALSE, open_ports # {}}
    /\ cadet' = "closing"
    /\ Deeper(Nothing, "shutdown")
    /\ UNCHANGED <<kind, gnunet, ptr, held, pack, rooms, unacked, messenger, faults>>

\* GNUNET_CADET_disconnect ends the channels that are left, ...
GoneWithCadet(o) ==
    /\ Returns(Nothing, "shutdown") /\ o \in Channels
    /\ Gone(o) /\ Deeper(o, "gone")

\* ... and returns.
EndShutdown ==
    /\ Returns(Nothing, "shutdown")
    /\ \A o \in Channels : gnunet[o] # "open"
    /\ cadet' = "down"
    /\ stack' = Popped
    /\ UNCHANGED <<kind, gnunet, ptr, held, pack, rooms, unacked, open_ports, messenger,
                   crashed, faults>>

\* Messenger::shutdown.  Rule: no room is left, or GNUnet's rooms would go before the
\* wrappers that close them.
ShutdownMessenger ==
    /\ InUser /\ messenger = "up" /\ rooms = {}
    /\ messenger' = "down"
    /\ UNCHANGED <<kind, gnunet, ptr, held, pack, rooms, unacked, open_ports, cadet, stack,
                   crashed, faults>>

EndTask ==
    /\ Returns(Nothing, "task")
    /\ stack' = Popped
    /\ UNCHANGED <<kind, gnunet, ptr, held, pack, rooms, unacked, open_ports, cadet,
                   messenger, crashed, faults>>

Ended == ~Alive /\ UNCHANGED vars

User ==
    \/ \E p \in Ports : OpenPort(p) \/ ClosePort(p)
    \/ \E o \in Rooms : OpenRoom(o)
    \/ \E o \in Objects : Connect(o) \/ Hold(o) \/ Drop(o) \/ Use(o) \/ Disconnect(o)
    \/ ShutdownCadet \/ ShutdownMessenger
FromGNUnet ==
    \/ \E o \in Objects : Connected(o) \/ Message(o) \/ PeerGone(o)
    \/ Task
Unwind ==
    \/ \E o \in Objects :
          EndDisconnect(o) \/ EndMessage(o) \/ EndConnected(o) \/ EndGone(o) \/ LetGo(o)
          \/ GoneWithCadet(o)
    \/ EndShutdown \/ EndTask

Next == User \/ FromGNUnet \/ Unwind \/ Ended

Spec == Init /\ [][Next]_vars

\* User code returns.
FairSpec == Spec /\ WF_vars(Unwind)

-----------------------------------------------------------------------------
(***************************************************************************)
(* Properties                                                              *)
(***************************************************************************)

\* The pointer that cadet_disconnect_client_trampoline leaves in the wrapper of a channel
\* of connect() when GNUnet has ended it is the one thing that goes wrong: no assertion of
\* the trampolines fails, and nothing else is used after its end or destroyed twice, in
\* whatever callbacks user code lets go, disconnects, uses and shuts down.
LeftDangling(o) == kind[o] = "out" /\ pack[o] = "freed"
OnlyDanglingFaults == \A f \in faults : f.what # "asserted" /\ LeftDangling(f.o)

\* "GNUnet already destroyed the channel, so we don't want the destructor to try to
\* destroy it again" (gnunetpp-cadet.cpp:64): no channel is destroyed twice.
DestroyedOnce == \A f \in faults : f.what # "destroyed twice"

\* Wrapper and GNUnet's object agree: what GNUnet has, the callback that tells of its end
\* included, is pointed to and referred to; nothing else is pointed to, but for what
\* LeftDangling says; a room is in the map for as long as GNUnet has it; and a channel that
\* GNUnet has finds its pack.
InStep == \A o \in Objects :
    /\ gnunet[o] \in {"open", "ending"} => ptr[o] /\ Referenced(o, held, pack, stack)
    /\ ptr[o] => gnunet[o] \in {"open", "ending"} \/ LeftDangling(o)
    /\ o \in Rooms => (o \in rooms <=> gnunet[o] = "open")
    /\ gnunet[o] \in {"open", "ending"} /\ o \in Channels => pack[o] = "live"

\* A message is acknowledged, so that the next one can come, or its channel is gone.
Acknowledged == \A o \in Channels : (o \in unacked) ~> (o \notin unacked \/ ~Alive)
=============================================================================
