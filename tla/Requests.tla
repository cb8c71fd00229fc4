------------------------------ MODULE Requests ------------------------------
(***************************************************************************)
(* The calls that are answered once: GNS::lookup, the identity, namestore, *)
(* datastore, peerinfo, CADET and DHT::put calls, each with its callback   *)
(* pack and its operation in GNUnet; and the two that wait in a vector of  *)
(* observers, NSE::estimate and Messenger::waitForInit.                    *)
(*                                                                         *)
(* An answer runs user code, a callback or a coroutine that awaits it, and *)
(* the library goes on with the pack when that returns.  The user code may *)
(* make further calls and destroy services.  A lookup has a timer too,     *)
(* which cancelAll runs at shutdown.  What can go wrong is a pack, an      *)
(* operation or a connection used after it is gone, one closed from inside *)
(* its own callback, a caller told twice or never, and a datastore         *)
(* iteration that repeats or passes over entries.                          *)
(***************************************************************************)
EXTENDS Naturals, Sequences, FiniteSets

CONSTANTS
    Calls,      \* the calls that are made
    UidBits,    \* the width of a datastore uid, 64 in the code
    Entries,    \* the uids that entries of the datastore may have
    NoCall      \* stands for the call in a frame of the user's own

\* The uid after the last one is 0: no entry has the last one.  That a power of two is a
\* positive number is arithmetic the provers do not have.
ASSUME RequestsAssumption ==
    /\ UidBits \in Nat \ {0} /\ 2^UidBits \in Nat \ {0}
    /\ Entries \subseteq 0 .. 2^UidBits - 2
    /\ NoCall \notin Calls

Services == {"gns", "identity", "namestore", "datastore", "peerinfo", "dht"}

\* The operations, and the service whose connection each one uses; the others have a
\* connection of their own.
ServiceKinds == [lookup |-> "gns", change |-> "identity", records |-> "namestore",
    store |-> "namestore", put |-> "datastore", getOne |-> "datastore",
    peers |-> "peerinfo", addPeer |-> "peerinfo", dhtPut |-> "dht"]
Kinds == DOMAIN ServiceKinds \cup
    {"ego", "identities", "hello", "list", "estimate", "init"}
Uses(k, s) == k \in DOMAIN ServiceKinds /\ ServiceKinds[k] = s

Uids == 0 .. 2^UidBits - 1

VARIABLES
    kind,       \* what each call is, "none" before it is made
    pack,       \* its callback pack: "none", "live", "freed", "lost"
    op,         \* GNUnet may still call back for it
    timer,      \* a lookup's timer: "off", "armed", "firing"
    told,       \* history: how often its caller was answered
    service,    \* "up", "queued" (for disconnection), "down"
    closing,    \* the identity iterations whose disconnection is queued
    known,      \* of "estimate" and "init": NSE::estimate_, Messenger::identity_set
    cursor,     \* DataStore::get: its uid, the entries that are there throughout,
                \* those it has yielded, and whether it yielded one twice
    stack,      \* what GNUnet's thread is doing, innermost call last
    phase,      \* "running", "cancelAll", "stopped"
    fault       \* something was used that is gone

vars == <<kind, pack, op, timer, told, service, closing, known, cursor, stack,
          phase, fault>>

Idle == stack = <<>> /\ ~fault
Top == stack[Len(stack)]
Popped == SubSeq(stack, 1, Len(stack) - 1)
InUser == stack # <<>> /\ Top.user /\ ~fault
Returning == stack # <<>> /\ ~Top.user /\ ~fault

\* What the library does when user code returns.
Afterwards == {"task", "free", "cancelTimer", "cancelLookup", "cancelHello", "nothing",
               "estimate", "init"}

TypeOK ==
    /\ kind \in [Calls -> Kinds \cup {"none"}]
    /\ pack \in [Calls -> {"none", "live", "freed", "lost"}]
    /\ op \in [Calls -> BOOLEAN]
    /\ timer \in [Calls -> {"off", "armed", "firing"}]
    /\ told \in [Calls -> 0..1]
    /\ service \in [Services -> {"up", "queued", "down"}]
    /\ closing \subseteq Calls
    /\ known \subseteq {"estimate", "init"}
    /\ cursor \in [uid : Uids, kept : SUBSET Entries, got : SUBSET Entries, twice : BOOLEAN,
                   state : {"idle", "asked", "yielded", "refused", "over"}]
    /\ stack \in Seq([c : Calls \cup {NoCall}, then : Afterwards, user : BOOLEAN])
    /\ phase \in {"running", "cancelAll", "stopped"}
    /\ fault \in BOOLEAN

Init ==
    /\ kind = [c \in Calls |-> "none"] /\ pack = [c \in Calls |-> "none"]
    /\ op = [c \in Calls |-> FALSE] /\ timer = [c \in Calls |-> "off"]
    /\ told = [c \in Calls |-> 0]
    /\ service = [s \in Services |-> "up"]
    /\ closing = {} /\ known = {} /\ stack = <<>>
    /\ cursor = [uid |-> 0, kept |-> {}, got |-> {}, twice |-> FALSE, state |-> "idle"]
    /\ phase = "running" /\ fault = FALSE

-----------------------------------------------------------------------------
(***************************************************************************)
(* Making a call                                                           *)
(***************************************************************************)

Push(c, then) == stack' = Append(stack, [c |-> c, then |-> then, user |-> TRUE])
Tell(c) == told' = [told EXCEPT ![c] = @ + 1]

\* The call, the state of its pack, and whether GNUnet will call back.
Made(c, k, p, active) ==
    /\ InUser /\ phase # "stopped" /\ cursor.state = "idle"
    /\ kind[c] = "none"
    /\ \A s \in Services : Uses(k, s) => service[s] = "up"
    /\ kind' = [kind EXCEPT ![c] = k]
    /\ pack' = [pack EXCEPT ![c] = p]
    /\ op' = [op EXCEPT ![c] = active]
    /\ UNCHANGED <<service, closing, cursor, phase, fault>>

Pending(c, k) == Made(c, k, "live", TRUE) /\ UNCHANGED <<timer, told, known, stack>>

\* GNUnet takes no more: the caller has an exception, and the pack is deleted or lost.
Throws(c, k, p) ==
    /\ Made(c, k, p, FALSE)
    /\ Tell(c)
    /\ UNCHANGED <<timer, known, stack>>

\* Rule: not from an err_cb that cancelAll is calling.  It may miss the new timer, and
\* the result then cancels a task a second time.
ArmTimer_Not(c) == timer
ArmTimer(c) == [timer EXCEPT ![c] = "armed"]

Lookup(c) ==
    /\ phase = "running"
    /\ Made(c, "lookup", "live", TRUE)
    /\ timer' = ArmTimer(c)
    /\ UNCHANGED <<told, known, stack>>

ChangeIdentity(c) == Pending(c, "change")
GetEgo(c) == Pending(c, "ego") \/ Throws(c, "ego", "lost")
GetIdentities(c) == Pending(c, "identities") \/ Throws(c, "identities", "freed")
LookupRecords(c) == Pending(c, "records") \/ Throws(c, "records", "freed")

\* A record that does not parse throws before the pack is anybody's.
StoreRecords(c) ==
    \/ Pending(c, "store")
    \/ \E p \in {"freed", "lost"} : Throws(c, "store", p)

\* A full queue is answered from inside the call.
AnswersAtOnce(c, k) ==
    /\ Made(c, k, "live", FALSE)
    /\ Tell(c) /\ Push(c, "free")
    /\ UNCHANGED <<timer, known>>
PutData(c) == Pending(c, "put") \/ AnswersAtOnce(c, "put")
GetOne(c) == Pending(c, "getOne") \/ AnswersAtOnce(c, "getOne")

\* errorCallback has been moved into the pack: what is called is empty, and throws.
Peers(c) == Pending(c, "peers") \/ Throws(c, "peers", "lost")
AddPeer(c) == Pending(c, "addPeer")
HelloMessage(c) == Pending(c, "hello")
ListPeers(c) == Pending(c, "list")
DhtPut(c) == Pending(c, "dhtPut") \/ Throws(c, "dhtPut", "lost")

\* estimate() goes on if there is an estimate, else it is in observers_single_shot_.
Estimate(c) ==
    IF "estimate" \in known
    THEN Made(c, "estimate", "none", FALSE) /\ Tell(c) /\ UNCHANGED <<timer, known, stack>>
    ELSE Pending(c, "estimate")

\* waitForInit is in init_cbs either way.  Rule: it is not called from a function that
\* identity_callback is calling, for that would grow the vector it is walking.
WaitForInit(c) ==
    /\ \A i \in DOMAIN stack : stack[i].then # "init"
    /\ Made(c, "init", "live", TRUE)
    /\ IF "init" \in known THEN Tell(c) ELSE UNCHANGED told
    /\ UNCHANGED <<timer, known, stack>>

-----------------------------------------------------------------------------
(***************************************************************************)
(* Being answered                                                          *)
(***************************************************************************)

Answered(c, k, then, active) ==
    /\ Idle /\ phase # "cancelAll"
    /\ kind[c] = k /\ op[c]
    /\ fault' = (pack[c] # "live")
    /\ op' = [op EXCEPT ![c] = active]
    /\ Push(c, then)
    /\ UNCHANGED <<kind, pack, service, known, cursor, phase>>

Replied(c, k) == Answered(c, k, "free", FALSE) /\ Tell(c) /\ UNCHANGED <<timer, closing>>

\* process_lookup_result: the callback, then cancel(timeout_id), then the pack.
LookupResult_LeavesTimer(c) == Answered(c, "lookup", "free", FALSE)
LookupResult(c) == Answered(c, "lookup", "cancelTimer", FALSE)

ProcessLookupResult(c) == LookupResult(c) /\ Tell(c) /\ UNCHANGED <<timer, closing>>

\* The timer, at its time or from cancelAll: err_cb, then lookup_cancel, then the pack.
TimesOut(c) ==
    /\ Idle /\ timer[c] = "armed"
    /\ timer' = [timer EXCEPT ![c] = "firing"]
    /\ fault' = (pack[c] # "live")
    /\ Tell(c) /\ Push(c, "cancelLookup")
    /\ UNCHANGED <<kind, pack, op, service, closing, known, cursor, phase>>
LookupTimeout(c) == phase = "running" /\ TimesOut(c)

ChangeReply(c) == Replied(c, "change")
EgoReply(c) == Replied(c, "ego")
RecordsReply(c) == Replied(c, "records")
StoreReply(c) == Replied(c, "store")
PutReply(c) == Replied(c, "put")
GetReply(c) == Replied(c, "getOne")
PeersReply(c) == Replied(c, "peers")
AddPeerReply(c) == Replied(c, "addPeer")
ListReply(c) == Replied(c, "list")
DhtPutReply(c) == Replied(c, "dhtPut")

\* An ego, or the end of the list: the disconnection and the pack's deletion are queued.
\* Rule: no ego changes between the two, or the callback would run after its end.
EndOfEgos_NotClosed(c) == closing
EndOfEgos(c) == closing \cup {c}

IdentityInfo(c) ==
    /\ c \notin closing
    /\ Answered(c, "identities", "nothing", TRUE)
    /\ \/ UNCHANGED <<told, closing>>
       \/ Tell(c) /\ closing' = EndOfEgos(c)
    /\ UNCHANGED timer

\* A hello ends the request after the callback, a bad one before it.
HelloReply(c) ==
    /\ \/ Answered(c, "hello", "cancelHello", TRUE)
       \/ Answered(c, "hello", "free", FALSE)
    /\ Tell(c)
    /\ UNCHANGED <<timer, closing>>

\* handle_estimate and identity_callback set their flag and walk the observers.  Rule:
\* identity_callback comes once; the entries it calls are never removed.
Observe(k) ==
    /\ Idle /\ phase = "running"
    /\ k = "init" => k \notin known
    /\ known' = known \cup {k}
    /\ stack' = <<[c |-> NoCall, then |-> k, user |-> FALSE]>>
    /\ UNCHANGED <<kind, pack, op, timer, told, service, closing, cursor, phase, fault>>
HandleEstimate == Observe("estimate")
IdentityCallback == Observe("init")

Unseen(k) == {c \in Calls : kind[c] = k /\ op[c]}
CallObserver(c) ==
    /\ Returning /\ c \in Unseen(Top.then)
    /\ op' = [op EXCEPT ![c] = FALSE]
    /\ Tell(c) /\ Push(c, "nothing")
    /\ fault' = (pack[c] # "live" \/ told[c] > 0)
    /\ UNCHANGED <<kind, pack, timer, service, closing, known, cursor, phase>>

ClearObservers_TooSoon(k) == {c \in Calls : kind[c] \in {"estimate", "init"}}
ClearObservers(k) == {c \in Calls : kind[c] = "estimate" /\ k = "estimate"}

ObserversDone ==
    /\ Returning /\ Top.then \in {"estimate", "init"} /\ Unseen(Top.then) = {}
    /\ pack' = [c \in Calls |-> IF c \in ClearObservers(Top.then) /\ pack[c] = "live" THEN "freed" ELSE pack[c]]
    /\ stack' = Popped
    /\ UNCHANGED <<kind, op, timer, told, service, closing, known, cursor, phase, fault>>

-----------------------------------------------------------------------------
(***************************************************************************)
(* When user code returns                                                  *)
(***************************************************************************)

UserReturns ==
    /\ InUser
    /\ stack' = IF Top.then = "task" THEN Popped ELSE [stack EXCEPT ![Len(stack)].user = FALSE]
    /\ UNCHANGED <<kind, pack, op, timer, told, service, closing, known, cursor, phase, fault>>

Finished(c, then) ==
    /\ Returning /\ Top.c = c /\ Top.then = then
    /\ stack' = Popped
    /\ UNCHANGED <<kind, told, service, closing, known, cursor, phase>>
Deleted(c) == pack' = [pack EXCEPT ![c] = "freed"]

DeletePack(c) ==
    /\ Finished(c, "free") /\ Deleted(c)
    /\ fault' = (pack[c] # "live")
    /\ UNCHANGED <<op, timer>>

CancelTimer(c) ==
    /\ Finished(c, "cancelTimer") /\ Deleted(c)
    /\ timer' = [timer EXCEPT ![c] = "off"]
    /\ fault' = (pack[c] # "live" \/ timer[c] # "armed")
    /\ UNCHANGED op

CancelLookup(c) ==
    /\ Finished(c, "cancelLookup") /\ Deleted(c)
    /\ timer' = [timer EXCEPT ![c] = "off"]
    /\ op' = [op EXCEPT ![c] = FALSE]
    /\ fault' = (pack[c] # "live" \/ ~op[c] \/ service["gns"] = "down")

CancelHello(c) ==
    /\ Finished(c, "cancelHello") /\ Deleted(c)
    /\ op' = [op EXCEPT ![c] = FALSE]
    /\ fault' = (pack[c] # "live" \/ ~op[c])
    /\ UNCHANGED timer

Nothing(c) == Finished(c, "nothing") /\ UNCHANGED <<pack, op, timer, fault>>

-----------------------------------------------------------------------------
(***************************************************************************)
(* DataStore::get                                                          *)
(***************************************************************************)

\* The consumer asks for the next entry; a refusal is a callback with no data.  Bound: an
\* iteration is not interleaved with calls, it shares only the connection with them.
NextUid_Same(uid) == uid
NextUid(uid) == (uid + 1) % 2^UidBits

AdvanceCursor ==
    /\ InUser /\ service["datastore"] = "up" /\ phase = "running"
    /\ cursor.state \in {"idle", "yielded"} /\ \A c \in Calls : kind[c] = "none"
    /\ \E kept \in SUBSET Entries :
          /\ cursor.state = "yielded" => kept = cursor.kept
          /\ cursor' \in {[cursor EXCEPT !.kept = kept, !.state = x] : x \in {"asked", "refused"}}
    /\ UNCHANGED <<kind, pack, op, timer, told, service, closing, known, stack, phase, fault>>

\* GNUnet answers with the first entry from uid on; entries that are not kept come and
\* go.  The generator yields it and asks from the uid after it, or ends.
Answers == {u \in Entries : u >= cursor.uid /\ \A v \in cursor.kept : v >= cursor.uid => v >= u}

CursorReply ==
    /\ Idle /\ cursor.state = "asked" /\ service["datastore"] = "up"
    /\ \/ \E u \in Answers :
             cursor' = [cursor EXCEPT !.uid = NextUid(u), !.got = @ \cup {u},
                                      !.twice = @ \/ u \in cursor.got, !.state = "yielded"]
       \/ /\ \A v \in cursor.kept : v < cursor.uid
          /\ cursor' = [cursor EXCEPT !.state = "over"]
    /\ Push(NoCall, "task")
    /\ UNCHANGED <<kind, pack, op, timer, told, service, closing, known, phase, fault>>

-----------------------------------------------------------------------------
(***************************************************************************)
(* Services and shutdown                                                   *)
(***************************************************************************)

\* What shutdown() does to the connection: three services put it off.
Deferred == {"gns", "identity", "namestore"}
Closed(s) == IF s \in Deferred THEN "queued" ELSE "down"

\* What goes with a connection that is closed.
CutOff(S) == [c \in Calls |-> op[c] /\ \A s \in S : ~Uses(kind[c], s)]

\* A service's destructor, in a callback too.  Rule: its calls have been answered, and
\* the services that close at once are not destroyed from their own callbacks.  Bound:
\* it has been used.
Destroy(s) ==
    /\ InUser /\ phase # "cancelAll"
    /\ service[s] = "up"
    /\ (\E c \in Calls : Uses(kind[c], s)) \/ (s = "datastore" /\ cursor.state # "idle")
    /\ \A c \in Calls : Uses(kind[c], s) => ~op[c]
    /\ s \in {"datastore", "peerinfo", "dht"} =>
          \A i \in DOMAIN stack : stack[i].c # NoCall => ~Uses(kind[stack[i].c], s)
    /\ service' = [service EXCEPT ![s] = Closed(s)]
    /\ UNCHANGED <<kind, pack, op, timer, told, closing, known, cursor, stack, phase, fault>>

\* A queued disconnection runs.
Disconnect(s) ==
    /\ Idle /\ service[s] = "queued"
    /\ service' = [service EXCEPT ![s] = "down"]
    /\ op' = CutOff({s})
    /\ UNCHANGED <<kind, pack, timer, told, closing, known, cursor, stack, phase, fault>>

DisconnectIdentities(c) ==
    /\ Idle /\ c \in closing
    /\ closing' = closing \ {c}
    /\ op' = [op EXCEPT ![c] = FALSE]
    /\ Deleted(c)
    /\ fault' = (pack[c] # "live")
    /\ UNCHANGED <<kind, timer, told, service, known, cursor, stack, phase>>

Task ==
    /\ Idle /\ phase = "running"
    /\ Push(NoCall, "task")
    /\ UNCHANGED <<kind, pack, op, timer, told, service, closing, known, cursor, phase, fault>>

\* The stop closure: cancelAll calls the timers of the lookups, ...
Stop ==
    /\ Idle /\ phase = "running"
    /\ phase' = "cancelAll"
    /\ UNCHANGED <<kind, pack, op, timer, told, service, closing, known, cursor, stack, fault>>

Visit(c) == phase = "cancelAll" /\ TimesOut(c)

\* ... and removeAllServices shuts the services down.
RemoveServices ==
    /\ Idle /\ phase = "cancelAll"
    /\ \A c \in Calls : timer[c] # "armed"
    /\ phase' = "stopped"
    /\ service' = [s \in Services |-> IF service[s] = "up" THEN Closed(s) ELSE service[s]]
    /\ op' = CutOff({s \in Services : service'[s] = "down"})
    /\ UNCHANGED <<kind, pack, timer, told, closing, known, cursor, stack, fault>>

Ended == ((phase = "stopped" /\ Idle) \/ fault) /\ UNCHANGED vars

Make(c) ==
    \/ Lookup(c) \/ ChangeIdentity(c) \/ GetEgo(c) \/ GetIdentities(c) \/ LookupRecords(c)
    \/ StoreRecords(c) \/ PutData(c) \/ GetOne(c) \/ Peers(c) \/ AddPeer(c)
    \/ HelloMessage(c) \/ ListPeers(c) \/ DhtPut(c) \/ Estimate(c) \/ WaitForInit(c)
Reply(c) ==
    \/ ProcessLookupResult(c) \/ ChangeReply(c) \/ EgoReply(c) \/ IdentityInfo(c)
    \/ RecordsReply(c) \/ StoreReply(c) \/ PutReply(c) \/ GetReply(c) \/ PeersReply(c)
    \/ AddPeerReply(c) \/ HelloReply(c) \/ ListReply(c) \/ DhtPutReply(c)
Unwind ==
    \/ UserReturns \/ ObserversDone
    \/ \E c \in Calls : DeletePack(c) \/ CancelTimer(c) \/ CancelLookup(c) \/ CancelHello(c)
                        \/ Nothing(c) \/ CallObserver(c)
CancelAllStep == (\E c \in Calls : Visit(c)) \/ RemoveServices

Next ==
    \/ Task \/ Unwind \/ Stop \/ CancelAllStep \/ Ended
    \/ \E c \in Calls : Make(c) \/ Reply(c) \/ LookupTimeout(c) \/ DisconnectIdentities(c)
    \/ \E s \in Services : Destroy(s) \/ Disconnect(s)
    \/ HandleEstimate \/ IdentityCallback
    \/ AdvanceCursor \/ CursorReply

Spec == Init /\ [][Next]_vars

\* User code returns, cancelAll goes on, and a timer that is due is called in the end.
FairSpec ==
    /\ Spec
    /\ WF_vars(Unwind) /\ WF_vars(CancelAllStep)
    /\ \A c \in Calls : SF_vars(LookupTimeout(c))

-----------------------------------------------------------------------------
(***************************************************************************)
(* Properties                                                              *)
(***************************************************************************)

\* No pack, operation, timer or observer is used after it is gone.  Nor is a connection,
\* by GNUnet itself: none is closed from inside one of its callbacks, wherever user code
\* destroys the service, for GNUnet goes on with it when the callback returns.
ConnectionOpenInCallback ==
    \A i \in DOMAIN stack : \A s \in Services :
        stack[i].c # NoCall /\ Uses(kind[stack[i].c], s) => service[s] # "down"
NoUseAfterFree == ~fault /\ ConnectionOpenInCallback

\* Nobody is told twice, and no pack goes without its caller being told: who still waits
\* is known to GNUnet, until a shutdown.  A pack is there while GNUnet may use it, and no
\* longer than somebody will: GNUnet, the code under its callback, a queued closure, or
\* an observer's entry; but for what a shutdown cuts off.
BeingAnswered(c) == \E i \in DOMAIN stack : stack[i].c = c
ToldOnce == \A c \in Calls :
    /\ told[c] <= 1
    /\ pack[c] \in {"freed", "lost"} => told[c] = 1
    /\ kind[c] # "none" /\ told[c] = 0 => op[c] \/ phase = "stopped"
    /\ op[c] => pack[c] = "live"
    /\ pack[c] = "live" =>
          op[c] \/ BeingAnswered(c) \/ phase = "stopped" \/ kind[c] \in {"estimate", "init"}

\* DataStore::get yields no entry twice, and at its end every entry that was there from
\* the beginning.
CursorExact == ~cursor.twice /\ (cursor.state = "over" => cursor.kept \subseteq cursor.got)

\* A lookup is answered, if only with "Timeout", at its time or at shutdown.
LookupAnswered ==
    \A c \in Calls : (kind[c] = "lookup" /\ op[c]) ~> told[c] = 1
=============================================================================
