---------------------------- MODULE DhtGetProofs ----------------------------
(***************************************************************************)
(* No search of DHT::get uses anything that is gone, for any number of     *)
(* searches and any user code that nests them.                             *)
(*                                                                         *)
(* NoUseAfterFree is not inductive.  What makes it so is what each call on *)
(* the stack relies on when it goes on after user code (EndFrames,         *)
(* ResultFrames, Nested) and how pack, get handle, timer and awaiter go    *)
(* together while nobody is ending the search (TimerGuardsSearch,          *)
(* LiveActive, Awaiters).                                                  *)
(***************************************************************************)
EXTENDS DhtGet, SequenceTheorems, TLAPS

\* Only the innermost call is about to go on; the others wait for user code.
Nested == \A i \in DOMAIN stack : i < Len(stack) => stack[i].user

\* A call that ends a search still owns the pack, and nobody else can end it.
EndFrames ==
    \A i \in DOMAIN stack : stack[i].op \in Ends =>
        /\ pack[stack[i].s] = "live"
        /\ stack[i].s \notin active
        /\ timer[stack[i].s] # "armed"
        /\ stack[i].s \in Generators => stack[i].s \in finished_
        /\ stack[i].op = "drop" => stack[i].s \in Generators /\ ~stack[i].user

\* getCallback is called from GNUnet's loop; a callback's search cannot end before
\* the callback returns.
ResultFrames ==
    \A i \in DOMAIN stack : stack[i].op = "result" =>
        /\ i = 1
        /\ stack[i].s \notin Generators =>
               pack[stack[i].s] = "live" /\ stack[i].s \in active /\ ~Ending(stack[i].s)

LiveActive ==
    \A s \in Searches :
        pack[s] = "live" /\ ~Ending(s) => s \in active \/ phase = "disconnected"

\* Generators have awaiters, and an awaiter lacks its end exactly as long as the search
\* can be ended.
Awaiters ==
    /\ \A s \in Searches \ Generators : awaiter[s] = "none"
    /\ \A s \in Generators :
          /\ awaiter[s] = "none" <=> pack[s] = "none"
          /\ (awaiter[s] = "live" /\ s \notin finished_) <=> (pack[s] = "live" /\ ~Ending(s))
          /\ pack[s] = "none" => s \notin finished_

RoomForEnd == \A s \in Searches : s \notin finished_ => unread[s] <= MaxUnread

Disconnected == phase = "disconnected" => stack = <<>>

IInv ==
    /\ TypeOK /\ NoUseAfterFree
    /\ Nested /\ EndFrames /\ EndedOnce /\ ResultFrames
    /\ TimerGuardsSearch /\ LiveActive /\ Awaiters /\ WaitingHasEnd
    /\ RoomForEnd /\ Disconnected

-----------------------------------------------------------------------------
(***************************************************************************)
(* The stack                                                               *)
(***************************************************************************)

\* What is known of a call on the stack by its kind.
LEMMA FrameFacts ==
    ASSUME NEW f \in Frames
    PROVE  /\ f.user \in BOOLEAN
           /\ f.op \in Ends \cup {"result", "task"}
           /\ f.op \in Ends \cup {"result"} => f.s \in Searches
           /\ f.op = "task" => f.s = NoSearch /\ f.user
BY DEF Frames, Ends

\* A call is pushed.
LEMMA PushFacts ==
    ASSUME NEW stk \in Seq(Frames), NEW f \in Frames
    PROVE  /\ Append(stk, f) \in Seq(Frames)
           /\ Len(Append(stk, f)) = Len(stk) + 1
           /\ DOMAIN Append(stk, f) = 1..(Len(stk) + 1)
           /\ \A i \in 1..Len(stk) : Append(stk, f)[i] = stk[i]
           /\ Append(stk, f)[Len(stk) + 1] = f
           /\ Append(stk, f) # <<>>
OBVIOUS

\* A call returns.
LEMMA PopFacts ==
    ASSUME NEW stk \in Seq(Frames), stk # <<>>
    PROVE  /\ SubSeq(stk, 1, Len(stk) - 1) \in Seq(Frames)
           /\ Len(stk) \in Nat \ {0}
           /\ Len(SubSeq(stk, 1, Len(stk) - 1)) = Len(stk) - 1
           /\ DOMAIN SubSeq(stk, 1, Len(stk) - 1) = 1..(Len(stk) - 1)
           /\ \A i \in 1..(Len(stk) - 1) : SubSeq(stk, 1, Len(stk) - 1)[i] = stk[i]
<1>1. Len(stk) \in Nat /\ Len(stk) # 0
  OBVIOUS
<1>2. /\ 1 \in Int /\ Len(stk) - 1 \in Int
      /\ \A i \in 1..(Len(stk) - 1) : stk[i] \in Frames
  BY <1>1
<1>3. /\ SubSeq(stk, 1, Len(stk) - 1) \in Seq(Frames)
      /\ Len(SubSeq(stk, 1, Len(stk) - 1))
            = IF 1 <= Len(stk) - 1 THEN (Len(stk) - 1) - 1 + 1 ELSE 0
      /\ \A i \in 1..((Len(stk) - 1) - 1 + 1) :
            SubSeq(stk, 1, Len(stk) - 1)[i] = stk[1 + i - 1]
  BY <1>2, SubSeqProperties
<1>4. Len(SubSeq(stk, 1, Len(stk) - 1)) = Len(stk) - 1
  <2> DEFINE len == Len(SubSeq(stk, 1, Len(stk) - 1))
  <2> HIDE DEF len
  <2>1. len = IF 1 <= Len(stk) - 1 THEN (Len(stk) - 1) - 1 + 1 ELSE 0
    BY <1>3, Zenon DEF len
  <2>2. len = Len(stk) - 1
    BY <1>1, <2>1
  <2> QED
    BY <2>2 DEF len
<1>5. DOMAIN SubSeq(stk, 1, Len(stk) - 1) = 1..(Len(stk) - 1)
  BY <1>3, <1>4, LenProperties
<1>6. \A i \in 1..(Len(stk) - 1) : SubSeq(stk, 1, Len(stk) - 1)[i] = stk[i]
  <2>1. \A i \in 1..(Len(stk) - 1) : 1 + i - 1 = i /\ i \in 1..((Len(stk) - 1) - 1 + 1)
    BY <1>1
  <2> QED
    BY <1>3, <2>1
<1> QED
  BY <1>1, <1>3, <1>4, <1>5, <1>6

\* Every call that is on the stack is a frame.
LEMMA StackFacts ==
    ASSUME TypeOK
    PROVE  /\ DOMAIN stack = 1..Len(stack) /\ Len(stack) \in Nat
           /\ \A i \in 1..Len(stack) : stack[i] \in Frames
           /\ \A i \in 1..Len(stack) :
                 /\ stack[i].op \in Ends \cup {"result"} => stack[i].s \in Searches
                 /\ stack[i].op = "task" => stack[i].s = NoSearch
           /\ stack # <<>> => Len(stack) \in 1..Len(stack)
           /\ stack = <<>> => \A s \in Searches : ~Ending(s)
<1>1. stack \in Seq(Frames)
  BY DEF TypeOK
<1>2. /\ DOMAIN stack = 1..Len(stack) /\ Len(stack) \in Nat
      /\ \A i \in 1..Len(stack) : stack[i] \in Frames
      /\ stack # <<>> => Len(stack) \in 1..Len(stack)
  BY <1>1
<1>3. \A i \in 1..Len(stack) :
          /\ stack[i].op \in Ends \cup {"result"} => stack[i].s \in Searches
          /\ stack[i].op = "task" => stack[i].s = NoSearch
  BY <1>2, FrameFacts
<1>4. stack = <<>> => \A s \in Searches : ~Ending(s)
  BY <1>2 DEF Ending
<1> QED
  BY <1>2, <1>3, <1>4

-----------------------------------------------------------------------------
(***************************************************************************)
(* Ending a search                                                         *)
(***************************************************************************)

\* Whoever ends a search that nobody else is ending keeps the invariant.  `below`,
\* the stack without the getCallback that goes on to end it, holds no call that
\* relies on the search any more.
LEMMA EndSearchInv ==
    ASSUME IInv,
           NEW s0 \in Searches, NEW op \in Ends, NEW below \in Seq(Frames),
           Len(below) <= Len(stack),
           \A i \in 1..Len(below) : below[i] = stack[i] /\ below[i].user,
           \A i \in 1..Len(stack) :
               i > Len(below) => stack[i].op = "result" /\ stack[i].s = s0,
           s0 \notin Generators =>
               \A i \in 1..Len(below) : below[i].op = "result" => below[i].s # s0,
           pack[s0] = "live", s0 \in active, timer[s0] = "armed", ~Ending(s0),
           op = "drop" => s0 \in Generators /\ s0 \notin waiting,
           phase # "disconnected",
           EndSearch(s0, op, below),
           UNCHANGED <<pack, awaiter, phase, missed>>
    PROVE  IInv'
<1> USE DhtGetAssumption
<1>1. PICK u \in BOOLEAN :
        /\ stack' = Append(below, [op |-> op, s |-> s0, user |-> u])
        /\ op = "drop" => ~u
  <2>1. CASE s0 \in Generators
    <3>1. stack' = Append(below, [op |-> op, s |-> s0, user |-> s0 \in waiting])
      BY <2>1, Zenon DEF EndSearch
    <3>2. CASE s0 \in waiting
      <4>1. (s0 \in waiting) = TRUE /\ op # "drop"
        BY <3>2
      <4> QED
        BY <3>1, <4>1, Zenon
    <3>3. CASE s0 \notin waiting
      <4>1. (s0 \in waiting) = FALSE
        BY <3>3
      <4> QED
        BY <3>1, <4>1, Zenon
    <3> QED
      BY <3>2, <3>3
  <2>2. CASE s0 \notin Generators
    <3>1. PICK given \in BOOLEAN :
              stack' = Append(below, [op |-> op, s |-> s0, user |-> given])
      BY <2>2, Zenon DEF EndSearch
    <3>2. op # "drop"
      BY <2>2
    <3> QED
      BY <3>1, <3>2, Zenon
  <2> QED
    BY <2>1, <2>2
<1> DEFINE f == [op |-> op, s |-> s0, user |-> u]
           n == Len(below) + 1
<1>2. f \in Frames /\ f.op = op /\ f.s = s0 /\ f.user = u /\ f.op # "result"
  BY DEF Frames, Ends
<1>3. /\ Len(below) \in Nat /\ Len(stack) \in Nat /\ DOMAIN stack = 1..Len(stack)
      /\ stack' \in Seq(Frames) /\ Len(stack') = n /\ DOMAIN stack' = 1..n
      /\ \A i \in 1..Len(below) : stack'[i] = stack[i] /\ stack[i].user
      /\ stack'[n] = f
      /\ \A i \in 1..n : i \in 1..Len(below) \/ i = n
      /\ \A i \in 1..Len(below) : i \in DOMAIN stack
  <2>1. Len(below) \in Nat /\ Len(stack) \in Nat /\ DOMAIN stack = 1..Len(stack)
    BY DEF IInv, TypeOK
  <2> HIDE DEF f
  <2>2. stack' = Append(below, f)
    BY <1>1 DEF f
  <2>3. /\ stack' \in Seq(Frames) /\ Len(stack') = n /\ DOMAIN stack' = 1..n
        /\ \A i \in 1..Len(below) : stack'[i] = below[i]
        /\ stack'[n] = f
    BY <1>2, <2>2, PushFacts
  <2> QED
    BY <2>1, <2>3
<1> HIDE DEF f, n
<1>4. n \in Nat /\ n = Len(below) + 1
  BY <1>3 DEF n
<1>5. \A t \in Searches : Ending(t)' <=> Ending(t) \/ t = s0
  <2>1. ASSUME NEW t \in Searches, Ending(t)'
        PROVE  Ending(t) \/ t = s0
    <3>1. PICK i \in 1..n : stack'[i].op \in Ends /\ stack'[i].s = t
      BY <1>3, <2>1 DEF Ending
    <3> QED
      BY <1>2, <1>3, <3>1 DEF Ending
  <2>2. ASSUME NEW t \in Searches, Ending(t)
        PROVE  Ending(t)'
    <3>1. PICK i \in 1..Len(stack) : stack[i].op \in Ends /\ stack[i].s = t
      BY <1>3, <2>2 DEF Ending
    <3>2. i \in 1..Len(below)
      BY <1>3, <3>1 DEF Ends
    <3>3. i \in 1..n
      BY <1>4, <1>3, <3>2
    <3> QED
      BY <1>3, <3>1, <3>2, <3>3 DEF Ending
  <2>3. Ending(s0)'
    <3>1. n \in 1..n
      BY <1>4, <1>3
    <3> QED
      BY <1>2, <1>3, <3>1 DEF Ending
  <2> QED
    BY <2>1, <2>2, <2>3
<1>6. s0 \in Generators => awaiter[s0] = "live" /\ s0 \notin finished_
  BY DEF IInv, Awaiters
<1>7. /\ active' = active \ {s0}
      /\ timer' \in [Searches -> {"off", "armed", "firing"}]
      /\ timer'[s0] # "armed"
      /\ \A t \in Searches : t # s0 => timer'[t] = timer[t]
      /\ fault' = FALSE
  BY <1>6 DEF EndSearch, IInv, TypeOK, Cancels, Ends
<1>8. /\ finished_' = IF s0 \in Generators THEN finished_ \cup {s0} ELSE finished_
      /\ waiting' = waiting \ {s0}
      /\ unread' \in [Searches -> 0..MaxUnread + 1]
      /\ \A t \in Searches : t # s0 => unread'[t] = unread[t]
      /\ s0 \notin Generators => unread' = unread
  <2>1. CASE s0 \in Generators
    <3>1. /\ finished_' = finished_ \cup {s0}
          /\ unread' = [unread EXCEPT ![s0] = unread[s0] + 1]
          /\ waiting' = waiting \ {s0}
      BY <2>1, Zenon DEF EndSearch, FinishAwaiter
    <3>2. unread \in [Searches -> 0..MaxUnread + 1] /\ unread[s0] \in 0..MaxUnread
      BY <1>6, <2>1 DEF IInv, RoomForEnd, TypeOK
    <3>3. unread[s0] + 1 \in 0..MaxUnread + 1
      BY <3>2
    <3> QED
      BY <2>1, <3>1, <3>2, <3>3
  <2>2. CASE s0 \notin Generators
    <3>1. waiting \ {s0} = waiting
      BY <2>2 DEF IInv, TypeOK
    <3> QED
      BY <2>2, <3>1 DEF EndSearch, IInv, TypeOK
  <2> QED
    BY <2>1, <2>2
<1>9. TypeOK'
  BY <1>3, <1>7, <1>8 DEF IInv, TypeOK
<1>10. NoUseAfterFree' /\ Disconnected'
  BY <1>7 DEF NoUseAfterFree, Disconnected
<1>11. Nested'
  BY <1>3, <1>4 DEF Nested
<1>12. EndFrames'
  <2> SUFFICES ASSUME NEW i \in 1..n, stack'[i].op \in Ends
               PROVE  /\ pack[stack'[i].s] = "live"
                      /\ stack'[i].s \notin active'
                      /\ timer'[stack'[i].s] # "armed"
                      /\ stack'[i].s \in Generators => stack'[i].s \in finished_'
                      /\ stack'[i].op = "drop" => stack'[i].s \in Generators /\ ~stack'[i].user
    BY <1>3 DEF EndFrames
  <2>1. CASE i = n
    BY <1>1, <1>2, <1>3, <1>7, <1>8, <2>1
  <2>2. CASE i \in 1..Len(below)
    <3>1. i \in DOMAIN stack /\ stack'[i] = stack[i]
      BY <1>3, <2>2
    <3>2. stack[i].s \in Searches /\ stack[i].s # s0
      BY <3>1, StackFacts DEF IInv, Ending
    <3> QED
      BY <1>7, <1>8, <3>1, <3>2 DEF IInv, EndFrames
  <2> QED
    BY <1>3, <2>1, <2>2
<1>13. EndedOnce'
  <2> SUFFICES ASSUME NEW i \in 1..n, NEW j \in 1..n,
                      stack'[i].op \in Ends, stack'[j].op \in Ends,
                      stack'[i].s = stack'[j].s
               PROVE  i = j
    BY <1>3 DEF EndedOnce
  <2>1. \A k \in 1..Len(below) : stack[k].op \in Ends => stack[k].s # s0
    BY <1>3 DEF Ending
  <2> QED
    BY <1>2, <1>3, <2>1 DEF IInv, EndedOnce
<1>14. ResultFrames'
  <2> SUFFICES ASSUME NEW i \in 1..n, stack'[i].op = "result"
               PROVE  /\ i = 1
                      /\ stack'[i].s \notin Generators =>
                           /\ pack[stack'[i].s] = "live"
                           /\ stack'[i].s \in active'
                           /\ ~(Ending(stack[i].s))'
    BY <1>3 DEF ResultFrames
  <2>1. i \in 1..Len(below) /\ i \in DOMAIN stack /\ stack'[i] = stack[i]
    BY <1>2, <1>3
  <2>2. PICK t \in Searches : stack[i].s = t /\ stack'[i].s = t
    BY <2>1, StackFacts DEF IInv
  <2>3. t \notin Generators => t # s0 /\ pack[t] = "live" /\ t \in active /\ ~Ending(t)
    BY <1>3, <2>1, <2>2 DEF IInv, ResultFrames, Ending
  <2>4. t \notin Generators => ~Ending(t)'
    BY <1>5, <2>3
  <2>5. i = 1
    BY <2>1 DEF IInv, ResultFrames
  <2> QED
    BY <1>7, <2>2, <2>3, <2>4, <2>5 DEF Ending
<1>15. TimerGuardsSearch' /\ LiveActive'
  BY <1>5, <1>7 DEF IInv, TimerGuardsSearch, LiveActive
<1>16. Awaiters'
  BY <1>5, <1>8 DEF IInv, Awaiters
<1>17. WaitingHasEnd' /\ RoomForEnd'
  BY <1>8 DEF IInv, TypeOK, WaitingHasEnd, RoomForEnd
<1> QED
  BY <1>9, <1>10, <1>11, <1>12, <1>13, <1>14, <1>15, <1>16, <1>17 DEF IInv

-----------------------------------------------------------------------------
(***************************************************************************)
(* The other actions                                                       *)
(***************************************************************************)

LEMMA InitInv == Init => IInv
<1> SUFFICES ASSUME Init PROVE IInv
  OBVIOUS
<1> USE DhtGetAssumption
<1>1. TypeOK
  <2>1. stack \in Seq(Frames)
    BY DEF Init
  <2>2. unread \in [Searches -> 0..MaxUnread + 1]
    BY DEF Init
  <2> QED
    BY <2>1, <2>2 DEF Init, TypeOK
<1>2. Len(stack) = 0 /\ DOMAIN stack = {}
  BY DEF Init
<1>3. \A s \in Searches : ~Ending(s)
  BY <1>2 DEF Ending
<1> QED
  BY <1>1, <1>2, <1>3 DEF Init, IInv, NoUseAfterFree, Nested, EndFrames, EndedOnce,
     ResultFrames, TimerGuardsSearch, LiveActive, Awaiters, WaitingHasEnd, RoomForEnd,
     Disconnected

\* In user code every call on the stack waits for user code.
LEMMA InUserFacts ==
    ASSUME IInv, InUser
    PROVE  /\ \A i \in 1..Len(stack) : stack[i].user
           /\ phase # "disconnected"
<1>0. Len(stack) \in Nat
  BY StackFacts DEF IInv
<1>1. \A i \in 1..Len(stack) : i < Len(stack) \/ i = Len(stack)
  BY <1>0
<1>2. stack[Len(stack)].user /\ stack # <<>>
  BY DEF InUser, Top
<1>3. DOMAIN stack = 1..Len(stack) /\ Nested
  BY StackFacts DEF IInv
<1>4. \A i \in 1..Len(stack) : stack[i].user
  BY <1>1, <1>2, <1>3, Zenon DEF Nested
<1> QED
  BY <1>2, <1>4 DEF IInv, Disconnected

\* Ending a search from user code, or from GNUnet's loop, leaves the stack below it.
LEMMA EndHereInv ==
    ASSUME IInv, NEW s0 \in Searches, NEW op \in Ends,
           \A i \in 1..Len(stack) : stack[i].user,
           s0 \notin Generators => \A i \in 1..Len(stack) : stack[i].s # s0,
           pack[s0] = "live", ~Ending(s0),
           op = "drop" => s0 \in Generators /\ s0 \notin waiting,
           phase # "disconnected",
           EndSearch(s0, op, stack),
           UNCHANGED <<pack, awaiter, phase, missed>>
    PROVE  IInv'
<1>1. s0 \in active /\ timer[s0] = "armed"
  BY DEF IInv, LiveActive, TimerGuardsSearch
<1>2. stack \in Seq(Frames) /\ Len(stack) \in Nat
  BY DEF IInv, TypeOK
<1> QED
  BY <1>1, <1>2, EndSearchInv

\* A call is pushed that ends no search.
LEMMA PushInv ==
    ASSUME IInv, NEW f \in Frames, f.op \notin Ends,
           f.op = "result" => stack = <<>>,
           f.op = "result" /\ f.s \notin Generators =>
               pack[f.s] = "live" /\ f.s \in active,
           \A i \in 1..Len(stack) : stack[i].user,
           phase # "disconnected",
           stack' = Append(stack, f),
           UNCHANGED <<pack, active, timer, awaiter, finished_, phase, missed>>
    PROVE  /\ stack' \in Seq(Frames)
           /\ \A t \in Searches : Ending(t)' <=> Ending(t)
           /\ (Nested /\ EndFrames /\ EndedOnce /\ ResultFrames)'
           /\ (TimerGuardsSearch /\ LiveActive /\ Awaiters /\ Disconnected)'
<1> DEFINE n == Len(stack) + 1
<1>1. /\ stack \in Seq(Frames) /\ Len(stack) \in Nat /\ DOMAIN stack = 1..Len(stack)
      /\ stack' \in Seq(Frames) /\ Len(stack') = n /\ DOMAIN stack' = 1..n
      /\ \A i \in 1..Len(stack) : stack'[i] = stack[i]
      /\ stack'[n] = f
      /\ \A i \in 1..n : i \in 1..Len(stack) \/ i = n
      /\ \A i \in 1..Len(stack) : i \in 1..n
  <2>1. stack \in Seq(Frames) /\ Len(stack) \in Nat /\ DOMAIN stack = 1..Len(stack)
    BY DEF IInv, TypeOK
  <2>2. /\ stack' \in Seq(Frames) /\ Len(stack') = n /\ DOMAIN stack' = 1..n
        /\ \A i \in 1..Len(stack) : stack'[i] = stack[i]
        /\ stack'[n] = f
    BY <2>1, PushFacts
  <2> QED
    BY <2>1, <2>2
<1> HIDE DEF n
<1>2. n \in Nat /\ n = Len(stack) + 1
  BY <1>1 DEF n
<1>3. \A t \in Searches : Ending(t)' <=> Ending(t)
  BY <1>1 DEF Ending
<1>4. Nested'
  BY <1>1, <1>2 DEF Nested
<1>5. EndFrames'
  BY <1>1 DEF IInv, EndFrames
<1>6. EndedOnce'
  BY <1>1 DEF IInv, EndedOnce
<1>7. ResultFrames'
  <2> SUFFICES ASSUME NEW i \in 1..n, stack'[i].op = "result"
               PROVE  /\ i = 1
                      /\ stack'[i].s \notin Generators =>
                           /\ pack[stack'[i].s] = "live"
                           /\ stack'[i].s \in active
                           /\ ~(Ending(stack[i].s))'
    BY <1>1 DEF ResultFrames
  <2>1. PICK t \in Searches : stack'[i].s = t
    BY <1>1, FrameFacts
  <2>2. CASE i = n
    <3>1. stack = <<>> /\ n = 1
      BY <1>1, <1>2, <2>2
    <3>2. ~Ending(t)'
      BY <1>3, <3>1, StackFacts DEF IInv
    <3> QED
      BY <1>1, <2>1, <2>2, <3>1, <3>2 DEF Ending
  <2>3. CASE i \in 1..Len(stack)
    <3>1. i \in DOMAIN stack /\ stack[i].op = "result" /\ stack[i].s = t
      BY <1>1, <2>1, <2>3
    <3>2. t \notin Generators => ~Ending(t)
      BY <3>1 DEF IInv, ResultFrames, Ending
    <3>3. t \notin Generators => ~Ending(t)'
      BY <1>3, <3>2
    <3> QED
      BY <2>1, <3>1, <3>3 DEF IInv, ResultFrames, Ending
  <2> QED
    BY <1>1, <2>2, <2>3
<1>8. TimerGuardsSearch' /\ LiveActive'
  BY <1>3 DEF IInv, TimerGuardsSearch, LiveActive
<1>9. Awaiters' /\ Disconnected'
  <2>1. \A t \in Generators : Ending(t)' <=> Ending(t)
    BY <1>3, DhtGetAssumption
  <2> QED
    BY <2>1 DEF IInv, Awaiters, Disconnected
<1> QED
  BY <1>1, <1>3, <1>4, <1>5, <1>6, <1>7, <1>8, <1>9

LEMMA TaskInv == IInv /\ Task => IInv'
<1> SUFFICES ASSUME IInv, Task PROVE IInv'
  OBVIOUS
<1> DEFINE f == [op |-> "task", s |-> NoSearch, user |-> TRUE]
<1>1. f \in Frames /\ f.op = "task"
  BY DEF Frames
<1>2. /\ stack = <<>> /\ phase = "running" /\ stack' = Append(stack, f)
      /\ UNCHANGED <<pack, active, timer, awaiter, finished_, unread, waiting, phase,
                     missed, fault>>
  BY DEF Task, Idle, Pushed
<1>3. \A i \in 1..Len(stack) : stack[i].user
  BY <1>2
<1> HIDE DEF f
<1>4. "task" \notin Ends
  BY DEF Ends
<1>5. /\ stack' \in Seq(Frames)
      /\ (Nested /\ EndFrames /\ EndedOnce /\ ResultFrames)'
      /\ (TimerGuardsSearch /\ LiveActive /\ Awaiters /\ Disconnected)'
  BY <1>1, <1>2, <1>3, <1>4, PushInv
<1>6. (NoUseAfterFree /\ WaitingHasEnd /\ RoomForEnd)'
  BY <1>2 DEF IInv, NoUseAfterFree, WaitingHasEnd, RoomForEnd
<1>7. TypeOK'
  BY <1>2, <1>5 DEF IInv, TypeOK
<1> QED
  BY <1>5, <1>6, <1>7 DEF IInv

LEMMA ResultInv == ASSUME NEW s0 \in Searches PROVE IInv /\ Result(s0) => IInv'
<1> SUFFICES ASSUME IInv, Result(s0) PROVE IInv'
  OBVIOUS
<1> USE DhtGetAssumption
<1>1. /\ stack = <<>> /\ phase = "running" /\ s0 \in active /\ unread[s0] < MaxUnread
      /\ UNCHANGED <<pack, active, timer, awaiter, finished_, phase, missed>>
  BY DEF Result, Idle
<1>2. ~Ending(s0) /\ pack[s0] = "live" /\ timer[s0] = "armed"
  BY <1>1, StackFacts DEF IInv, TimerGuardsSearch
<1>3. s0 \in Generators => awaiter[s0] = "live" /\ s0 \notin finished_
  BY <1>2 DEF IInv, Awaiters
<1>4. fault' = FALSE
  BY <1>2, <1>3 DEF Result
<1>5. PICK u \in BOOLEAN : stack' = Append(stack, [op |-> "result", s |-> s0, user |-> u])
  <2>1. CASE s0 \in Generators /\ s0 \in waiting
    <3>1. (s0 \in waiting) = TRUE
      BY <2>1
    <3> QED
      BY <2>1, <3>1, Zenon DEF Result, Pushed
  <2>2. CASE s0 \in Generators /\ s0 \notin waiting
    <3>1. (s0 \in waiting) = FALSE
      BY <2>2
    <3> QED
      BY <2>2, <3>1, Zenon DEF Result, Pushed
  <2>3. CASE s0 \notin Generators
    BY <2>3, Zenon DEF Result, Pushed
  <2> QED
    BY <2>1, <2>2, <2>3
<1> DEFINE f == [op |-> "result", s |-> s0, user |-> u]
<1>6. f \in Frames /\ f.op = "result" /\ f.s = s0
  BY DEF Frames
<1>7. \A i \in 1..Len(stack) : stack[i].user
  BY <1>1
<1>8. stack' = Append(stack, f)
  BY <1>5
<1> HIDE DEF f
<1>9. "result" \notin Ends
  BY DEF Ends
<1>10. /\ stack' \in Seq(Frames)
       /\ (Nested /\ EndFrames /\ EndedOnce /\ ResultFrames)'
       /\ (TimerGuardsSearch /\ LiveActive /\ Awaiters /\ Disconnected)'
  BY <1>1, <1>2, <1>6, <1>7, <1>8, <1>9, PushInv
<1>11. /\ unread' \in [Searches -> 0..MaxUnread + 1]
       /\ \A t \in Searches : t # s0 => unread'[t] = unread[t]
       /\ unread'[s0] <= MaxUnread
       /\ waiting' \subseteq waiting
       /\ s0 \in waiting => s0 \notin waiting'
  <2>1. unread \in [Searches -> 0..MaxUnread + 1] /\ waiting \subseteq Generators
    BY DEF IInv, TypeOK
  <2>2. unread[s0] + 1 \in 0..MaxUnread + 1 /\ unread[s0] + 1 <= MaxUnread
    BY <1>1, <2>1
  <2>3. CASE s0 \in Generators
    <3>1. unread' = [unread EXCEPT ![s0] = unread[s0] + 1] /\ waiting' = waiting \ {s0}
      BY <2>3, Zenon DEF Result
    <3> QED
      BY <2>1, <2>2, <3>1
  <2>4. CASE s0 \notin Generators
    <3>1. unread' = unread /\ waiting' = waiting
      BY <2>4 DEF Result
    <3> QED
      BY <1>1, <2>1, <2>4, <3>1
  <2> QED
    BY <2>3, <2>4
<1>12. (NoUseAfterFree /\ WaitingHasEnd /\ RoomForEnd)'
  <2>1. NoUseAfterFree'
    BY <1>4 DEF NoUseAfterFree
  <2>2. WaitingHasEnd'
    BY <1>1, <1>11 DEF IInv, TypeOK, WaitingHasEnd
  <2>3. RoomForEnd'
    BY <1>1, <1>11 DEF IInv, RoomForEnd
  <2> QED
    BY <2>1, <2>2, <2>3
<1>13. TypeOK'
  BY <1>1, <1>4, <1>10, <1>11 DEF IInv, TypeOK
<1> QED
  BY <1>10, <1>12, <1>13 DEF IInv

\* A call returns that ended no search.
LEMMA PopInv ==
    ASSUME IInv, stack # <<>>, Top.op \notin Ends, stack' = Popped,
           UNCHANGED <<pack, active, timer, awaiter, finished_, unread, waiting, phase,
                       missed, fault>>
    PROVE  IInv'
<1> DEFINE n == Len(stack) - 1
<1>1. /\ stack \in Seq(Frames) /\ Len(stack) \in Nat \ {0}
      /\ DOMAIN stack = 1..Len(stack)
      /\ stack' \in Seq(Frames) /\ Len(stack') = n /\ DOMAIN stack' = 1..n
      /\ \A i \in 1..n : stack'[i] = stack[i]
      /\ \A i \in 1..Len(stack) : i \in 1..n \/ i = Len(stack)
      /\ \A i \in 1..n : i \in 1..Len(stack) /\ i < Len(stack)
  <2>1. stack \in Seq(Frames) /\ DOMAIN stack = 1..Len(stack)
    BY DEF IInv, TypeOK
  <2>2. /\ Len(stack) \in Nat \ {0}
        /\ stack' \in Seq(Frames) /\ Len(stack') = n /\ DOMAIN stack' = 1..n
        /\ \A i \in 1..n : stack'[i] = stack[i]
    BY <2>1, PopFacts DEF Popped
  <2> HIDE DEF n
  <2>3. n = Len(stack) - 1 /\ Len(stack) \in Nat \ {0}
    BY <2>2 DEF n
  <2>4. /\ \A i \in 1..Len(stack) : i \in 1..n \/ i = Len(stack)
        /\ \A i \in 1..n : i \in 1..Len(stack) /\ i < Len(stack)
    BY <2>3
  <2> QED
    BY <2>1, <2>2, <2>4
<1> HIDE DEF n
<1>0. \A i \in DOMAIN stack' : i \in DOMAIN stack /\ stack'[i] = stack[i]
  BY <1>1
<1>2. \A t \in Searches : Ending(t)' <=> Ending(t)
  <2>1. stack[Len(stack)].op \notin Ends
    BY DEF Top
  <2> QED
    BY <1>1, <2>1 DEF Ending
<1>3. Nested'
  BY <1>1 DEF IInv, Nested
<1>4. EndFrames'
  BY <1>0 DEF IInv, EndFrames
<1>5. EndedOnce'
  BY <1>0 DEF IInv, EndedOnce
<1>6. ResultFrames'
  <2> SUFFICES ASSUME NEW i \in DOMAIN stack', stack[i].op = "result"
               PROVE  /\ i = 1
                      /\ stack[i].s \notin Generators =>
                           /\ pack[stack[i].s] = "live"
                           /\ stack[i].s \in active
                           /\ ~(Ending(stack[i].s))'
    BY <1>0 DEF ResultFrames
  <2>0. i \in DOMAIN stack /\ stack'[i] = stack[i]
    BY <1>0
  <2>1. PICK t \in Searches : stack[i].s = t
    BY <2>0, StackFacts DEF IInv
  <2>2. /\ i = 1
        /\ t \notin Generators => pack[t] = "live" /\ t \in active /\ ~Ending(t)
    BY <2>0, <2>1 DEF IInv, ResultFrames, Ending
  <2>3. t \notin Generators => ~Ending(t)'
    BY <1>2, <2>2
  <2> QED
    BY <2>0, <2>1, <2>2, <2>3 DEF Ending
<1>7. TimerGuardsSearch' /\ LiveActive'
  BY <1>2 DEF IInv, TimerGuardsSearch, LiveActive
<1>8. Awaiters'
  <2>1. \A t \in Generators : Ending(t)' <=> Ending(t)
    BY <1>2, DhtGetAssumption
  <2> QED
    BY <2>1 DEF IInv, Awaiters
<1>9. Disconnected'
  BY DEF IInv, Disconnected
<1>10. (NoUseAfterFree /\ WaitingHasEnd /\ RoomForEnd)'
  BY DEF IInv, NoUseAfterFree, WaitingHasEnd, RoomForEnd
<1>11. TypeOK'
  BY <1>1 DEF IInv, TypeOK
<1> QED
  BY <1>3, <1>4, <1>5, <1>6, <1>7, <1>8, <1>9, <1>10, <1>11 DEF IInv

LEMMA UserReturnsInv == IInv /\ UserReturns => IInv'
<1> SUFFICES ASSUME IInv, UserReturns PROVE IInv'
  OBVIOUS
<1>1. /\ stack # <<>>
      /\ UNCHANGED <<pack, active, timer, awaiter, finished_, unread, waiting, phase,
                     missed, fault>>
  BY DEF UserReturns, InUser
<1>2. CASE Top.op = "task"
  <2>1. stack' = Popped /\ Top.op \notin Ends
    BY <1>2 DEF UserReturns, Ends
  <2> QED
    BY <1>1, <2>1, PopInv
<1>3. CASE Top.op # "task"
  <2>1. stack' = [stack EXCEPT ![Len(stack)].user = FALSE]
    BY <1>3 DEF UserReturns
  <2>2. /\ stack \in Seq(Frames) /\ Len(stack) \in Nat /\ Len(stack) \in 1..Len(stack)
        /\ DOMAIN stack = 1..Len(stack)
        /\ \A i \in 1..Len(stack) : stack[i] \in Frames
    BY <1>1, StackFacts DEF IInv, TypeOK
  <2>3. [stack[Len(stack)] EXCEPT !.user = FALSE] \in Frames
    BY <1>3, <2>2 DEF Frames, Top
  <2>4. /\ stack' \in Seq(Frames) /\ Len(stack') = Len(stack)
        /\ DOMAIN stack' = 1..Len(stack)
        /\ \A i \in 1..Len(stack) : i # Len(stack) => stack'[i] = stack[i]
        /\ stack'[Len(stack)] = [stack[Len(stack)] EXCEPT !.user = FALSE]
    BY <2>1, <2>2, <2>3
  <2>5. \A i \in 1..Len(stack) : /\ stack'[i].op = stack[i].op /\ stack'[i].s = stack[i].s
                                 /\ stack'[i].user => stack[i].user
    <3>1. /\ stack'[Len(stack)].op = stack[Len(stack)].op
          /\ stack'[Len(stack)].s = stack[Len(stack)].s
          /\ stack'[Len(stack)].user = FALSE
      BY <2>2, <2>4 DEF Frames
    <3> QED
      BY <2>4, <3>1
  <2>6. \A t : Ending(t)' <=> Ending(t)
    BY <2>2, <2>4, <2>5 DEF Ending
  <2>7. Nested'
    BY <2>2, <2>4 DEF IInv, Nested
  <2>8. EndFrames'
    BY <1>1, <2>2, <2>4, <2>5 DEF IInv, EndFrames
  <2>9. EndedOnce'
    BY <2>2, <2>4, <2>5 DEF IInv, EndedOnce
  <2>10. ResultFrames'
    <3> SUFFICES ASSUME NEW i \in 1..Len(stack), stack[i].op = "result"
                 PROVE  /\ i = 1
                        /\ stack[i].s \notin Generators =>
                             /\ pack[stack[i].s] = "live"
                             /\ stack[i].s \in active
                             /\ ~(Ending(stack[i].s))'
      BY <1>1, <2>4, <2>5 DEF ResultFrames, Ending
    <3>1. PICK t \in Searches : stack[i].s = t /\ stack'[i].s = t
      BY <2>2, <2>5, FrameFacts
    <3>2. /\ i = 1
          /\ t \notin Generators => pack[t] = "live" /\ t \in active /\ ~Ending(t)
      BY <2>2, <3>1 DEF IInv, ResultFrames, Ending
    <3>3. t \notin Generators => ~Ending(t)'
      BY <2>6, <3>2
    <3> QED
      BY <3>1, <3>2, <3>3 DEF Ending
  <2>11. TimerGuardsSearch' /\ LiveActive' /\ Awaiters'
    BY <1>1, <2>6 DEF IInv, TimerGuardsSearch, LiveActive, Awaiters
  <2>12. Disconnected'
    BY <1>1 DEF IInv, Disconnected
  <2>13. (NoUseAfterFree /\ WaitingHasEnd /\ RoomForEnd)'
    BY <1>1 DEF IInv, NoUseAfterFree, WaitingHasEnd, RoomForEnd
  <2>14. TypeOK'
    BY <1>1, <2>4 DEF IInv, TypeOK
  <2> QED
    BY <2>7, <2>8, <2>9, <2>10, <2>11, <2>12, <2>13, <2>14 DEF IInv
<1> QED
  BY <1>2, <1>3

\* The calls on the stack stay as they are.
LEMMA SameStack ==
    ASSUME IInv, stack' = stack
    PROVE  /\ \A t : Ending(t)' <=> Ending(t)
           /\ Nested' /\ EndedOnce'
BY DEF IInv, Ending, Nested, EndedOnce

LEMMA GetInv == ASSUME NEW s0 \in Searches PROVE IInv /\ Get(s0) => IInv'
<1> SUFFICES ASSUME IInv, Get(s0) PROVE IInv'
  OBVIOUS
<1> USE DhtGetAssumption
<1>1. /\ InUser /\ phase # "disconnected" /\ pack[s0] = "none"
      /\ pack' = [pack EXCEPT ![s0] = "live"]
      /\ active' = active \cup {s0}
      /\ timer' = [timer EXCEPT ![s0] = "armed"]
      /\ awaiter' = [awaiter EXCEPT ![s0] = IF s0 \in Generators THEN "live" ELSE "none"]
      /\ missed' \subseteq missed \cup {s0} /\ missed \subseteq missed'
      /\ UNCHANGED <<finished_, unread, waiting, stack, phase, fault>>
  BY DEF Get
<1>2. /\ \A t : Ending(t)' <=> Ending(t)
      /\ Nested' /\ EndedOnce'
  BY <1>1, SameStack
<1>3. TypeOK'
  BY <1>1 DEF IInv, TypeOK
<1>4. /\ DOMAIN stack = 1..Len(stack)
      /\ \A i \in DOMAIN stack : stack[i].op \in Ends \cup {"result"} => stack[i].s \in Searches
  BY StackFacts DEF IInv
<1>5. ~Ending(s0)
  BY <1>1 DEF IInv, EndFrames, Ending
<1>6. /\ pack'[s0] = "live" /\ s0 \in active' /\ timer'[s0] = "armed"
      /\ awaiter'[s0] = IF s0 \in Generators THEN "live" ELSE "none"
      /\ \A t \in Searches : t # s0 =>
            /\ pack'[t] = pack[t] /\ timer'[t] = timer[t] /\ awaiter'[t] = awaiter[t]
            /\ t \in active' <=> t \in active
            /\ t \in missed => t \in missed'
  BY <1>1 DEF IInv, TypeOK
<1>7. EndFrames'
  <2> SUFFICES ASSUME NEW i \in DOMAIN stack, stack[i].op \in Ends
               PROVE  /\ pack'[stack[i].s] = "live"
                      /\ stack[i].s \notin active'
                      /\ timer'[stack[i].s] # "armed"
                      /\ stack[i].s \in Generators => stack[i].s \in finished_
                      /\ stack[i].op = "drop" => stack[i].s \in Generators /\ ~stack[i].user
    BY <1>1 DEF EndFrames
  <2>1. stack[i].s \in Searches /\ stack[i].s # s0
    BY <1>4, <1>5 DEF Ending
  <2> QED
    BY <1>6, <2>1 DEF IInv, EndFrames
<1>8. ResultFrames'
  <2> SUFFICES ASSUME NEW i \in DOMAIN stack, stack[i].op = "result"
               PROVE  /\ i = 1
                      /\ stack[i].s \notin Generators =>
                           /\ pack'[stack[i].s] = "live"
                           /\ stack[i].s \in active'
                           /\ ~(Ending(stack[i].s))'
    BY <1>1 DEF ResultFrames, Ending
  <2>1. PICK t \in Searches : stack[i].s = t
    BY <1>4
  <2>2. /\ i = 1
        /\ t \notin Generators => pack[t] = "live" /\ t \in active /\ ~Ending(t)
    BY <2>1 DEF IInv, ResultFrames, Ending
  <2>3. t \notin Generators => ~Ending(t)'
    BY <1>2, <2>2
  <2> QED
    BY <1>1, <1>6, <2>1, <2>2, <2>3 DEF Ending
<1>9. TimerGuardsSearch' /\ LiveActive'
  BY <1>1, <1>2, <1>6 DEF IInv, TimerGuardsSearch, LiveActive
<1>10. Awaiters'
  <2>1. ASSUME NEW t \in Generators
        PROVE  /\ awaiter'[t] = "none" <=> pack'[t] = "none"
               /\ (awaiter'[t] = "live" /\ t \notin finished_)
                     <=> (pack'[t] = "live" /\ ~Ending(t)')
               /\ pack'[t] = "none" => t \notin finished_
    <3>1. CASE t = s0
      BY <1>1, <1>2, <1>5, <1>6, <2>1, <3>1 DEF IInv, Awaiters
    <3>2. CASE t # s0
      BY <1>2, <1>6, <2>1, <3>2 DEF IInv, Awaiters
    <3> QED
      BY <3>1, <3>2
  <2>2. \A t \in Searches \ Generators : awaiter'[t] = "none"
    BY <1>6 DEF IInv, Awaiters
  <2> QED
    BY <1>1, <2>1, <2>2 DEF Awaiters
<1>11. WaitingHasEnd'
  <2>1. \A t \in waiting : t \in Searches /\ t # s0
    BY <1>1 DEF IInv, TypeOK, WaitingHasEnd
  <2> QED
    BY <1>1, <1>6, <2>1 DEF IInv, WaitingHasEnd
<1>12. (NoUseAfterFree /\ RoomForEnd /\ Disconnected)'
  BY <1>1 DEF IInv, NoUseAfterFree, RoomForEnd, Disconnected
<1> QED
  BY <1>2, <1>3, <1>7, <1>8, <1>9, <1>10, <1>11, <1>12 DEF IInv

LEMMA AskInv == ASSUME NEW s0 \in Searches PROVE IInv /\ Ask(s0) => IInv'
<1> SUFFICES ASSUME IInv, Ask(s0) PROVE IInv'
  OBVIOUS
<1> USE DhtGetAssumption
<1>1. /\ awaiter[s0] = "live" /\ ~(s0 \in finished_ /\ unread[s0] = 0)
      /\ IF unread[s0] > 0
         THEN unread' = [unread EXCEPT ![s0] = unread[s0] - 1] /\ waiting' = waiting
         ELSE waiting' = waiting \cup {s0} /\ unread' = unread
      /\ UNCHANGED <<pack, active, timer, awaiter, finished_, stack, phase, missed, fault>>
      /\ s0 \notin waiting
  BY DEF Ask
<1>2. /\ \A t : Ending(t)' <=> Ending(t)
      /\ Nested' /\ EndedOnce'
  BY <1>1, SameStack
<1>3. /\ unread \in [Searches -> 0..MaxUnread + 1] /\ unread[s0] \in 0..MaxUnread + 1
      /\ waiting \subseteq Generators
  BY DEF IInv, TypeOK
<1>4. s0 \in Generators
  BY <1>1 DEF IInv, Awaiters
<1>5. s0 \in waiting' =>
          unread'[s0] = 0 /\ s0 \notin finished_ /\ pack[s0] = "live"
  BY <1>1, <1>3, <1>4 DEF IInv, Awaiters
<1>6. /\ unread' \in [Searches -> 0..MaxUnread + 1]
      /\ \A t \in Searches : t # s0 => unread'[t] = unread[t]
      /\ unread'[s0] <= unread[s0]
      /\ waiting' \subseteq waiting \cup {s0}
  <2>1. CASE unread[s0] > 0
    <3>1. unread[s0] - 1 \in 0..MaxUnread + 1 /\ unread[s0] - 1 <= unread[s0]
      BY <1>3, <2>1
    <3> QED
      BY <1>1, <1>3, <2>1, <3>1
  <2>2. CASE ~(unread[s0] > 0)
    BY <1>1, <1>3, <2>2
  <2> QED
    BY <2>1, <2>2
<1>7. TypeOK'
  BY <1>1, <1>3, <1>4, <1>6 DEF IInv, TypeOK
<1>8. WaitingHasEnd'
  BY <1>1, <1>3, <1>4, <1>5, <1>6 DEF IInv, WaitingHasEnd
<1>9. RoomForEnd'
  <2>1. ASSUME NEW t \in Searches, t \notin finished_ PROVE unread'[t] <= MaxUnread
    <3>1. unread[t] <= MaxUnread /\ unread[t] \in Nat /\ unread'[t] \in Nat
      BY <1>3, <1>6, <2>1 DEF IInv, RoomForEnd
    <3> QED
      BY <1>6, <3>1
  <2> QED
    BY <1>1, <2>1 DEF RoomForEnd
<1>10. (NoUseAfterFree /\ Disconnected /\ EndFrames /\ ResultFrames)'
  BY <1>1 DEF IInv, NoUseAfterFree, Disconnected, EndFrames, ResultFrames, Ending
<1>11. (TimerGuardsSearch /\ LiveActive /\ Awaiters)'
  BY <1>1, <1>2 DEF IInv, TimerGuardsSearch, LiveActive, Awaiters
<1> QED
  BY <1>2, <1>7, <1>8, <1>9, <1>10, <1>11 DEF IInv

LEMMA CancelInv == ASSUME NEW s0 \in Searches PROVE IInv /\ Cancel(s0) => IInv'
<1> SUFFICES ASSUME IInv, Cancel(s0) PROVE IInv'
  OBVIOUS
<1>1. /\ InUser /\ pack[s0] = "live" /\ \A i \in DOMAIN stack : stack[i].s # s0
      /\ EndSearch(s0, "cancel", stack)
      /\ UNCHANGED <<pack, awaiter, phase, missed>>
  BY DEF Cancel
<1>2. /\ \A i \in 1..Len(stack) : stack[i].user /\ stack[i].s # s0
      /\ phase # "disconnected"
  BY <1>1, InUserFacts, StackFacts DEF IInv
<1>3. ~Ending(s0)
  BY <1>1 DEF Ending
<1>4. "cancel" \in Ends /\ "cancel" # "drop"
  BY DEF Ends
<1> QED
  BY <1>1, <1>2, <1>3, <1>4, EndHereInv

LEMMA DropInv == ASSUME NEW s0 \in Searches PROVE IInv /\ Drop(s0) => IInv'
<1> SUFFICES ASSUME IInv, Drop(s0) PROVE IInv'
  OBVIOUS
<1>1. /\ InUser /\ awaiter[s0] = "live" /\ s0 \notin waiting
      /\ UNCHANGED <<pack, phase, missed>>
  BY DEF Drop
<1>2. s0 \in Generators
  BY <1>1 DEF IInv, Awaiters
<1>3. CASE NeedsCleanup(s0)
  <2>1. EndSearch(s0, "drop", stack) /\ UNCHANGED awaiter
    BY <1>3 DEF Drop
  <2>2. pack[s0] = "live" /\ ~Ending(s0)
    BY <1>1, <1>2, <1>3 DEF IInv, Awaiters, NeedsCleanup
  <2>3. \A i \in 1..Len(stack) : stack[i].user
    BY <1>1, InUserFacts
  <2>4. phase # "disconnected"
    BY <1>1, InUserFacts
  <2>5. "drop" \in Ends
    BY DEF Ends
  <2> QED
    BY <1>1, <1>2, <2>1, <2>2, <2>3, <2>4, <2>5, EndHereInv
<1>4. CASE ~NeedsCleanup(s0)
  <2>1. /\ awaiter' = [awaiter EXCEPT ![s0] = "freed"]
        /\ UNCHANGED <<active, timer, finished_, unread, waiting, stack, fault>>
        /\ s0 \in finished_
    BY <1>4 DEF Drop, NeedsCleanup
  <2>2. /\ \A t : Ending(t)' <=> Ending(t)
        /\ Nested' /\ EndedOnce'
    BY <2>1, SameStack
  <2>3. TypeOK'
    BY <1>1, <2>1 DEF IInv, TypeOK
  <2>4. /\ \A t \in Searches : t # s0 => awaiter'[t] = awaiter[t]
        /\ awaiter'[s0] = "freed"
    BY <2>1 DEF IInv, TypeOK
  <2>5. Awaiters'
    <3>1. \A t \in Generators : t \in Searches
      BY DhtGetAssumption
    <3> QED
      BY <1>1, <1>2, <2>1, <2>2, <2>4, <3>1 DEF IInv, Awaiters
  <2>6. WaitingHasEnd'
    BY <1>1, <2>1, <2>4 DEF IInv, TypeOK, WaitingHasEnd, Awaiters
  <2>7. (NoUseAfterFree /\ Disconnected /\ EndFrames /\ ResultFrames)'
    BY <1>1, <2>1 DEF IInv, NoUseAfterFree, Disconnected, EndFrames, ResultFrames, Ending
  <2>8. (TimerGuardsSearch /\ LiveActive /\ RoomForEnd)'
    BY <1>1, <2>1, <2>2 DEF IInv, TimerGuardsSearch, LiveActive, RoomForEnd
  <2> QED
    BY <2>2, <2>3, <2>5, <2>6, <2>7, <2>8 DEF IInv
<1> QED
  BY <1>3, <1>4

LEMMA KeepRunningInv == IInv /\ KeepRunning => IInv'
<1> SUFFICES ASSUME IInv, KeepRunning PROVE IInv'
  OBVIOUS
<1>1. /\ stack # <<>> /\ Top.op \notin Ends /\ stack' = Popped
      /\ UNCHANGED <<pack, active, timer, awaiter, finished_, unread, waiting, phase,
                     missed, fault>>
  BY DEF KeepRunning, Returning, Ends
<1> QED
  BY <1>1, PopInv

LEMMA RejectInv == IInv /\ Reject => IInv'
<1> SUFFICES ASSUME IInv, Reject PROVE IInv'
  OBVIOUS
<1>1. /\ stack # <<>> /\ Top.op = "result" /\ Top.s \notin Generators
      /\ EndSearch(Top.s, "reject", Popped)
      /\ UNCHANGED <<pack, awaiter, phase, missed>>
  BY DEF Reject, Returning, MayReject
<1>2. /\ DOMAIN stack = 1..Len(stack) /\ Len(stack) \in DOMAIN stack
      /\ stack \in Seq(Frames) /\ Len(stack) \in Nat
  BY <1>1, StackFacts DEF IInv, TypeOK
<1>3. PICK s0 \in Searches : Top.s = s0 /\ stack[Len(stack)].s = s0
  BY <1>1, <1>2, StackFacts DEF IInv, Top
<1>4. /\ Len(stack) = 1 /\ pack[s0] = "live" /\ s0 \in active /\ ~Ending(s0)
  BY <1>1, <1>2, <1>3 DEF IInv, ResultFrames, Top, Ending
<1>5. timer[s0] = "armed"
  BY <1>4 DEF IInv, TimerGuardsSearch
<1>6. Popped \in Seq(Frames) /\ Len(Popped) = 0
  <2>1. Popped \in Seq(Frames) /\ Len(Popped) = Len(stack) - 1
    BY <1>1, <1>2, PopFacts DEF Popped
  <2> QED
    BY <1>4, <2>1
<1>7. /\ Len(Popped) <= Len(stack)
      /\ \A i \in 1..Len(Popped) : Popped[i] = stack[i] /\ Popped[i].user
      /\ \A i \in 1..Len(Popped) : Popped[i].op = "result" => Popped[i].s # s0
  BY <1>2, <1>6
<1>8. \A i \in 1..Len(stack) : i > Len(Popped) => stack[i].op = "result" /\ stack[i].s = s0
  <2>1. \A i \in 1..Len(stack) : i = Len(stack)
    BY <1>4
  <2> QED
    BY <1>1, <1>3, <2>1 DEF Top
<1>9. phase # "disconnected"
  BY <1>1 DEF IInv, Disconnected
<1>10. "reject" \in Ends /\ "reject" # "drop"
  BY DEF Ends
<1>11. EndSearch(s0, "reject", Popped)
  BY <1>1, <1>3
<1> QED
  BY <1>1, <1>4, <1>5, <1>6, <1>7, <1>8, <1>9, <1>10, <1>11, EndSearchInv

LEMMA DeleteInv == IInv /\ Delete => IInv'
<1> SUFFICES ASSUME IInv, Delete PROVE IInv'
  OBVIOUS
<1> USE DhtGetAssumption
<1> DEFINE n == Len(stack) - 1
<1>1. /\ stack # <<>> /\ ~Top.user /\ Top.op \in Ends
      /\ pack' = [pack EXCEPT ![Top.s] = "freed"]
      /\ timer' = [timer EXCEPT ![Top.s] = IF @ = "firing" THEN "off" ELSE @]
      /\ awaiter' = [awaiter EXCEPT ![Top.s] = IF Top.op = "drop" THEN "freed" ELSE @]
      /\ stack' = Popped
      /\ UNCHANGED <<active, finished_, unread, waiting, phase, missed, fault>>
  BY DEF Delete, Returning, Freed
<1>2. /\ DOMAIN stack = 1..Len(stack) /\ Len(stack) \in DOMAIN stack
      /\ stack' \in Seq(Frames) /\ DOMAIN stack' = 1..n /\ Len(stack') = n
      /\ \A i \in 1..n : stack'[i] = stack[i]
      /\ Len(stack) \in Nat \ {0}
  <2>1. stack \in Seq(Frames) /\ DOMAIN stack = 1..Len(stack) /\ Len(stack) \in DOMAIN stack
    BY <1>1, StackFacts DEF IInv, TypeOK
  <2> QED
    BY <1>1, <2>1, PopFacts DEF Popped
<1>3. /\ \A i \in 1..n : i \in DOMAIN stack /\ i < Len(stack)
      /\ \A i \in DOMAIN stack : i \in 1..n \/ i = Len(stack)
  <2> HIDE DEF n
  <2>1. n = Len(stack) - 1
    BY DEF n
  <2> QED
    BY <1>2, <2>1
<1> HIDE DEF n
<1>4. PICK s0 \in Searches : Top.s = s0 /\ stack[Len(stack)].s = s0
  BY <1>1, <1>2, StackFacts DEF IInv, Top
<1>5. /\ pack[s0] = "live" /\ s0 \notin active /\ timer[s0] # "armed"
      /\ s0 \in Generators => s0 \in finished_
      /\ Top.op = "drop" => s0 \in Generators
  BY <1>1, <1>2, <1>4 DEF IInv, EndFrames, Top
<1>6. \A i \in 1..n : stack[i].op \in Ends => stack[i].s # s0
  BY <1>1, <1>2, <1>3, <1>4 DEF IInv, EndedOnce, Top
<1>7. \A t : Ending(t)' <=> Ending(t) /\ t # s0
  <2>1. ASSUME NEW t, Ending(t)' PROVE Ending(t) /\ t # s0
    BY <1>2, <1>3, <1>6, <2>1 DEF Ending
  <2>2. ASSUME NEW t, Ending(t), t # s0 PROVE Ending(t)'
    BY <1>2, <1>3, <1>4, <2>2 DEF Ending
  <2> QED
    BY <2>1, <2>2
<1>8. /\ pack'[s0] = "freed" /\ timer'[s0] # "armed"
      /\ awaiter'[s0] = IF Top.op = "drop" THEN "freed" ELSE awaiter[s0]
      /\ \A t \in Searches : t # s0 =>
            pack'[t] = pack[t] /\ timer'[t] = timer[t] /\ awaiter'[t] = awaiter[t]
  BY <1>1, <1>4, <1>5 DEF IInv, TypeOK
<1>9. TypeOK'
  BY <1>1, <1>2, <1>4 DEF IInv, TypeOK
<1>10. Nested'
  BY <1>2, <1>3 DEF IInv, Nested
<1>11. EndFrames'
  <2> SUFFICES ASSUME NEW i \in 1..n, stack[i].op \in Ends
               PROVE  /\ pack'[stack[i].s] = "live"
                      /\ stack[i].s \notin active
                      /\ timer'[stack[i].s] # "armed"
                      /\ stack[i].s \in Generators => stack[i].s \in finished_
                      /\ stack[i].op = "drop" => stack[i].s \in Generators /\ ~stack[i].user
    BY <1>1, <1>2 DEF EndFrames
  <2>1. i \in DOMAIN stack /\ stack[i].s \in Searches /\ stack[i].s # s0
    BY <1>2, <1>3, <1>6, StackFacts DEF IInv
  <2> QED
    BY <1>8, <2>1 DEF IInv, EndFrames
<1>12. EndedOnce'
  BY <1>2, <1>3 DEF IInv, EndedOnce
<1>13. ResultFrames'
  <2> SUFFICES ASSUME NEW i \in 1..n, stack[i].op = "result"
               PROVE  /\ i = 1
                      /\ stack[i].s \notin Generators =>
                           /\ pack'[stack[i].s] = "live"
                           /\ stack[i].s \in active
                           /\ ~(Ending(stack[i].s))'
    BY <1>1, <1>2 DEF ResultFrames, Ending
  <2>1. PICK t \in Searches : stack[i].s = t /\ stack'[i].s = t
    BY <1>2, <1>3, StackFacts DEF IInv
  <2>2. /\ i = 1
        /\ t \notin Generators => pack[t] = "live" /\ t \in active /\ ~Ending(t)
    BY <1>3, <2>1 DEF IInv, ResultFrames, Ending
  <2>3. t \notin Generators => ~Ending(t)' /\ t # s0
    BY <1>5, <1>7, <2>2
  <2> QED
    BY <1>8, <2>1, <2>2, <2>3 DEF Ending
<1>14. TimerGuardsSearch' /\ LiveActive'
  BY <1>1, <1>5, <1>7, <1>8 DEF IInv, TimerGuardsSearch, LiveActive
<1>15. Awaiters'
  <2>1. \A t \in Generators : t \in Searches
    OBVIOUS
  <2>2. \A t \in Searches \ Generators : awaiter'[t] = "none"
    BY <1>5, <1>8 DEF IInv, Awaiters
  <2>3. ASSUME NEW t \in Generators
        PROVE  /\ awaiter'[t] = "none" <=> pack'[t] = "none"
               /\ (awaiter'[t] = "live" /\ t \notin finished_)
                     <=> (pack'[t] = "live" /\ ~Ending(t)')
               /\ pack'[t] = "none" => t \notin finished_
    <3>1. CASE t = s0
      BY <1>5, <1>7, <1>8, <2>3, <3>1 DEF IInv, Awaiters
    <3>2. CASE t # s0
      BY <1>7, <1>8, <2>3, <3>2 DEF IInv, Awaiters
    <3> QED
      BY <3>1, <3>2
  <2> QED
    BY <1>1, <2>2, <2>3 DEF Awaiters
<1>16. WaitingHasEnd'
  <2>1. \A t \in waiting : t \in Searches /\ t # s0
    BY <1>5 DEF IInv, TypeOK, WaitingHasEnd
  <2> QED
    BY <1>1, <1>8, <2>1 DEF IInv, WaitingHasEnd
<1>17. (NoUseAfterFree /\ RoomForEnd /\ Disconnected)'
  BY <1>1 DEF IInv, NoUseAfterFree, RoomForEnd, Disconnected
<1> QED
  BY <1>9, <1>10, <1>11, <1>12, <1>13, <1>14, <1>15, <1>16, <1>17 DEF IInv

\* The timer ends its search, in GNUnet's loop or in cancelAll.
LEMMA TimerInv ==
    ASSUME NEW s0 \in Searches PROVE IInv /\ (Timer(s0) \/ Visit(s0)) => IInv'
<1> SUFFICES ASSUME IInv, Timer(s0) \/ Visit(s0) PROVE IInv'
  OBVIOUS
<1>1. PICK op \in {"timer", "visit"} :
          /\ stack = <<>> /\ phase # "disconnected" /\ timer[s0] = "armed"
          /\ EndSearch(s0, op, stack)
          /\ UNCHANGED <<pack, awaiter, phase, missed>>
  BY DEF Timer, Visit, Visited, Idle
<1>2. ~Ending(s0) /\ \A i \in 1..Len(stack) : stack[i].user /\ stack[i].s # s0
  BY <1>1, StackFacts DEF IInv
<1>3. pack[s0] = "live"
  BY <1>1, <1>2 DEF IInv, TimerGuardsSearch
<1>4. op \in Ends /\ op # "drop"
  BY DEF Ends
<1> QED
  BY <1>1, <1>2, <1>3, <1>4, EndHereInv

LEMMA StopInv == IInv /\ Stop => IInv'
<1> SUFFICES ASSUME IInv, Stop PROVE IInv'
  OBVIOUS
<1>1. /\ phase' = "cancelAll" /\ phase = "running"
      /\ UNCHANGED <<pack, active, timer, awaiter, finished_, unread, waiting, stack,
                     missed, fault>>
  BY DEF Stop
<1>2. /\ \A t : Ending(t)' <=> Ending(t)
      /\ Nested' /\ EndedOnce'
  BY <1>1, SameStack
<1>3. TypeOK'
  BY <1>1 DEF IInv, TypeOK
<1>4. (NoUseAfterFree /\ Disconnected /\ EndFrames /\ ResultFrames)'
  BY <1>1 DEF IInv, NoUseAfterFree, Disconnected, EndFrames, ResultFrames, Ending
<1>5. (TimerGuardsSearch /\ LiveActive /\ Awaiters)'
  BY <1>1, <1>2 DEF IInv, TimerGuardsSearch, LiveActive, Awaiters
<1>6. (WaitingHasEnd /\ RoomForEnd)'
  BY <1>1 DEF IInv, WaitingHasEnd, RoomForEnd
<1> QED
  BY <1>2, <1>3, <1>4, <1>5, <1>6 DEF IInv

LEMMA DisconnectInv == IInv /\ Disconnect => IInv'
<1> SUFFICES ASSUME IInv, Disconnect PROVE IInv'
  OBVIOUS
<1>1. /\ stack = <<>> /\ phase' = "disconnected" /\ phase = "cancelAll" /\ Visited = {}
      /\ timer' = [s \in Searches |-> "off"] /\ active' = {}
      /\ UNCHANGED <<pack, awaiter, finished_, unread, waiting, stack, missed, fault>>
  BY DEF Disconnect, Idle
<1>2. /\ \A t : Ending(t)' <=> Ending(t)
      /\ Nested' /\ EndedOnce'
  BY <1>1, SameStack
<1>3. \A t \in Searches : ~Ending(t)
  BY <1>1, StackFacts DEF IInv
<1>4. DOMAIN stack = {}
  BY <1>1
<1>5. TypeOK'
  BY <1>1 DEF IInv, TypeOK
<1>6. (NoUseAfterFree /\ Disconnected /\ EndFrames /\ ResultFrames)'
  BY <1>1, <1>4 DEF IInv, NoUseAfterFree, Disconnected, EndFrames, ResultFrames
<1>7. \A t \in Searches : pack[t] = "live" => t \in missed
  BY <1>1, <1>3 DEF IInv, LiveActive, TimerGuardsSearch, Visited
<1>8. (TimerGuardsSearch /\ LiveActive)'
  BY <1>1, <1>7 DEF TimerGuardsSearch, LiveActive
<1>9. Awaiters' /\ WaitingHasEnd' /\ RoomForEnd'
  BY <1>1, <1>2 DEF IInv, Awaiters, WaitingHasEnd, RoomForEnd
<1> QED
  BY <1>2, <1>5, <1>6, <1>8, <1>9 DEF IInv

LEMMA NextInv == IInv /\ [Next]_vars => IInv'
<1> SUFFICES ASSUME IInv, [Next]_vars PROVE IInv'
  OBVIOUS
<1>1. CASE Task
  BY <1>1, TaskInv
<1>2. ASSUME NEW s \in Searches, Result(s) \/ Timer(s) \/ Visit(s) PROVE IInv'
  BY <1>2, ResultInv, TimerInv
<1>3. ASSUME NEW s \in Searches, UserStep(s) PROVE IInv'
  BY <1>3, GetInv, CancelInv, DropInv, AskInv DEF UserStep
<1>4. CASE Unwind
  BY <1>4, UserReturnsInv, KeepRunningInv, RejectInv, DeleteInv DEF Unwind
<1>5. CASE Stop
  BY <1>5, StopInv
<1>6. CASE Disconnect
  BY <1>6, DisconnectInv
<1>7. CASE UNCHANGED vars
  BY <1>7 DEF vars, IInv, TypeOK, NoUseAfterFree, Nested, EndFrames, EndedOnce,
     ResultFrames, TimerGuardsSearch, LiveActive, Awaiters, WaitingHasEnd, RoomForEnd,
     Disconnected, Ending
<1> QED
  BY <1>1, <1>2, <1>3, <1>4, <1>5, <1>6, <1>7 DEF Next, CancelAllStep, Ended

LEMMA Invariance == Spec => []IInv
<1>1. Init => IInv
  BY InitInv
<1>2. IInv /\ [Next]_vars => IInv'
  BY NextInv
<1> QED
  BY <1>1, <1>2, PTL DEF Spec

-----------------------------------------------------------------------------
(***************************************************************************)
(* Theorems                                                                *)
(***************************************************************************)

\* The searches, the timers and the stack of calls keep their shape, and the queue of
\* an awaiter always has room for the end of its stream.
THEOREM TypeCorrect == Spec => []TypeOK
<1>1. IInv => TypeOK
  BY DEF IInv
<1> QED
  BY <1>1, Invariance, PTL

\* However callbacks, cancel, dropped generators, timers and cancelAll are nested, no
\* pack, get handle, timer or awaiter of dht.cpp is used after it is gone.
THEOREM NothingUsedAfterFree == Spec => []NoUseAfterFree
<1>1. IInv => NoUseAfterFree
  BY DEF IInv
<1> QED
  BY <1>1, Invariance, PTL

\* No two calls on GNUnet's stack end the same search, so no pack is deleted twice.
THEOREM EndsOnce == Spec => []EndedOnce
<1>1. IInv => EndedOnce
  BY DEF IInv
<1> QED
  BY <1>1, Invariance, PTL

\* The timer that get() registers is there for as long as the get handle is, and no
\* longer; only a search that cancelAll missed keeps its pack without them.
THEOREM TimersGuard == Spec => []TimerGuardsSearch
<1>1. IInv => TimerGuardsSearch
  BY DEF IInv
<1> QED
  BY <1>1, Invariance, PTL

\* A coroutine that is suspended in the stream of results still has finish() to come.
THEOREM WaitingSafe == Spec => []WaitingHasEnd
<1>1. IInv => WaitingHasEnd
  BY DEF IInv
<1> QED
  BY <1>1, Invariance, PTL
=============================================================================
