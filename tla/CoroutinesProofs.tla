-------------------------- MODULE CoroutinesProofs --------------------------
(***************************************************************************)
(* For any number of coroutines and any user code, on GNUnet's thread: no  *)
(* frame is resumed that is not suspended, none is destroyed that somebody *)
(* is to resume, a frame goes back to who waits for it, and awaiting a     *)
(* task is a call that ends once and tells its caller what it ended with.  *)
(*                                                                         *)
(* NoFault and ContinuationWaits are not inductive, not even together.     *)
(* They need to know that the frames on the stack run, each once, and that *)
(* only the innermost one is about to take a result (Delivered); that      *)
(* whoever GNUnet is to resume waits for GNUnet and not for a frame; and   *)
(* that no frame lives in itself (Owners): it is why nothing that runs or  *)
(* waits is in a frame that ends, as its owner would wait there too, and   *)
(* that one's owner, without an end.                                       *)
(***************************************************************************)
EXTENDS Coroutines, SequenceTheorems, TLAPS

\* The frames on the stack run, and each is there once.
StackRuns ==
    \A i \in DOMAIN stack :
        /\ st[stack[i]] = "running"
        /\ \A j \in DOMAIN stack : stack[j] = stack[i] => j = i

\* A frame on the stack that is about to take a result is the innermost, and it is there.
Delivered ==
    \A i \in DOMAIN stack :
        LET k == awaits[stack[i]]
        IN  k # NoCoro =>
                /\ i = Len(stack)
                /\ \/ k \in Awaitables /\ st[k] = "done"
                   \/ k \in Generators /\ st[k] \in {"yielded", "done"}

\* GNUnet resumes who waits for it; a functor of async_run waits for its task; a frame
\* that has not been started, or is resumed from a co_yield, waits for nothing.
Waiting ==
    /\ \A p \in pending : st[p] = "waiting" /\ awaits[p] \in Awaiters
    /\ \A a \in Asyncs : st[a] \in {"waiting", "running"} => awaits[a] \in Awaitables
    /\ \A c \in Coros : st[c] \in {"none", "made", "yielded"} => awaits[c] = NoCoro

\* What a task ended with is what its promise holds and what its caller is told.
Answers ==
    \A t \in Awaitables :
        /\ result[t] = ended[t]
        /\ told[t] \in {"none", ended[t]}
        /\ cont[t] # NoCoro => st[t] \notin {"none", "made"}
        /\ ended[t] # "none" => st[t] \in {"done", "gone"}
        /\ st[t] = "done" => ended[t] # "none"

\* An iterator that is not end() is of a generator that can go on, or its last step has
\* not been looked at.
Iterators ==
    \A g \in Generators :
        /\ st[g] = "done" => result[g] # "value"
        /\ g \in iterating => st[g] # "none"
        /\ g \in iterating /\ owner[g] \in Coros /\ st[owner[g]] # "gone" =>
              \/ st[g] \in {"running", "waiting", "yielded"}
              \/ st[g] = "done" /\ awaits[owner[g]] = g

\* Frames live in frames that have been made, and none lives in itself.
Acyclic(own) ==
    \A X \in SUBSET Coros : X # {} => \E d \in X : own[d] \notin X

Owners ==
    /\ \A d \in Coros : owner[d] \in Coros => st[owner[d]] # "none"
    /\ \A a \in Asyncs : owner[a] = NoCoro
    /\ Acyclic(owner)

IInv == /\ TypeOK /\ NoFault /\ ContinuationWaits
        /\ StackRuns /\ Delivered /\ Waiting /\ Answers /\ Iterators /\ Owners


-----------------------------------------------------------------------------
(***************************************************************************)
(* Frames that live in a frame                                             *)
(***************************************************************************)

\* Held is what its definition says: the frames common to all sets that are closed under
\* ownership are such a set.
LEMMA HeldFacts ==
    ASSUME NEW c \in Coros
    PROVE  /\ Held(c) \subseteq Coros
           /\ \A d \in Coros : d \in Held(c) <=> owner[d] \in Held(c) \cup {c}
<1> DEFINE Closed(X) == \A e \in Coros : owner[e] \in X \cup {c} => e \in X
           L == {d \in Coros : \A X \in SUBSET Coros : Closed(X) => d \in X}
<1>1. L \in SUBSET Coros
  OBVIOUS
<1>2. \A d \in Coros : owner[d] \in L \cup {c} => d \in L
  <2> SUFFICES ASSUME NEW d \in Coros, owner[d] \in L \cup {c},
                      NEW X \in SUBSET Coros, Closed(X)
               PROVE  d \in X
    OBVIOUS
  <2>1. owner[d] \in X \cup {c}
    OBVIOUS
  <2> QED
    BY <2>1
<1>3. \A d \in L : owner[d] \in L \cup {c}
  <2> SUFFICES ASSUME NEW d \in L, owner[d] \notin L \cup {c} PROVE FALSE
    OBVIOUS
  <2> DEFINE Y == L \ {d}
  <2>1. Y \in SUBSET Coros /\ d \notin Y
    OBVIOUS
  <2>2. Closed(Y)
    <3> SUFFICES ASSUME NEW e \in Coros, owner[e] \in Y \cup {c} PROVE e \in Y
      OBVIOUS
    <3>1. owner[e] \in L \cup {c}
      OBVIOUS
    <3>2. e \in L
      BY <3>1, <1>2
    <3>3. e # d
      BY <3>1
    <3> QED
      BY <3>2, <3>3
  <2>3. d \in Y
    BY <2>1, <2>2
  <2> QED
    BY <2>1, <2>3
<1> HIDE DEF L
<1>4. \A d \in Coros : (d \in L) = (owner[d] \in L \cup {c})
  BY <1>1, <1>2, <1>3
<1>5. \E S \in SUBSET Coros : \A d \in Coros : (d \in S) = (owner[d] \in S \cup {c})
  BY <1>1, <1>4
<1>6. /\ Held(c) \in SUBSET Coros
      /\ \A d \in Coros : (d \in Held(c)) = (owner[d] \in Held(c) \cup {c})
  BY <1>5 DEF Held
<1> QED
  BY <1>6

\* Nothing that runs or waits lives in a frame that does not wait itself.
LEMMA HeldAtRest ==
    ASSUME IInv, NEW c \in Coros, st[c] # "waiting"
    PROVE  Destroyable(Held(c))
<1> DEFINE X == {d \in Held(c) : st[d] \in {"running", "waiting"}}
<1>1. /\ Held(c) \subseteq Coros
      /\ \A d \in Coros : d \in Held(c) <=> owner[d] \in Held(c) \cup {c}
  BY HeldFacts
<1>2. X = {}
  <2> SUFFICES ASSUME X # {} PROVE FALSE
    OBVIOUS
  <2>1. X \in SUBSET Coros
    BY <1>1
  <2>2. PICK d \in X : owner[d] \notin X
    BY <2>1 DEF IInv, Owners, Acyclic
  <2>3. d \in Coros /\ owner[d] \in Held(c) \cup {c} /\ owner[d] \in Coros
    BY <1>1
  <2>4. d \in Awaitables \cup Generators
    BY <2>3, CoroutinesAssumption DEF IInv, Owners, Coros
  <2>5. st[owner[d]] = "waiting"
    BY <2>4 DEF IInv, ContinuationWaits, NoFault
  <2> QED
    BY <2>2, <2>3, <2>5
<1>3. \A d \in Held(c) : st[d] \in {"none", "made", "yielded", "done", "gone"}
  BY <1>1, <1>2 DEF IInv, TypeOK
<1> QED
  BY <1>3 DEF Destroyable

\* A frame that owns nothing is given an owner.
LEMMA OwnerInv ==
    ASSUME Acyclic(owner), owner \in [Coros -> Coros \cup {NoCoro}],
           NEW c \in Coros, NEW p \in Coros, p # c, \A d \in Coros : owner[d] # c,
           owner' = [owner EXCEPT ![c] = p]
    PROVE  Acyclic(owner')
<1> SUFFICES ASSUME NEW X \in SUBSET Coros, X # {}
             PROVE  \E d \in X : owner'[d] \notin X
  BY DEF Acyclic
<1>1. owner'[c] = p /\ \A d \in Coros : d # c => owner'[d] = owner[d]
  OBVIOUS
<1>2. CASE X \ {c} = {}
  <2>1. c \in X /\ p \notin X
    BY <1>2
  <2> QED
    BY <2>1, <1>1
<1>3. CASE X \ {c} # {}
  <2>1. PICK d \in X \ {c} : owner[d] \notin X \ {c}
    BY <1>3 DEF Acyclic
  <2>2. owner'[d] = owner[d] /\ owner[d] # c
    BY <2>1, <1>1
  <2> QED
    BY <2>1, <2>2
<1> QED
  BY <1>2, <1>3

-----------------------------------------------------------------------------
(***************************************************************************)
(* The stack                                                               *)
(***************************************************************************)

\* The stack is a sequence of frames.
LEMMA StackFacts ==
    ASSUME TypeOK
    PROVE  /\ stack \in Seq(Coros)
           /\ DOMAIN stack = 1..Len(stack) /\ Len(stack) \in Nat
           /\ \A i \in DOMAIN stack : stack[i] \in Coros
           /\ stack # <<>> <=> Len(stack) # 0
           /\ stack # <<>> => Len(stack) \in DOMAIN stack
<1>1. stack \in Seq(Coros)
  BY DEF TypeOK
<1>2. /\ DOMAIN stack = 1..Len(stack) /\ Len(stack) \in Nat
      /\ \A i \in DOMAIN stack : stack[i] \in Coros
      /\ stack # <<>> <=> Len(stack) # 0
  BY <1>1
<1>3. stack # <<>> => Len(stack) \in DOMAIN stack
  BY <1>2
<1> QED
  BY <1>1, <1>2, <1>3

\* A frame is pushed.
LEMMA PushFacts ==
    ASSUME NEW s \in Seq(Coros), NEW c \in Coros
    PROVE  /\ Append(s, c) \in Seq(Coros) /\ Len(Append(s, c)) = Len(s) + 1
           /\ Len(s) \in Nat /\ DOMAIN s = 1..Len(s)
           /\ DOMAIN Append(s, c) = 1..(Len(s) + 1)
           /\ \A i \in DOMAIN s : Append(s, c)[i] = s[i]
           /\ Append(s, c)[Len(s) + 1] = c
           /\ \A i \in DOMAIN Append(s, c) : i \in DOMAIN s \/ i = Len(s) + 1
           /\ \A i \in DOMAIN s : i \in DOMAIN Append(s, c) /\ i # Len(s) + 1
<1>1. /\ Append(s, c) \in Seq(Coros) /\ Len(Append(s, c)) = Len(s) + 1
      /\ Len(s) \in Nat /\ DOMAIN s = 1..Len(s)
      /\ DOMAIN Append(s, c) = 1..(Len(s) + 1)
      /\ \A i \in 1..Len(s) : Append(s, c)[i] = s[i]
      /\ Append(s, c)[Len(s) + 1] = c
  OBVIOUS
<1>2. /\ \A i \in 1..(Len(s) + 1) : i \in 1..Len(s) \/ i = Len(s) + 1
      /\ \A i \in 1..Len(s) : i \in 1..(Len(s) + 1) /\ i # Len(s) + 1
  BY <1>1
<1> QED
  BY <1>1, <1>2

\* A frame is popped.
LEMMA PopFacts ==
    ASSUME TypeOK, stack # <<>>
    PROVE  /\ Popped \in Seq(Coros) /\ Len(Popped) = Len(stack) - 1
           /\ Len(stack) \in Nat \ {0} /\ DOMAIN stack = 1..Len(stack)
           /\ DOMAIN Popped = 1..(Len(stack) - 1)
           /\ \A i \in DOMAIN Popped :
                 i \in DOMAIN stack /\ i < Len(stack) /\ Popped[i] = stack[i]
           /\ \A i \in DOMAIN stack : i = Len(stack) \/ i \in DOMAIN Popped
           /\ Len(stack) \in DOMAIN stack /\ Top = stack[Len(stack)]
<1> DEFINE last == Len(stack) - 1
<1>1. /\ stack \in Seq(Coros) /\ DOMAIN stack = 1..Len(stack)
      /\ Len(stack) \in Nat /\ Len(stack) # 0
      /\ last \in Nat /\ last = Len(stack) - 1
  BY StackFacts
<1>2. \A i \in 1..last : stack[i] \in Coros /\ i \in DOMAIN stack /\ i < Len(stack)
  BY <1>1
<1> HIDE DEF last
<1>3. /\ SubSeq(stack, 1, last) \in Seq(Coros)
      /\ Len(SubSeq(stack, 1, last)) = IF 1 <= last THEN last - 1 + 1 ELSE 0
      /\ \A i \in 1..(last - 1 + 1) : SubSeq(stack, 1, last)[i] = stack[1 + i - 1]
  BY <1>1, <1>2, SubSeqProperties
<1>4. Popped = SubSeq(stack, 1, last)
  BY DEF last, Popped
<1>5. Len(Popped) = last
  BY <1>1, <1>3, <1>4
<1>6. \A i \in 1..last : Popped[i] = stack[i]
  <2>1. \A i \in 1..last : 1 + i - 1 = i /\ i \in 1..(last - 1 + 1)
    BY <1>1
  <2> QED
    BY <1>3, <1>4, <2>1
<1>7. DOMAIN Popped = 1..last
  BY <1>3, <1>4, <1>5, LenProperties
<1>8. \A i \in DOMAIN stack : i = Len(stack) \/ i \in 1..last
  BY <1>1
<1>9. Len(stack) \in DOMAIN stack
  BY <1>1
<1> QED
  BY <1>1, <1>2, <1>3, <1>4, <1>5, <1>6, <1>7, <1>8, <1>9 DEF last, Top


\* The innermost frame runs and is nobody's to resume; those below take no result.
LEMMA TopFacts ==
    ASSUME IInv, NEW p, OnTop(p)
    PROVE  /\ p \in Coros /\ st[p] = "running" /\ p \notin pending
           /\ stack # <<>> /\ Len(stack) \in DOMAIN stack /\ stack[Len(stack)] = p
           /\ \A i \in DOMAIN stack : i # Len(stack) =>
                 stack[i] # p /\ awaits[stack[i]] = NoCoro
           /\ \A d \in Awaitables \cup Generators :
                 st[d] \in {"running", "waiting"} =>
                     /\ cont[d] = owner[d] /\ cont[d] \in Coros
                     /\ st[cont[d]] = "waiting" /\ awaits[cont[d]] = d
                     /\ cont[d] \notin pending
<1>1. stack # <<>> /\ stack[Len(stack)] = p
  BY DEF OnTop, Top
<1>2. Len(stack) \in DOMAIN stack /\ p \in Coros
  BY <1>1, StackFacts DEF IInv
<1>3. st[p] = "running" /\ \A j \in DOMAIN stack : stack[j] = p => j = Len(stack)
  BY <1>1, <1>2 DEF IInv, StackRuns
<1>4. \A i \in DOMAIN stack : i # Len(stack) => awaits[stack[i]] = NoCoro
  BY DEF IInv, Delivered
<1>5. p \notin pending
  BY <1>3 DEF IInv, Waiting
<1>6. \A d \in Awaitables \cup Generators :
          st[d] \in {"running", "waiting"} =>
              /\ cont[d] = owner[d] /\ cont[d] \in Coros
              /\ st[cont[d]] = "waiting" /\ awaits[cont[d]] = d
              /\ cont[d] \notin pending
  BY DEF IInv, NoFault, ContinuationWaits
<1> QED
  BY <1>1, <1>2, <1>3, <1>4, <1>5, <1>6

\* The same stack, with nothing of it changed but what its innermost frame waits for.
LEMMA SameStack ==
    ASSUME IInv, NEW p, OnTop(p), stack' = stack,
           \A c \in Coros : st[c] = "running" => st'[c] = "running",
           \A c \in Coros : c # p /\ st[c] = "running" => awaits'[c] = awaits[c],
           \/ awaits'[p] = NoCoro
           \/ awaits'[p] \in Awaitables /\ st'[awaits'[p]] = "done"
    PROVE  StackRuns' /\ Delivered'
<1>1. \A i \in DOMAIN stack : stack[i] \in Coros /\ st[stack[i]] = "running"
  BY StackFacts DEF IInv, StackRuns
<1>2. StackRuns'
  BY <1>1 DEF IInv, StackRuns
<1>3. /\ Len(stack) \in DOMAIN stack /\ stack[Len(stack)] = p
      /\ \A i \in DOMAIN stack : i # Len(stack) =>
             stack[i] # p /\ awaits[stack[i]] = NoCoro
  BY TopFacts
<1>4. Delivered'
  BY <1>1, <1>3 DEF Delivered
<1> QED
  BY <1>2, <1>4

\* The innermost frame leaves the stack.
LEMMA PopInv ==
    ASSUME IInv, NEW p, OnTop(p), stack' = Popped,
           \A c \in Coros : c # p /\ st[c] = "running" =>
               st'[c] = "running" /\ awaits'[c] = awaits[c]
    PROVE  stack' \in Seq(Coros) /\ StackRuns' /\ Delivered'
<1>1. /\ stack' \in Seq(Coros)
      /\ \A i \in DOMAIN stack' :
            i \in DOMAIN stack /\ i # Len(stack) /\ stack'[i] = stack[i]
  <2>1. stack # <<>>
    BY TopFacts
  <2>2. /\ Popped \in Seq(Coros)
        /\ \A i \in DOMAIN Popped :
              i \in DOMAIN stack /\ i < Len(stack) /\ Popped[i] = stack[i]
        /\ Len(stack) \in Nat
    BY <2>1, PopFacts DEF IInv
  <2>3. \A i \in DOMAIN Popped : i # Len(stack)
    BY <2>2
  <2> QED
    BY <2>2, <2>3
<1>2. \A i \in DOMAIN stack : i # Len(stack) =>
          /\ stack[i] \in Coros /\ stack[i] # p /\ st[stack[i]] = "running"
          /\ awaits[stack[i]] = NoCoro
  BY TopFacts, StackFacts DEF IInv, StackRuns
<1>3. StackRuns'
  <2>1. \A i \in DOMAIN stack' : st'[stack'[i]] = "running"
    BY <1>1, <1>2
  <2>2. \A i, j \in DOMAIN stack' : stack'[j] = stack'[i] => j = i
    BY <1>1 DEF IInv, StackRuns
  <2> QED
    BY <2>1, <2>2 DEF StackRuns
<1>4. Delivered'
  BY <1>1, <1>2 DEF Delivered
<1> QED
  BY <1>1, <1>3, <1>4

\* What a transfer does when it may.
Moved(p, s, c, S) ==
    /\ fault' = FALSE
    /\ p # c /\ p \notin S /\ st'[p] = s /\ st'[c] = "running"
    /\ \A d \in S : d \in Coros /\ st'[d] = "gone" /\ st[d] \notin {"running", "waiting"}
    /\ \A d \in Coros : d # p /\ d # c /\ d \notin S => st'[d] = st[d]
    /\ st' \in [Coros -> {"none", "made", "running", "waiting", "yielded", "done", "gone"}]
    /\ iterating' = iterating \ S
    /\ stack' \in Seq(Coros) /\ StackRuns'
    /\ Len(stack') \in DOMAIN stack' /\ stack'[Len(stack')] = c
    /\ \A i \in DOMAIN stack' : i # Len(stack') =>
          /\ i \in DOMAIN stack /\ stack'[i] = stack[i]
          /\ stack'[i] # p /\ stack'[i] # c /\ awaits[stack'[i]] = NoCoro

LEMMA TransferFacts ==
    ASSUME IInv, NEW p, OnTop(p), NEW s \in {"waiting", "yielded", "done"},
           NEW c \in Coros, NEW S \in SUBSET Coros,
           Transfer(p, s, c, S), Resumable(c), c \notin S, Destroyable(S)
    PROVE  Moved(p, s, c, S)
<1>1. p \in Coros /\ st[p] = "running" /\ stack # <<>>
  BY TopFacts
<1>2. /\ st' = [Destroyed(S) EXCEPT ![p] = s, ![c] = "running"]
      /\ stack' = Append(Popped, c) /\ iterating' = iterating \ S
      /\ fault' = FALSE
  BY DEF Transfer
<1>3. p # c /\ p \notin S
  BY <1>1 DEF Resumable, Destroyable
<1>4. \A d \in S : d \in Coros /\ st[d] \notin {"running", "waiting"}
  BY DEF Destroyable
<1>5. /\ st'[p] = s /\ st'[c] = "running"
      /\ \A d \in S : st'[d] = "gone"
      /\ \A d \in Coros : d # p /\ d # c /\ d \notin S => st'[d] = st[d]
      /\ st' \in [Coros -> {"none", "made", "running", "waiting", "yielded", "done", "gone"}]
  BY <1>1, <1>2, <1>3 DEF Destroyed, IInv, TypeOK
<1>6. /\ Popped \in Seq(Coros) /\ Len(Popped) = Len(stack) - 1
      /\ Len(stack) \in Nat \ {0}
      /\ \A i \in DOMAIN Popped :
            i \in DOMAIN stack /\ i < Len(stack) /\ Popped[i] = stack[i]
  BY <1>1, PopFacts DEF IInv
<1>7. /\ stack' \in Seq(Coros) /\ Len(stack') = Len(Popped) + 1
      /\ DOMAIN stack' = 1..(Len(Popped) + 1) /\ Len(Popped) \in Nat
      /\ stack'[Len(Popped) + 1] = c
      /\ \A i \in DOMAIN Popped : stack'[i] = Popped[i]
      /\ \A i \in DOMAIN stack' : i \in DOMAIN Popped \/ i = Len(Popped) + 1
  BY <1>2, <1>6, PushFacts
<1>8. Len(stack') \in DOMAIN stack' /\ stack'[Len(stack')] = c
  BY <1>7
<1>9. \A i \in DOMAIN stack' : i # Len(stack') =>
          i \in DOMAIN stack /\ i # Len(stack) /\ stack'[i] = stack[i]
  BY <1>6, <1>7
<1>10. \A i \in DOMAIN stack' : i # Len(stack') =>
           /\ stack'[i] \in Coros /\ st[stack'[i]] = "running"
           /\ stack'[i] # p /\ awaits[stack'[i]] = NoCoro
  BY <1>9, TopFacts, StackFacts DEF IInv, StackRuns
<1>11. \A i \in DOMAIN stack' : i # Len(stack') => stack'[i] # c /\ stack'[i] \notin S
  BY <1>10, <1>4 DEF Resumable
<1>12. StackRuns'
  <2>1. \A i \in DOMAIN stack' : st'[stack'[i]] = "running"
    BY <1>5, <1>8, <1>10, <1>11
  <2>2. \A i, j \in DOMAIN stack' : stack'[j] = stack'[i] => j = i
    <3>1. \A i, j \in DOMAIN stack' :
              i # Len(stack') /\ j # Len(stack') => (stack'[j] = stack'[i] => j = i)
      BY <1>9 DEF IInv, StackRuns
    <3> QED
      BY <3>1, <1>8, <1>11
  <2> QED
    BY <2>1, <2>2 DEF StackRuns
<1> QED
  BY <1>2, <1>3, <1>4, <1>5, <1>7, <1>8, <1>9, <1>10, <1>11, <1>12 DEF Moved


-----------------------------------------------------------------------------
(***************************************************************************)
(* Transfers                                                               *)
(***************************************************************************)

\* p, which waits for nothing, goes on in c, which lives in it and is not started or
\* between two values.
LEMMA ForwardInv ==
    ASSUME IInv, NEW p, InBody(p), NEW c \in Awaitables \cup Generators,
           owner[c] = p, st[c] \in {"made", "yielded"},
           cont' = [cont EXCEPT ![c] = p], awaits' = [awaits EXCEPT ![p] = c],
           Transfer(p, "waiting", c, {}),
           UNCHANGED <<ended, owner, result, told, pending, phase>>
    PROVE  IInv'
<1>1. OnTop(p) /\ awaits[p] = NoCoro /\ p \notin Asyncs
  BY DEF InBody
<1>2. /\ p \in Coros /\ st[p] = "running" /\ p \notin pending
      /\ \A d \in Awaitables \cup Generators :
            st[d] \in {"running", "waiting"} =>
                /\ cont[d] = owner[d] /\ cont[d] \in Coros
                /\ st[cont[d]] = "waiting" /\ awaits[cont[d]] = d
                /\ cont[d] \notin pending
  BY <1>1, TopFacts
<1>3. c \in Coros /\ c \notin Asyncs
  BY CoroutinesAssumption DEF Coros
<1>4. Resumable(c) /\ Destroyable({})
  BY <1>3, CoroutinesAssumption DEF Resumable, Destroyable
<1>5. /\ fault' = FALSE
      /\ p # c /\ st'[p] = "waiting" /\ st'[c] = "running"
      /\ \A d \in Coros : d # p /\ d # c => st'[d] = st[d]
      /\ st' \in [Coros -> {"none", "made", "running", "waiting", "yielded", "done", "gone"}]
      /\ iterating' = iterating
      /\ stack' \in Seq(Coros) /\ StackRuns'
      /\ Len(stack') \in DOMAIN stack' /\ stack'[Len(stack')] = c
      /\ \A i \in DOMAIN stack' : i # Len(stack') =>
            /\ stack'[i] # p /\ awaits[stack'[i]] = NoCoro
  <2> DEFINE S == {}
  <2>1. /\ S \in SUBSET Coros /\ c \notin S /\ Destroyable(S) /\ Resumable(c)
        /\ Transfer(p, "waiting", c, S) /\ "waiting" \in {"waiting", "yielded", "done"}
    BY <1>4
  <2>2. \A d : d \notin S /\ iterating \ S = iterating
    OBVIOUS
  <2> HIDE DEF S
  <2>3. Moved(p, "waiting", c, S)
    BY ONLY IInv, <2>1, <1>1, <1>3, TransferFacts
  <2> QED
    BY ONLY <2>2, <2>3 DEF Moved
<1>6. /\ cont'[c] = p /\ \A d \in Coros : d # c => cont'[d] = cont[d]
      /\ awaits'[p] = c /\ \A d \in Coros : d # p => awaits'[d] = awaits[d]
      /\ cont' \in [Coros -> Coros \cup {NoCoro}]
      /\ awaits' \in [Coros -> Coros \cup {NoCoro} \cup Awaiters]
  BY <1>2, <1>3 DEF IInv, TypeOK
<1>7. TypeOK' /\ NoFault'
  BY <1>5, <1>6 DEF IInv, TypeOK, NoFault
<1>8. ContinuationWaits'
  <2> SUFFICES ASSUME NEW d \in Awaitables \cup Generators,
                      st'[d] \in {"running", "waiting"}
               PROVE  /\ cont'[d] = owner[d] /\ cont'[d] \in Coros
                      /\ st'[cont'[d]] = "waiting" /\ awaits'[cont'[d]] = d
                      /\ cont'[d] \notin pending
    BY DEF ContinuationWaits
  <2>1. CASE d = c
    BY <2>1, <1>2, <1>5, <1>6
  <2>2. CASE d # c
    <3>1. d \in Coros /\ st[d] \in {"running", "waiting"}
      BY <2>2, <1>2, <1>5 DEF Coros
    <3>2. /\ cont[d] = owner[d] /\ cont[d] \in Coros
          /\ st[cont[d]] = "waiting" /\ awaits[cont[d]] = d
          /\ cont[d] \notin pending
      BY <3>1, <1>2
    <3>3. cont[d] # p /\ cont[d] # c
      BY <3>2, <1>2
    <3> QED
      BY <2>2, <3>1, <3>2, <3>3, <1>5, <1>6
  <2> QED
    BY <2>1, <2>2
<1>9. Delivered'
  <2>1. awaits[c] = NoCoro
    BY <1>3 DEF IInv, Waiting
  <2>2. \A i \in DOMAIN stack' : stack'[i] \in Coros
    BY <1>5
  <2>3. \A i \in DOMAIN stack' : awaits'[stack'[i]] = NoCoro
    BY <2>1, <2>2, <1>5, <1>6
  <2> QED
    BY <2>3 DEF Delivered
<1>10. Waiting'
  <2>1. \A q \in pending : q \in Coros /\ q # p /\ q # c
    BY <1>2 DEF IInv, Waiting, TypeOK
  <2>2. \A q \in pending : st'[q] = "waiting" /\ awaits'[q] \in Awaiters
    BY <2>1, <1>5, <1>6 DEF IInv, Waiting
  <2>3. \A a \in Asyncs : a \in Coros /\ a # p /\ a # c
    BY <1>1, <1>3 DEF Coros
  <2>4. \A a \in Asyncs : st'[a] \in {"waiting", "running"} => awaits'[a] \in Awaitables
    BY <2>3, <1>5, <1>6 DEF IInv, Waiting
  <2>5. \A d \in Coros : st'[d] \in {"none", "made", "yielded"} => awaits'[d] = NoCoro
    BY <1>5, <1>6 DEF IInv, Waiting
  <2> QED
    BY <2>2, <2>4, <2>5 DEF Waiting
<1>11. Answers'
  <2> SUFFICES ASSUME NEW t \in Awaitables
               PROVE  /\ cont'[t] # NoCoro => st'[t] \notin {"none", "made"}
                      /\ ended[t] # "none" => st'[t] \in {"done", "gone"}
                      /\ st'[t] = "done" => ended[t] # "none"
    BY DEF IInv, Answers
  <2>1. t \in Coros
    BY DEF Coros
  <2>2. /\ cont[t] # NoCoro => st[t] \notin {"none", "made"}
        /\ ended[t] # "none" => st[t] \in {"done", "gone"}
        /\ st[t] = "done" => ended[t] # "none"
    BY DEF IInv, Answers
  <2> QED
    BY <2>1, <2>2, <1>2, <1>5, <1>6
<1>12. Iterators'
  <2> SUFFICES ASSUME NEW g \in Generators
               PROVE  /\ st'[g] = "done" => result[g] # "value"
                      /\ g \in iterating => st'[g] # "none"
                      /\ g \in iterating /\ owner[g] \in Coros /\ st'[owner[g]] # "gone" =>
                            \/ st'[g] \in {"running", "waiting", "yielded"}
                            \/ st'[g] = "done" /\ awaits'[owner[g]] = g
    BY <1>5 DEF Iterators
  <2>1. g \in Coros /\ g # NoCoro
    BY CoroutinesAssumption DEF Coros
  <2>2. /\ st[g] = "done" => result[g] # "value"
        /\ g \in iterating => st[g] # "none"
        /\ g \in iterating /\ owner[g] \in Coros /\ st[owner[g]] # "gone" =>
              \/ st[g] \in {"running", "waiting", "yielded"}
              \/ st[g] = "done" /\ awaits[owner[g]] = g
    BY DEF IInv, Iterators
  <2>3. owner[g] \in Coros /\ st'[owner[g]] # "gone" => st[owner[g]] # "gone"
    BY <1>2, <1>5
  <2>4. st[g] = "done" /\ awaits[owner[g]] = g /\ owner[g] \in Coros => owner[g] # p
    BY <2>1, <1>1
  <2> QED
    BY <2>1, <2>2, <2>3, <2>4, <1>1, <1>2, <1>5, <1>6
<1>13. Owners'
  <2>1. \A d \in Coros : st[d] # "none" => st'[d] # "none"
    BY <1>5
  <2> QED
    BY <2>1 DEF IInv, Owners
<1> QED
  BY <1>5, <1>7, <1>8, <1>9, <1>10, <1>11, <1>12, <1>13 DEF IInv


\* p, which has ended or has a value for who asked for it, goes back to its
\* continuation; what lives in p's frame is destroyed when it ends.
LEMMA BackInv ==
    ASSUME IInv, NEW p \in Awaitables \cup Generators, InBody(p),
           NEW s \in {"yielded", "done"}, NEW S \in SUBSET Coros,
           s = "yielded" => S = {} /\ p \in Generators,
           s = "done" => S = Held(p),
           Transfer(p, s, cont[p], S),
           UNCHANGED <<owner, cont, awaits, told, pending, phase>>,
           result' \in [Coros -> {"none", "value", "error"}],
           \A d \in Coros : d # p => result'[d] = result[d],
           p \in Generators /\ s = "done" => result'[p] # "value",
           p \in Generators => ended' = ended,
           p \in Awaitables =>
               ended' = [ended EXCEPT ![p] = result'[p]] /\ result'[p] # "none"
    PROVE  IInv'
<1> DEFINE c == cont[p]
<1>1. OnTop(p) /\ awaits[p] = NoCoro /\ p \notin Asyncs
  BY DEF InBody
<1>2. /\ p \in Coros /\ st[p] = "running"
      /\ \A d \in Awaitables \cup Generators :
            st[d] \in {"running", "waiting"} =>
                /\ cont[d] = owner[d] /\ cont[d] \in Coros
                /\ st[cont[d]] = "waiting" /\ awaits[cont[d]] = d
                /\ cont[d] \notin pending
  BY <1>1, TopFacts
<1>3. c = owner[p] /\ c \in Coros /\ st[c] = "waiting" /\ awaits[c] = p /\ c \notin pending
  BY <1>2
<1> HIDE DEF c
<1>4. Destroyable(S)
  <2>1. CASE s = "yielded"
    BY <2>1 DEF Destroyable
  <2>2. CASE s = "done"
    BY <2>2, <1>2, HeldAtRest
  <2> QED
    BY <2>1, <2>2
<1>5. Resumable(c) /\ c \notin S
  BY <1>3, <1>4, CoroutinesAssumption DEF Resumable, Destroyable
<1>6. Moved(p, s, c, S)
  <2>1. s \in {"waiting", "yielded", "done"} /\ Transfer(p, s, c, S)
    BY DEF c
  <2> QED
    BY ONLY IInv, S \in SUBSET Coros, <2>1, <1>1, <1>3, <1>4, <1>5, TransferFacts
<1>7. /\ fault' = FALSE
      /\ p # c /\ p \notin S /\ st'[p] = s /\ st'[c] = "running"
      /\ \A d \in S : d \in Coros /\ st'[d] = "gone" /\ st[d] \notin {"running", "waiting"}
      /\ \A d \in Coros : d # p /\ d # c /\ d \notin S => st'[d] = st[d]
      /\ iterating' = iterating \ S
      /\ UNCHANGED <<owner, cont, awaits, told, pending, phase>>
  BY <1>6 DEF Moved
<1>8. TypeOK' /\ NoFault'
  <2>1. ended' \in [Awaitables -> {"none", "value", "error"}]
    BY CoroutinesAssumption DEF IInv, TypeOK, Coros
  <2>2. st' \in [Coros -> {"none", "made", "running", "waiting", "yielded", "done", "gone"}]
    BY <1>6 DEF Moved
  <2>3. stack' \in Seq(Coros)
    BY <1>6 DEF Moved
  <2>4. iterating' \subseteq Generators /\ fault' = FALSE
    BY <1>7 DEF IInv, TypeOK
  <2>5. UNCHANGED <<owner, cont, awaits, told, pending, phase>>
    OBVIOUS
  <2>6. result' \in [Coros -> {"none", "value", "error"}]
    OBVIOUS
  <2> QED
    BY ONLY IInv, <2>1, <2>2, <2>3, <2>4, <2>5, <2>6 DEF IInv, TypeOK, NoFault
<1>9. ContinuationWaits'
  <2> SUFFICES ASSUME NEW d \in Awaitables \cup Generators,
                      st'[d] \in {"running", "waiting"}
               PROVE  /\ cont[d] = owner[d] /\ cont[d] \in Coros
                      /\ st'[cont[d]] = "waiting" /\ awaits[cont[d]] = d
                      /\ cont[d] \notin pending
    BY <1>7 DEF ContinuationWaits
  <2>1. d \in Coros /\ d \notin S /\ d # p
    BY <1>7 DEF Coros
  <2>2. st[d] \in {"running", "waiting"}
    BY <2>1, <1>3, <1>7
  <2>3. /\ cont[d] = owner[d] /\ cont[d] \in Coros
        /\ st[cont[d]] = "waiting" /\ awaits[cont[d]] = d
        /\ cont[d] \notin pending
    BY <2>2, <1>2
  <2>4. cont[d] # p /\ cont[d] # c /\ cont[d] \notin S
    BY <2>1, <2>3, <1>2, <1>3, <1>7
  <2> QED
    BY <2>3, <2>4, <1>7
<1>10. StackRuns'
  BY <1>6 DEF Moved
<1>11. Delivered'
  <2>1. /\ Len(stack') \in DOMAIN stack' /\ stack'[Len(stack')] = c
        /\ \A i \in DOMAIN stack' : i # Len(stack') => awaits[stack'[i]] = NoCoro
    BY <1>6 DEF Moved
  <2>2. p \in Awaitables => s = "done"
    BY CoroutinesAssumption
  <2>3. awaits'[c] = p /\ st'[p] = s
    BY <1>3, <1>7
  <2>4. \/ p \in Awaitables /\ st'[p] = "done"
        \/ p \in Generators /\ st'[p] \in {"yielded", "done"}
    BY <2>2, <2>3
  <2>5. \A i \in DOMAIN stack' : i # Len(stack') => awaits'[stack'[i]] = NoCoro
    BY <2>1, <1>7
  <2> QED
    BY <2>1, <2>3, <2>4, <2>5 DEF Delivered
<1>12. Waiting'
  <2>1. \A q \in pending : q \in Coros /\ q # p /\ q # c /\ q \notin S
    BY <1>2, <1>3, <1>7 DEF IInv, Waiting, TypeOK
  <2>2. \A q \in pending : st'[q] = "waiting" /\ awaits[q] \in Awaiters
    BY <2>1, <1>7 DEF IInv, Waiting
  <2>3. \A a \in Asyncs : a \in Coros /\ a # p
    BY <1>1 DEF Coros
  <2>4. \A a \in Asyncs : st'[a] \in {"waiting", "running"} => awaits[a] \in Awaitables
    BY <2>3, <1>3, <1>7 DEF IInv, Waiting
  <2>5. \A d \in Coros : st'[d] \in {"none", "made", "yielded"} => awaits[d] = NoCoro
    BY <1>1, <1>7 DEF IInv, Waiting
  <2> QED
    BY <2>2, <2>4, <2>5, <1>7 DEF Waiting
<1>13. Answers'
  <2> SUFFICES ASSUME NEW t \in Awaitables
               PROVE  /\ result'[t] = ended'[t]
                      /\ told[t] \in {"none", ended'[t]}
                      /\ cont[t] # NoCoro => st'[t] \notin {"none", "made"}
                      /\ ended'[t] # "none" => st'[t] \in {"done", "gone"}
                      /\ st'[t] = "done" => ended'[t] # "none"
    BY <1>7 DEF Answers
  <2>1. t \in Coros
    BY DEF Coros
  <2>2. /\ result[t] = ended[t]
        /\ told[t] \in {"none", ended[t]}
        /\ cont[t] # NoCoro => st[t] \notin {"none", "made"}
        /\ ended[t] # "none" => st[t] \in {"done", "gone"}
        /\ st[t] = "done" => ended[t] # "none"
    BY DEF IInv, Answers
  <2>3. CASE t = p
    <3>1. s = "done" /\ ended[t] = "none"
      BY <2>2, <2>3, <1>2, CoroutinesAssumption
    <3>2. ended'[t] = result'[t] /\ result'[t] # "none"
      BY <2>3 DEF IInv, TypeOK
    <3> QED
      BY <2>2, <2>3, <3>1, <3>2, <1>7
  <2>4. CASE t # p
    <3>1. ended'[t] = ended[t] /\ result'[t] = result[t]
      BY <2>1, <2>4 DEF IInv, TypeOK
    <3>2. st'[t] \in {st[t], "running", "gone"} /\ (st'[t] = "running" => t = c \/ st[t] = "running")
      BY <2>1, <2>4, <1>7
    <3>3. t = c => ended[t] = "none"
      BY <2>2, <1>3
    <3> QED
      BY <2>2, <3>1, <3>2, <3>3, <1>7
  <2> QED
    BY <2>3, <2>4
<1>14. Iterators'
  <2> SUFFICES ASSUME NEW g \in Generators
               PROVE  /\ st'[g] = "done" => result'[g] # "value"
                      /\ g \in iterating' => st'[g] # "none"
                      /\ g \in iterating' /\ owner[g] \in Coros /\ st'[owner[g]] # "gone" =>
                            \/ st'[g] \in {"running", "waiting", "yielded"}
                            \/ st'[g] = "done" /\ awaits[owner[g]] = g
    BY <1>7 DEF Iterators
  <2>1. g \in Coros
    BY DEF Coros
  <2>2. /\ st[g] = "done" => result[g] # "value"
        /\ g \in iterating => st[g] # "none"
        /\ g \in iterating /\ owner[g] \in Coros /\ st[owner[g]] # "gone" =>
              \/ st[g] \in {"running", "waiting", "yielded"}
              \/ st[g] = "done" /\ awaits[owner[g]] = g
    BY DEF IInv, Iterators
  <2>3. owner[g] \in Coros /\ st'[owner[g]] # "gone" => st[owner[g]] # "gone"
    BY <1>2, <1>3, <1>7
  <2>4. g \in iterating' => g \in iterating /\ g \notin S
    BY <1>7
  <2>5. CASE g = p
    <3>1. awaits[owner[g]] = g
      BY <2>5, <1>3
    <3> QED
      BY <2>5, <3>1, <1>7
  <2>6. CASE g # p
    <3>1. result'[g] = result[g] /\ st'[g] \in {st[g], "running", "gone"}
      BY <2>1, <2>6, <1>7
    <3>2. g \notin S => st'[g] \in {st[g], "running"}
      BY <2>1, <2>6, <1>7
    <3> QED
      BY <2>2, <2>3, <2>4, <3>1, <3>2
  <2> QED
    BY <2>5, <2>6
<1>15. Owners'
  <2>1. \A d \in Coros : st[d] # "none" => st'[d] # "none"
    BY <1>2, <1>7
  <2> QED
    BY <2>1, <1>7 DEF IInv, Owners
<1> QED
  BY <1>8, <1>9, <1>10, <1>11, <1>12, <1>13, <1>14, <1>15 DEF IInv


-----------------------------------------------------------------------------
(***************************************************************************)
(* Frames made and dropped                                                 *)
(***************************************************************************)

LEMMA MakeInv ==
    ASSUME IInv, NEW p \in Coros, NEW c \in Coros, Make(p, c)
    PROVE  IInv'
<1>1. /\ OnTop(p) /\ awaits[p] = NoCoro /\ p \notin Asyncs
      /\ c \notin Asyncs /\ st[c] = "none"
      /\ st' = [st EXCEPT ![c] = "made"] /\ owner' = [owner EXCEPT ![c] = p]
      /\ UNCHANGED <<ended, cont, awaits, result, told, iterating, pending, stack, phase, fault>>
  BY DEF Make, InBody
<1>2. /\ st'[c] = "made" /\ \A d \in Coros : d # c => st'[d] = st[d]
      /\ owner'[c] = p /\ \A d \in Coros : d # c => owner'[d] = owner[d]
      /\ st[p] = "running" /\ p # c
      /\ \A d \in Coros : owner[d] # c
  BY <1>1, TopFacts DEF IInv, TypeOK, Owners
<1>3. TypeOK' /\ NoFault'
  BY <1>1 DEF IInv, TypeOK, NoFault
<1>4. ContinuationWaits'
  <2> SUFFICES ASSUME NEW d \in Awaitables \cup Generators,
                      st'[d] \in {"running", "waiting"}
               PROVE  /\ cont[d] = owner'[d] /\ cont[d] \in Coros
                      /\ st'[cont[d]] = "waiting" /\ awaits[cont[d]] = d
                      /\ cont[d] \notin pending
    BY <1>1 DEF ContinuationWaits
  <2>1. d \in Coros /\ d # c /\ st[d] \in {"running", "waiting"}
    BY <1>2 DEF Coros
  <2>2. /\ cont[d] = owner[d] /\ cont[d] \in Coros
        /\ st[cont[d]] = "waiting" /\ awaits[cont[d]] = d
        /\ cont[d] \notin pending
    BY <2>1, <1>1, TopFacts
  <2>3. cont[d] # c
    BY <2>2, <1>1
  <2> QED
    BY <2>1, <2>2, <2>3, <1>2
<1>5. StackRuns' /\ Delivered'
  <2>1. \A d \in Coros : st[d] = "running" => st'[d] = "running"
    BY <1>1, <1>2
  <2> QED
    BY <2>1, <1>1, SameStack
<1>6. Waiting'
  <2>1. \A q \in pending : q \in Coros /\ q # c
    BY <1>1 DEF IInv, Waiting, TypeOK
  <2>2. \A a \in Asyncs : a \in Coros /\ a # c
    BY <1>1 DEF Coros
  <2> QED
    BY <2>1, <2>2, <1>1, <1>2 DEF IInv, Waiting
<1>7. Answers'
  <2>1. \A t \in Awaitables : t \in Coros
    BY DEF Coros
  <2> QED
    BY <2>1, <1>1, <1>2 DEF IInv, Answers
<1>8. Iterators'
  <2> SUFFICES ASSUME NEW g \in Generators
               PROVE  /\ st'[g] = "done" => result[g] # "value"
                      /\ g \in iterating => st'[g] # "none"
                      /\ g \in iterating /\ owner'[g] \in Coros /\ st'[owner'[g]] # "gone" =>
                            \/ st'[g] \in {"running", "waiting", "yielded"}
                            \/ st'[g] = "done" /\ awaits[owner'[g]] = g
    BY <1>1 DEF Iterators
  <2>1. g \in Coros
    BY DEF Coros
  <2>2. /\ st[g] = "done" => result[g] # "value"
        /\ g \in iterating => st[g] # "none"
        /\ g \in iterating /\ owner[g] \in Coros /\ st[owner[g]] # "gone" =>
              \/ st[g] \in {"running", "waiting", "yielded"}
              \/ st[g] = "done" /\ awaits[owner[g]] = g
    BY DEF IInv, Iterators
  <2> QED
    BY <2>1, <2>2, <1>1, <1>2
<1>9. Owners'
  <2>1. Acyclic(owner')
    BY <1>1, <1>2, OwnerInv DEF IInv, TypeOK, Owners
  <2>2. \A d \in Coros : owner'[d] \in Coros => st'[owner'[d]] # "none"
    BY <1>1, <1>2 DEF IInv, Owners
  <2>3. \A a \in Asyncs : owner'[a] = NoCoro
    BY <1>1, <1>2 DEF IInv, Owners, Coros
  <2> QED
    BY <2>1, <2>2, <2>3 DEF Owners
<1> QED
  BY <1>3, <1>4, <1>5, <1>6, <1>7, <1>8, <1>9 DEF IInv

LEMMA AsyncRunInv ==
    ASSUME IInv, NEW a \in Coros, NEW t \in Coros, AsyncRun(a, t)
    PROVE  IInv'
<1>1. /\ a \in Asyncs /\ st[a] = "none" /\ t \in Awaitables /\ st[t] = "none"
      /\ st' = [st EXCEPT ![a] = "waiting", ![t] = "running"]
      /\ owner' = [owner EXCEPT ![t] = a]
      /\ cont' = [cont EXCEPT ![t] = a]
      /\ awaits' = [awaits EXCEPT ![a] = t]
      /\ stack' = Append(stack, t)
      /\ UNCHANGED <<ended, result, told, iterating, pending, phase, fault>>
  BY DEF AsyncRun
<1>2. a # t /\ t \notin Asyncs /\ t \notin Generators /\ a \notin Awaitables \cup Generators
  BY <1>1, CoroutinesAssumption
<1>3. /\ st'[a] = "waiting" /\ st'[t] = "running"
      /\ \A d \in Coros : d # a /\ d # t => st'[d] = st[d]
      /\ owner'[t] = a /\ \A d \in Coros : d # t => owner'[d] = owner[d]
      /\ cont'[t] = a /\ \A d \in Coros : d # t => cont'[d] = cont[d]
      /\ awaits'[a] = t /\ \A d \in Coros : d # a => awaits'[d] = awaits[d]
      /\ \A d \in Coros : owner[d] # t /\ owner[d] # a
  BY <1>1, <1>2 DEF IInv, TypeOK, Owners
<1>4. \A d \in Awaitables \cup Generators :
          st[d] \in {"running", "waiting"} =>
              /\ cont[d] = owner[d] /\ cont[d] \in Coros
              /\ st[cont[d]] = "waiting" /\ awaits[cont[d]] = d
              /\ cont[d] \notin pending
  BY DEF IInv, NoFault, ContinuationWaits
<1>5. /\ stack \in Seq(Coros) /\ DOMAIN stack = 1..Len(stack) /\ Len(stack) \in Nat
      /\ \A i \in DOMAIN stack : stack[i] \in Coros /\ st[stack[i]] = "running"
  BY StackFacts DEF IInv, StackRuns
<1>6. \A i \in DOMAIN stack : awaits[stack[i]] = NoCoro
  <2>1. CASE stack = <<>>
    BY <2>1, <1>5
  <2>2. CASE \E p \in Coros : InBody(p)
    <3>1. PICK p \in Coros : InBody(p)
      BY <2>2
    <3>2. OnTop(p) /\ awaits[p] = NoCoro
      BY <3>1 DEF InBody
    <3> QED
      BY <3>2, TopFacts
  <2> QED
    BY <2>1, <2>2 DEF AsyncRun, Idle
<1>7. /\ stack' \in Seq(Coros)
      /\ \A i \in DOMAIN stack : stack'[i] = stack[i] /\ i # Len(stack) + 1
      /\ stack'[Len(stack) + 1] = t
      /\ \A i \in DOMAIN stack' : i \in DOMAIN stack \/ i = Len(stack) + 1
  BY <1>1, <1>5, PushFacts
<1>8. \A i \in DOMAIN stack : stack[i] # t /\ stack[i] # a
  BY <1>1, <1>5
<1>9. TypeOK' /\ NoFault'
  <2>1. /\ st' \in [Coros -> {"none", "made", "running", "waiting", "yielded", "done", "gone"}]
        /\ owner' \in [Coros -> Coros \cup {NoCoro}]
        /\ cont' \in [Coros -> Coros \cup {NoCoro}]
        /\ awaits' \in [Coros -> Coros \cup {NoCoro} \cup Awaiters]
    BY <1>1 DEF IInv, TypeOK
  <2>2. UNCHANGED <<ended, result, told, iterating, pending, phase, fault>>
    BY <1>1
  <2> QED
    BY ONLY IInv, <2>1, <2>2, <1>7 DEF IInv, TypeOK, NoFault
<1>10. ContinuationWaits'
  <2> SUFFICES ASSUME NEW d \in Awaitables \cup Generators,
                      st'[d] \in {"running", "waiting"}
               PROVE  /\ cont'[d] = owner'[d] /\ cont'[d] \in Coros
                      /\ st'[cont'[d]] = "waiting" /\ awaits'[cont'[d]] = d
                      /\ cont'[d] \notin pending
    BY <1>1 DEF ContinuationWaits
  <2>1. CASE d = t
    <3>1. a \notin pending
      BY <1>1 DEF IInv, Waiting
    <3> QED
      BY <2>1, <3>1, <1>3
  <2>2. CASE d # t
    <3>1. d \in Coros /\ d # a
      BY <1>2 DEF Coros
    <3>2. /\ cont[d] = owner[d] /\ cont[d] \in Coros
          /\ st[cont[d]] = "waiting" /\ awaits[cont[d]] = d
          /\ cont[d] \notin pending
      BY <2>2, <3>1, <1>3, <1>4
    <3>3. cont[d] # a /\ cont[d] # t
      BY <3>2, <1>1
    <3> QED
      BY <2>2, <3>1, <3>2, <3>3, <1>3
  <2> QED
    BY <2>1, <2>2
<1>11. StackRuns'
  <2>1. \A i \in DOMAIN stack' : st'[stack'[i]] = "running"
    BY <1>3, <1>5, <1>7, <1>8
  <2>2. \A i, j \in DOMAIN stack' : stack'[j] = stack'[i] => j = i
    <3>1. \A i, j \in DOMAIN stack : stack[j] = stack[i] => j = i
      BY DEF IInv, StackRuns
    <3> QED
      BY <3>1, <1>7, <1>8
  <2> QED
    BY <2>1, <2>2 DEF StackRuns
<1>12. Delivered'
  <2>1. awaits[t] = NoCoro
    BY <1>1 DEF IInv, Waiting
  <2>2. \A i \in DOMAIN stack' : awaits'[stack'[i]] = NoCoro
    BY <2>1, <1>2, <1>3, <1>5, <1>6, <1>7, <1>8
  <2> QED
    BY <2>2 DEF Delivered
<1>13. Waiting'
  <2>1. \A q \in pending : q \in Coros /\ q # a /\ q # t
    BY <1>1 DEF IInv, Waiting, TypeOK
  <2>2. \A q \in pending : st'[q] = "waiting" /\ awaits'[q] \in Awaiters
    BY <2>1, <1>3 DEF IInv, Waiting
  <2>3. \A b \in Asyncs : b \in Coros /\ b # t
    BY <1>2 DEF Coros
  <2>4. \A b \in Asyncs : st'[b] \in {"waiting", "running"} => awaits'[b] \in Awaitables
    BY <2>3, <1>1, <1>3 DEF IInv, Waiting
  <2>5. \A d \in Coros : st'[d] \in {"none", "made", "yielded"} => awaits'[d] = NoCoro
    BY <1>3 DEF IInv, Waiting
  <2> QED
    BY <2>2, <2>4, <2>5, <1>1 DEF Waiting
<1>14. Answers'
  <2>1. \A u \in Awaitables : u \in Coros /\ u # a
    BY <1>2 DEF Coros
  <2> QED
    BY <2>1, <1>1, <1>3 DEF IInv, Answers
<1>15. Iterators'
  <2> SUFFICES ASSUME NEW g \in Generators
               PROVE  /\ st'[g] = "done" => result[g] # "value"
                      /\ g \in iterating => st'[g] # "none"
                      /\ g \in iterating /\ owner'[g] \in Coros /\ st'[owner'[g]] # "gone" =>
                            \/ st'[g] \in {"running", "waiting", "yielded"}
                            \/ st'[g] = "done" /\ awaits'[owner'[g]] = g
    BY <1>1 DEF Iterators
  <2>1. g \in Coros /\ g # a /\ g # t
    BY <1>2 DEF Coros
  <2>2. /\ st[g] = "done" => result[g] # "value"
        /\ g \in iterating => st[g] # "none"
        /\ g \in iterating /\ owner[g] \in Coros /\ st[owner[g]] # "gone" =>
              \/ st[g] \in {"running", "waiting", "yielded"}
              \/ st[g] = "done" /\ awaits[owner[g]] = g
    BY DEF IInv, Iterators
  <2> QED
    BY <2>1, <2>2, <1>3
<1>16. Owners'
  <2>1. Acyclic(owner')
    BY <1>1, <1>2, <1>3, OwnerInv DEF IInv, TypeOK, Owners
  <2>2. \A d \in Coros : owner'[d] \in Coros => st'[owner'[d]] # "none"
    BY <1>3 DEF IInv, Owners
  <2>3. \A b \in Asyncs : owner'[b] = NoCoro
    BY <1>2, <1>3 DEF IInv, Owners, Coros
  <2> QED
    BY <2>1, <2>2, <2>3 DEF Owners
<1> QED
  BY <1>9, <1>10, <1>11, <1>12, <1>13, <1>14, <1>15, <1>16 DEF IInv

\* p lets go of c, which it made: a task or a generator that is not going on.
LEMMA DropInv ==
    ASSUME IInv, NEW p \in Coros, NEW c \in Coros, InBody(p), owner[c] = p,
           c \in Awaitables \cup Generators, NEW S, S = Held(c) \cup {c},
           st' = Destroyed(S), fault' = ~Destroyable(S),
           iterating' \subseteq iterating, c \in Generators => c \notin iterating',
           UNCHANGED <<ended, owner, cont, awaits, result, told, pending, stack, phase>>
    PROVE  IInv'
<1>1. OnTop(p) /\ awaits[p] = NoCoro
  BY DEF InBody
<1>2. /\ st[p] = "running"
      /\ \A d \in Awaitables \cup Generators :
            st[d] \in {"running", "waiting"} =>
                /\ cont[d] = owner[d] /\ cont[d] \in Coros
                /\ st[cont[d]] = "waiting" /\ awaits[cont[d]] = d
                /\ cont[d] \notin pending
  BY <1>1, TopFacts
<1>3. st[c] \notin {"running", "waiting"}
  BY <1>2
<1>4. Destroyable(S)
  <2>1. Destroyable(Held(c))
    BY <1>3, HeldAtRest
  <2>2. st[c] \in {"none", "made", "yielded", "done", "gone"}
    BY <1>3 DEF IInv, TypeOK
  <2> QED
    BY <2>1, <2>2 DEF Destroyable
<1>5. /\ Held(c) \subseteq Coros
      /\ \A d \in Coros : d \in Held(c) => owner[d] \in S
  BY HeldFacts
<1>6. /\ fault' = FALSE /\ S \subseteq Coros
      /\ \A d \in S : st'[d] = "gone" /\ st[d] \notin {"running", "waiting"}
      /\ \A d \in Coros : d \notin S => st'[d] = st[d]
      /\ st' \in [Coros -> {"none", "made", "running", "waiting", "yielded", "done", "gone"}]
  BY <1>4, <1>5 DEF Destroyed, Destroyable, IInv, TypeOK
<1>7. \A d \in Coros : st[d] \in {"running", "waiting"} => st'[d] = st[d]
  BY <1>6
<1>8. TypeOK' /\ NoFault'
  BY <1>6 DEF IInv, TypeOK, NoFault
<1>9. ContinuationWaits'
  <2> SUFFICES ASSUME NEW d \in Awaitables \cup Generators,
                      st'[d] \in {"running", "waiting"}
               PROVE  /\ cont[d] = owner[d] /\ cont[d] \in Coros
                      /\ st'[cont[d]] = "waiting" /\ awaits[cont[d]] = d
                      /\ cont[d] \notin pending
    BY DEF ContinuationWaits
  <2>1. st[d] \in {"running", "waiting"}
    BY <1>6 DEF Coros
  <2> QED
    BY <2>1, <1>2, <1>7
<1>10. StackRuns' /\ Delivered'
  BY <1>1, <1>7, SameStack
<1>11. Waiting'
  <2>1. \A q \in pending : q \in Coros /\ st'[q] = "waiting"
    BY <1>7 DEF IInv, Waiting, TypeOK
  <2>2. \A a \in Asyncs : a \in Coros /\ (st'[a] = "gone" \/ st'[a] = st[a])
    BY <1>6 DEF Coros
  <2>3. \A d \in Coros : st'[d] = "gone" \/ st'[d] = st[d]
    BY <1>6
  <2> QED
    BY <2>1, <2>2, <2>3 DEF IInv, Waiting
<1>12. Answers'
  <2>1. \A t \in Awaitables : st'[t] = "gone" \/ st'[t] = st[t]
    BY <1>6 DEF Coros
  <2> QED
    BY <2>1 DEF IInv, Answers
<1>13. Iterators'
  <2> SUFFICES ASSUME NEW g \in Generators
               PROVE  /\ st'[g] = "done" => result[g] # "value"
                      /\ g \in iterating' => st'[g] # "none"
                      /\ g \in iterating' /\ owner[g] \in Coros /\ st'[owner[g]] # "gone" =>
                            \/ st'[g] \in {"running", "waiting", "yielded"}
                            \/ st'[g] = "done" /\ awaits[owner[g]] = g
    BY DEF Iterators
  <2>1. g \in Coros /\ (st'[g] = "gone" \/ st'[g] = st[g])
    BY <1>6 DEF Coros
  <2>2. /\ st[g] = "done" => result[g] # "value"
        /\ g \in iterating => st[g] # "none"
        /\ g \in iterating /\ owner[g] \in Coros /\ st[owner[g]] # "gone" =>
              \/ st[g] \in {"running", "waiting", "yielded"}
              \/ st[g] = "done" /\ awaits[owner[g]] = g
    BY DEF IInv, Iterators
  <2>3. g \in iterating' /\ owner[g] \in Coros /\ st'[owner[g]] # "gone" =>
            g \notin S /\ g \in iterating /\ st[owner[g]] # "gone"
    <3>1. g \in Held(c) => st'[owner[g]] = "gone"
      BY <2>1, <1>5, <1>6
    <3>2. owner[g] \in Coros /\ st'[owner[g]] # "gone" => st[owner[g]] # "gone"
      BY <1>6
    <3> QED
      BY <3>1, <3>2
  <2> QED
    BY <2>1, <2>2, <2>3, <1>6
<1>14. Owners'
  <2>1. \A d \in Coros : st[d] # "none" => st'[d] # "none"
    BY <1>6
  <2> QED
    BY <2>1 DEF IInv, Owners
<1> QED
  BY <1>8, <1>9, <1>10, <1>11, <1>12, <1>13, <1>14 DEF IInv


-----------------------------------------------------------------------------
(***************************************************************************)
(* Results taken                                                           *)
(***************************************************************************)

\* p, the innermost, goes from waiting for one thing to waiting for another, or for
\* nothing, and may be told of the end of a task; no frame changes its state.
LEMMA TakeInv ==
    ASSUME IInv, NEW p, OnTop(p), NEW k,
           \/ k = NoCoro /\ p \notin Asyncs
           \/ k \in Awaitables /\ st[k] = "done",
           awaits' = [awaits EXCEPT ![p] = k],
           \/ told' = told
           \/ \E t \in Awaitables : told' = [told EXCEPT ![t] = result[t]],
           UNCHANGED <<ended, st, owner, cont, result, pending, stack>>,
           fault' = FALSE, phase' \in {"running", "stopping", "terminated"},
           iterating' \subseteq Generators, Iterators'
    PROVE  IInv'
<1>1. /\ p \in Coros /\ st[p] = "running" /\ p \notin pending
      /\ \A d \in Awaitables \cup Generators :
            st[d] \in {"running", "waiting"} =>
                /\ cont[d] = owner[d] /\ cont[d] \in Coros
                /\ st[cont[d]] = "waiting" /\ awaits[cont[d]] = d
                /\ cont[d] \notin pending
  BY TopFacts
<1>2. /\ awaits'[p] = k /\ \A d \in Coros : d # p => awaits'[d] = awaits[d]
      /\ awaits' \in [Coros -> Coros \cup {NoCoro} \cup Awaiters]
  BY <1>1 DEF IInv, TypeOK, Coros
<1>3. \A t \in Awaitables : t \in Coros /\ told'[t] \in {told[t], result[t]}
  BY DEF IInv, TypeOK, Coros
<1>4. told' \in [Awaitables -> {"none", "value", "error"}]
  BY <1>3 DEF IInv, TypeOK
<1>5. TypeOK' /\ NoFault'
  BY <1>2, <1>4 DEF IInv, TypeOK, NoFault
<1>6. ContinuationWaits'
  <2>1. \A d \in Awaitables \cup Generators :
            st[d] \in {"running", "waiting"} => cont[d] # p /\ awaits'[cont[d]] = d
    BY <1>1, <1>2
  <2> QED
    BY <2>1, <1>1 DEF ContinuationWaits
<1>7. StackRuns' /\ Delivered'
  BY <1>2, SameStack
<1>8. Waiting'
  <2>1. \A q \in pending : q \in Coros /\ q # p
    BY <1>1 DEF IInv, TypeOK
  <2>2. \A a \in Asyncs : a \in Coros
    BY DEF Coros
  <2> QED
    BY <2>1, <2>2, <1>1, <1>2 DEF IInv, Waiting
<1>9. Answers'
  BY <1>3 DEF IInv, Answers
<1>10. Owners'
  BY DEF IInv, Owners
<1> QED
  BY <1>5, <1>6, <1>7, <1>8, <1>9, <1>10 DEF IInv

\* Iterators are not about who has waited for something else than a generator.
LEMMA OtherIterators ==
    ASSUME IInv, NEW p, awaits[p] \notin Generators,
           \A d \in Coros : d # p => awaits'[d] = awaits[d],
           UNCHANGED <<st, owner, result, iterating>>
    PROVE  Iterators'
BY DEF IInv, Iterators

LEMMA ReadyInv ==
    ASSUME IInv, NEW p \in Coros, InBody(p), NEW t \in VoidTasks, st[t] = "done",
           awaits' = [awaits EXCEPT ![p] = t],
           UNCHANGED <<ended, st, owner, cont, result, told, iterating, pending, stack,
                       phase, fault>>
    PROVE  IInv'
<1>1. OnTop(p) /\ awaits[p] = NoCoro /\ t \in Awaitables
  BY DEF InBody, Awaitables
<1>2. awaits[p] \notin Generators
  BY <1>1, CoroutinesAssumption DEF Coros
<1>3. \A d \in Coros : d # p => awaits'[d] = awaits[d]
  BY DEF IInv, TypeOK
<1>4. Iterators'
  BY <1>2, <1>3, OtherIterators
<1> QED
  BY <1>1, <1>4, TakeInv DEF IInv, TypeOK, NoFault

\* A task that its caller finds has ended with something.
LEMMA TakenTask ==
    ASSUME IInv, NEW p, OnTop(p), awaits[p] \in Awaitables
    PROVE  st[awaits[p]] = "done" /\ result[awaits[p]] # "none"
<1>1. Len(stack) \in DOMAIN stack /\ stack[Len(stack)] = p
  BY TopFacts
<1>2. awaits[p] # NoCoro /\ awaits[p] \notin Generators
  BY CoroutinesAssumption DEF Coros
<1>3. st[awaits[p]] = "done"
  BY <1>1, <1>2 DEF IInv, Delivered
<1> QED
  BY <1>3 DEF IInv, Answers

LEMMA ResumeFromTaskInv ==
    ASSUME IInv, NEW p \in Coros, ResumeFromTask(p)
    PROVE  IInv'
<1>1. /\ OnTop(p) /\ p \notin Asyncs /\ awaits[p] \in Awaitables
      /\ told' = [told EXCEPT ![awaits[p]] = result[awaits[p]]]
      /\ awaits' = [awaits EXCEPT ![p] = NoCoro]
      /\ fault' = (st[awaits[p]] # "done" \/ result[awaits[p]] = "none")
      /\ UNCHANGED <<ended, st, owner, cont, result, iterating, pending, stack, phase>>
  BY DEF ResumeFromTask
<1>2. fault' = FALSE
  BY <1>1, TakenTask
<1>3. awaits[p] \notin Generators
  BY <1>1, CoroutinesAssumption
<1>4. \A d \in Coros : d # p => awaits'[d] = awaits[d]
  BY <1>1 DEF IInv, TypeOK
<1>5. Iterators'
  BY <1>1, <1>3, <1>4, OtherIterators
<1>6. iterating' \subseteq Generators /\ phase' \in {"running", "stopping", "terminated"}
  BY <1>1 DEF IInv, TypeOK
<1> QED
  BY <1>1, <1>2, <1>5, <1>6, TakeInv

LEMMA ResumeFromGeneratorInv ==
    ASSUME IInv, NEW p \in Coros, ResumeFromGenerator(p)
    PROVE  IInv'
<1> DEFINE h == awaits[p]
<1>1. /\ OnTop(p) /\ h \in Generators
      /\ iterating' = Iterating(h)
      /\ awaits' = [awaits EXCEPT ![p] = NoCoro]
      /\ fault' = (st[h] \notin {"yielded", "done"})
      /\ UNCHANGED <<ended, st, owner, cont, result, told, pending, stack, phase>>
  BY DEF ResumeFromGenerator
<1>2. st[p] = "running" /\ Len(stack) \in DOMAIN stack /\ stack[Len(stack)] = p
  BY <1>1, TopFacts
<1>3. h # NoCoro /\ h \notin Awaitables /\ h \in Coros
  BY <1>1, CoroutinesAssumption DEF Coros
<1>4. st[h] \in {"yielded", "done"} /\ fault' = FALSE
  BY <1>1, <1>2, <1>3 DEF IInv, Delivered
<1>5. p \notin Asyncs
  BY <1>2, <1>3 DEF IInv, Waiting
<1>6. awaits'[p] = NoCoro /\ \A d \in Coros : d # p => awaits'[d] = awaits[d]
  BY <1>1 DEF IInv, TypeOK
<1>7. /\ h \in iterating' => result[h] = "value"
      /\ \A g \in Generators : g # h /\ g \in iterating' => g \in iterating
  BY <1>1 DEF Iterating
<1>8. Iterators'
  <2> SUFFICES ASSUME NEW g \in Generators
               PROVE  /\ st[g] = "done" => result[g] # "value"
                      /\ g \in iterating' => st[g] # "none"
                      /\ g \in iterating' /\ owner[g] \in Coros /\ st[owner[g]] # "gone" =>
                            \/ st[g] \in {"running", "waiting", "yielded"}
                            \/ st[g] = "done" /\ awaits'[owner[g]] = g
    BY <1>1 DEF Iterators
  <2>1. /\ st[g] = "done" => result[g] # "value"
        /\ g \in iterating => st[g] # "none"
        /\ g \in iterating /\ owner[g] \in Coros /\ st[owner[g]] # "gone" =>
              \/ st[g] \in {"running", "waiting", "yielded"}
              \/ st[g] = "done" /\ awaits[owner[g]] = g
    BY DEF IInv, Iterators
  <2>2. CASE g = h
    BY <2>1, <2>2, <1>4, <1>7
  <2>3. CASE g # h
    <3>1. awaits[owner[g]] = g => owner[g] # p
      BY <2>3
    <3> QED
      BY <2>1, <2>3, <3>1, <1>6, <1>7
  <2> QED
    BY <2>2, <2>3
<1>9. iterating' \subseteq Generators /\ phase' \in {"running", "stopping", "terminated"}
  BY <1>1 DEF IInv, TypeOK, Iterating
<1> QED
  BY <1>1, <1>4, <1>5, <1>8, <1>9, TakeInv

\* The functor of async_run ends, and its task with it.
LEMMA EndAsyncInv ==
    ASSUME IInv, NEW a \in Coros, EndAsync(a)
    PROVE  IInv'
<1> DEFINE t == awaits[a]
<1>1. /\ OnTop(a) /\ a \in Asyncs
      /\ told' = [told EXCEPT ![t] = result[t]]
      /\ fault' = (st[t] # "done" \/ result[t] = "none")
      /\ UNCHANGED <<ended, owner, cont, result, iterating, pending>>
  BY DEF EndAsync
<1>2. /\ st[a] = "running" /\ a \notin pending
      /\ \A d \in Awaitables \cup Generators :
            st[d] \in {"running", "waiting"} =>
                /\ cont[d] = owner[d] /\ cont[d] \in Coros
                /\ st[cont[d]] = "waiting" /\ awaits[cont[d]] = d
                /\ cont[d] \notin pending
  BY <1>1, TopFacts
<1>3. t \in Awaitables
  BY <1>1, <1>2 DEF IInv, Waiting
<1>4. t \in Coros /\ t \notin Generators /\ a \notin Awaitables \cup Generators /\ a # t
  BY <1>1, <1>3, CoroutinesAssumption DEF Coros
<1>5. st[t] = "done" /\ result[t] # "none" /\ fault' = FALSE
  BY <1>1, <1>3, TakenTask
<1>6. iterating' \subseteq Generators
  BY <1>1 DEF IInv, TypeOK
<1>7. CASE result[t] = "error"
  <2>1. phase' = "terminated" /\ UNCHANGED <<st, awaits, stack>>
    BY <1>7 DEF EndAsync
  <2>2. awaits' = [awaits EXCEPT ![a] = t]
    BY <2>1 DEF IInv, TypeOK
  <2>3. Iterators'
    BY <2>1, <1>1, <1>4, OtherIterators
  <2> QED
    BY <2>1, <2>2, <2>3, <1>1, <1>3, <1>5, <1>6, TakeInv
<1>8. CASE result[t] # "error"
  <2>1. /\ st' = [st EXCEPT ![t] = "gone", ![a] = "gone"]
        /\ awaits' = [awaits EXCEPT ![a] = NoCoro]
        /\ stack' = Popped /\ phase' = phase
    BY <1>8 DEF EndAsync, ResumeAsync
  <2>2. /\ st'[t] = "gone" /\ st'[a] = "gone"
        /\ \A d \in Coros : d # t /\ d # a => st'[d] = st[d]
        /\ awaits'[a] = NoCoro /\ \A d \in Coros : d # a => awaits'[d] = awaits[d]
    BY <2>1, <1>4 DEF IInv, TypeOK
  <2>3. /\ stack' \in Seq(Coros) /\ StackRuns' /\ Delivered'
    <3>1. \A c \in Coros : c # a /\ st[c] = "running" =>
              st'[c] = "running" /\ awaits'[c] = awaits[c]
      BY <2>2, <1>5
    <3> QED
      BY <3>1, <2>1, <1>1, PopInv
  <2>4. TypeOK' /\ NoFault'
    <3>1. /\ st' \in [Coros -> {"none", "made", "running", "waiting", "yielded", "done", "gone"}]
          /\ awaits' \in [Coros -> Coros \cup {NoCoro} \cup Awaiters]
          /\ told' \in [Awaitables -> {"none", "value", "error"}]
      BY <2>1, <1>1, <1>3, <1>4 DEF IInv, TypeOK
    <3> QED
      BY <3>1, <2>1, <2>3, <1>1, <1>5 DEF IInv, TypeOK, NoFault
  <2>5. ContinuationWaits'
    <3> SUFFICES ASSUME NEW d \in Awaitables \cup Generators,
                        st'[d] \in {"running", "waiting"}
                 PROVE  /\ cont[d] = owner[d] /\ cont[d] \in Coros
                        /\ st'[cont[d]] = "waiting" /\ awaits'[cont[d]] = d
                        /\ cont[d] \notin pending
      BY <1>1 DEF ContinuationWaits
    <3>1. d \in Coros /\ st[d] \in {"running", "waiting"}
      BY <2>2 DEF Coros
    <3>2. /\ cont[d] = owner[d] /\ cont[d] \in Coros
          /\ st[cont[d]] = "waiting" /\ awaits[cont[d]] = d
          /\ cont[d] \notin pending
      BY <3>1, <1>2
    <3>3. cont[d] # a /\ cont[d] # t
      BY <3>2, <1>2, <1>5
    <3> QED
      BY <3>2, <3>3, <2>2
  <2>6. Waiting'
    <3>1. \A q \in pending : q \in Coros /\ q # a /\ q # t
      BY <1>2, <1>5 DEF IInv, Waiting, TypeOK
    <3>2. \A b \in Asyncs : b \in Coros
      BY DEF Coros
    <3> QED
      BY <3>1, <3>2, <2>2, <1>1 DEF IInv, Waiting
  <2>7. Answers'
    <3>1. \A u \in Awaitables : u \in Coros /\ u # a
      BY <1>4 DEF Coros
    <3>2. \A u \in Awaitables : told'[u] \in {told[u], result[u]}
      BY <1>1 DEF IInv, TypeOK
    <3> QED
      BY <3>1, <3>2, <2>2, <1>1, <1>5 DEF IInv, Answers
  <2>8. Iterators'
    <3> SUFFICES ASSUME NEW g \in Generators
                 PROVE  /\ st'[g] = "done" => result[g] # "value"
                        /\ g \in iterating => st'[g] # "none"
                        /\ g \in iterating /\ owner[g] \in Coros /\ st'[owner[g]] # "gone" =>
                              \/ st'[g] \in {"running", "waiting", "yielded"}
                              \/ st'[g] = "done" /\ awaits'[owner[g]] = g
      BY <1>1 DEF Iterators
    <3>1. g \in Coros /\ st'[g] = st[g]
      BY <2>2, <1>4 DEF Coros
    <3>2. /\ st[g] = "done" => result[g] # "value"
          /\ g \in iterating => st[g] # "none"
          /\ g \in iterating /\ owner[g] \in Coros /\ st[owner[g]] # "gone" =>
                \/ st[g] \in {"running", "waiting", "yielded"}
                \/ st[g] = "done" /\ awaits[owner[g]] = g
      BY DEF IInv, Iterators
    <3>3. owner[g] \in Coros /\ st'[owner[g]] # "gone" =>
              st[owner[g]] # "gone" /\ owner[g] # a
      BY <2>2
    <3> QED
      BY <3>1, <3>2, <3>3, <2>2
  <2>9. Owners'
    <3>1. \A d \in Coros : st[d] # "none" => st'[d] # "none"
      BY <2>2
    <3> QED
      BY <3>1, <1>1 DEF IInv, Owners
  <2> QED
    BY <2>3, <2>4, <2>5, <2>6, <2>7, <2>8, <2>9 DEF IInv
<1> QED
  BY <1>7, <1>8


-----------------------------------------------------------------------------
(***************************************************************************)
(* Waiting for GNUnet                                                      *)
(***************************************************************************)

LEMMA SuspendInv ==
    ASSUME IInv, NEW p \in Coros, InBody(p), NEW k \in Awaiters, Suspend(p, k),
           pending' = pending \cup {p},
           UNCHANGED <<ended, owner, cont, result, told, iterating, phase, fault>>
    PROVE  IInv'
<1>1. OnTop(p) /\ awaits[p] = NoCoro /\ p \notin Asyncs
  BY DEF InBody
<1>2. /\ st[p] = "running" /\ p \notin pending
      /\ \A d \in Awaitables \cup Generators :
            st[d] \in {"running", "waiting"} =>
                /\ cont[d] = owner[d] /\ cont[d] \in Coros
                /\ st[cont[d]] = "waiting" /\ awaits[cont[d]] = d
                /\ cont[d] \notin pending
  BY <1>1, TopFacts
<1>3. /\ st' = [st EXCEPT ![p] = "waiting"] /\ awaits' = [awaits EXCEPT ![p] = k]
      /\ stack' = Popped
  BY DEF Suspend
<1>4. /\ st'[p] = "waiting" /\ \A d \in Coros : d # p => st'[d] = st[d]
      /\ awaits'[p] = k /\ \A d \in Coros : d # p => awaits'[d] = awaits[d]
  BY <1>3 DEF IInv, TypeOK
<1>5. stack' \in Seq(Coros) /\ StackRuns' /\ Delivered'
  BY <1>1, <1>3, <1>4, PopInv
<1>6. TypeOK' /\ NoFault'
  <2>1. /\ st' \in [Coros -> {"none", "made", "running", "waiting", "yielded", "done", "gone"}]
        /\ awaits' \in [Coros -> Coros \cup {NoCoro} \cup Awaiters]
        /\ pending' \subseteq Coros
    BY <1>3 DEF IInv, TypeOK
  <2> QED
    BY <2>1, <1>5 DEF IInv, TypeOK, NoFault
<1>7. ContinuationWaits'
  <2> SUFFICES ASSUME NEW d \in Awaitables \cup Generators,
                      st'[d] \in {"running", "waiting"}
               PROVE  /\ cont[d] = owner[d] /\ cont[d] \in Coros
                      /\ st'[cont[d]] = "waiting" /\ awaits'[cont[d]] = d
                      /\ cont[d] \notin pending'
    BY DEF ContinuationWaits
  <2>1. st[d] \in {"running", "waiting"}
    BY <1>2, <1>4 DEF Coros
  <2>2. /\ cont[d] = owner[d] /\ cont[d] \in Coros
        /\ st[cont[d]] = "waiting" /\ awaits[cont[d]] = d
        /\ cont[d] \notin pending
    BY <2>1, <1>2
  <2>3. cont[d] # p
    BY <2>2, <1>2
  <2> QED
    BY <2>2, <2>3, <1>4
<1>8. Waiting'
  <2>1. \A q \in pending' : q = p \/ (q \in Coros /\ q \in pending)
    BY DEF IInv, TypeOK
  <2>2. \A a \in Asyncs : a \in Coros /\ a # p
    BY <1>1 DEF Coros
  <2> QED
    BY <2>1, <2>2, <1>4 DEF IInv, Waiting
<1>9. Answers'
  <2>1. \A t \in Awaitables : t \in Coros
    BY DEF Coros
  <2> QED
    BY <2>1, <1>2, <1>4 DEF IInv, Answers
<1>10. Iterators'
  <2> SUFFICES ASSUME NEW g \in Generators
               PROVE  /\ st'[g] = "done" => result[g] # "value"
                      /\ g \in iterating => st'[g] # "none"
                      /\ g \in iterating /\ owner[g] \in Coros /\ st'[owner[g]] # "gone" =>
                            \/ st'[g] \in {"running", "waiting", "yielded"}
                            \/ st'[g] = "done" /\ awaits'[owner[g]] = g
    BY DEF Iterators
  <2>1. g \in Coros /\ g # NoCoro
    BY CoroutinesAssumption DEF Coros
  <2>2. /\ st[g] = "done" => result[g] # "value"
        /\ g \in iterating => st[g] # "none"
        /\ g \in iterating /\ owner[g] \in Coros /\ st[owner[g]] # "gone" =>
              \/ st[g] \in {"running", "waiting", "yielded"}
              \/ st[g] = "done" /\ awaits[owner[g]] = g
    BY DEF IInv, Iterators
  <2>3. awaits[owner[g]] = g => owner[g] # p
    BY <2>1, <1>1
  <2>4. owner[g] \in Coros /\ st'[owner[g]] # "gone" => st[owner[g]] # "gone"
    BY <1>2, <1>4
  <2> QED
    BY <2>1, <2>2, <2>3, <2>4, <1>4
<1>11. Owners'
  <2>1. \A d \in Coros : st[d] # "none" => st'[d] # "none"
    BY <1>4
  <2> QED
    BY <2>1 DEF IInv, Owners
<1> QED
  BY <1>5, <1>6, <1>7, <1>8, <1>9, <1>10, <1>11 DEF IInv

\* Nothing but what GNUnet still has to answer changes, and the phase.
LEMMA StopInv == IInv /\ Stop => IInv'
<1> SUFFICES ASSUME IInv, Stop PROVE IInv'
  OBVIOUS
<1>1. /\ phase' = "stopping" /\ pending' \subseteq pending
      /\ UNCHANGED <<ended, st, owner, cont, awaits, result, told, iterating, stack, fault>>
  BY DEF Stop, SurvivesStop
<1>2. TypeOK' /\ NoFault' /\ ContinuationWaits' /\ Waiting'
  BY <1>1 DEF IInv, TypeOK, NoFault, ContinuationWaits, Waiting
<1>3. StackRuns' /\ Delivered' /\ Answers' /\ Iterators' /\ Owners'
  BY <1>1 DEF IInv, StackRuns, Delivered, Answers, Iterators, Owners
<1> QED
  BY <1>2, <1>3 DEF IInv

LEMMA ResumeInv ==
    ASSUME IInv, NEW p \in Coros, Resume(p)
    PROVE  IInv'
<1>1. /\ p \in pending
      /\ pending' = pending \ {p}
      /\ st' = [st EXCEPT ![p] = "running"]
      /\ awaits' = [awaits EXCEPT ![p] = NoCoro]
      /\ stack' = <<p>>
      /\ fault' = ~Resumable(p)
      /\ UNCHANGED <<ended, owner, cont, result, told, iterating, phase>>
  BY DEF Resume
<1>2. st[p] = "waiting" /\ awaits[p] \in Awaiters
  BY <1>1 DEF IInv, Waiting
<1>3. p \notin Asyncs /\ p # NoCoro /\ awaits[p] \notin Coros
  <2>1. awaits[p] \notin Coros
    BY <1>2, CoroutinesAssumption
  <2> QED
    BY <2>1, <1>2, CoroutinesAssumption DEF IInv, Waiting, Coros
<1>4. fault' = FALSE
  BY <1>1, <1>2, <1>3 DEF Resumable
<1>5. /\ st'[p] = "running" /\ \A d \in Coros : d # p => st'[d] = st[d]
      /\ awaits'[p] = NoCoro /\ \A d \in Coros : d # p => awaits'[d] = awaits[d]
  BY <1>1 DEF IInv, TypeOK
<1>6. \A d \in Awaitables \cup Generators :
          st[d] \in {"running", "waiting"} =>
              /\ cont[d] = owner[d] /\ cont[d] \in Coros
              /\ st[cont[d]] = "waiting" /\ awaits[cont[d]] = d
              /\ cont[d] \notin pending
  BY DEF IInv, NoFault, ContinuationWaits
<1>7. /\ stack' \in Seq(Coros) /\ DOMAIN stack' = {1} /\ stack'[1] = p
  BY <1>1
<1>8. TypeOK' /\ NoFault'
  <2>1. /\ st' \in [Coros -> {"none", "made", "running", "waiting", "yielded", "done", "gone"}]
        /\ awaits' \in [Coros -> Coros \cup {NoCoro} \cup Awaiters]
        /\ pending' \subseteq Coros
    BY <1>1 DEF IInv, TypeOK
  <2> QED
    BY <2>1, <1>1, <1>4, <1>7 DEF IInv, TypeOK, NoFault
<1>9. ContinuationWaits'
  <2> SUFFICES ASSUME NEW d \in Awaitables \cup Generators,
                      st'[d] \in {"running", "waiting"}
               PROVE  /\ cont[d] = owner[d] /\ cont[d] \in Coros
                      /\ st'[cont[d]] = "waiting" /\ awaits'[cont[d]] = d
                      /\ cont[d] \notin pending'
    BY <1>1 DEF ContinuationWaits
  <2>1. st[d] \in {"running", "waiting"}
    BY <1>2, <1>5 DEF Coros
  <2>2. /\ cont[d] = owner[d] /\ cont[d] \in Coros
        /\ st[cont[d]] = "waiting" /\ awaits[cont[d]] = d
        /\ cont[d] \notin pending
    BY <2>1, <1>6
  <2>3. cont[d] # p
    BY <2>2, <1>1
  <2> QED
    BY <2>2, <2>3, <1>1, <1>5
<1>10. StackRuns' /\ Delivered'
  BY <1>5, <1>7 DEF StackRuns, Delivered
<1>11. Waiting'
  <2>1. \A q \in pending' : q # p /\ q \in Coros /\ q \in pending
    BY <1>1 DEF IInv, TypeOK
  <2>2. \A a \in Asyncs : a \in Coros /\ a # p
    BY <1>3 DEF Coros
  <2> QED
    BY <2>1, <2>2, <1>5 DEF IInv, Waiting
<1>12. Answers'
  <2>1. \A t \in Awaitables : t \in Coros
    BY DEF Coros
  <2> QED
    BY <2>1, <1>1, <1>2, <1>5 DEF IInv, Answers
<1>13. Iterators'
  <2> SUFFICES ASSUME NEW g \in Generators
               PROVE  /\ st'[g] = "done" => result[g] # "value"
                      /\ g \in iterating => st'[g] # "none"
                      /\ g \in iterating /\ owner[g] \in Coros /\ st'[owner[g]] # "gone" =>
                            \/ st'[g] \in {"running", "waiting", "yielded"}
                            \/ st'[g] = "done" /\ awaits'[owner[g]] = g
    BY <1>1 DEF Iterators
  <2>1. g \in Coros
    BY DEF Coros
  <2>2. /\ st[g] = "done" => result[g] # "value"
        /\ g \in iterating => st[g] # "none"
        /\ g \in iterating /\ owner[g] \in Coros /\ st[owner[g]] # "gone" =>
              \/ st[g] \in {"running", "waiting", "yielded"}
              \/ st[g] = "done" /\ awaits[owner[g]] = g
    BY DEF IInv, Iterators
  <2>3. awaits[owner[g]] = g => owner[g] # p
    BY <2>1, <1>3
  <2>4. owner[g] \in Coros /\ st'[owner[g]] # "gone" => st[owner[g]] # "gone"
    BY <1>2, <1>5
  <2> QED
    BY <2>1, <2>2, <2>3, <2>4, <1>5
<1>14. Owners'
  <2>1. \A d \in Coros : st[d] # "none" => st'[d] # "none"
    BY <1>5
  <2> QED
    BY <2>1, <1>1 DEF IInv, Owners
<1> QED
  BY <1>8, <1>9, <1>10, <1>11, <1>12, <1>13, <1>14 DEF IInv

LEMMA WaitsInv ==
    ASSUME IInv, NEW p \in Coros, Waits(p)
    PROVE  IInv' \/ UNCHANGED vars
<1>1. CASE AwaitRequest(p)
  <2>1. PICK answered \in BOOLEAN :
            /\ pending' = IF answered THEN pending ELSE pending \cup {p}
            /\ IF answered THEN UNCHANGED <<st, awaits, stack>> ELSE Suspend(p, "event")
    BY <1>1 DEF AwaitRequest, HasResult
  <2>2. /\ InBody(p)
        /\ UNCHANGED <<ended, owner, cont, result, told, iterating, phase, fault>>
    BY <1>1 DEF AwaitRequest
  <2>3. CASE answered
    BY <2>1, <2>2, <2>3 DEF vars
  <2>4. CASE ~answered
    BY <2>1, <2>2, <2>4, SuspendInv DEF Awaiters
  <2> QED
    BY <2>3, <2>4
<1>2. CASE AwaitSleep(p)
  BY <1>2, SuspendInv DEF AwaitSleep, Awaiters
<1>3. CASE AwaitStdin(p)
  BY <1>3, SuspendInv DEF AwaitStdin, Awaiters
<1>4. CASE AwaitShutdown(p)
  BY <1>4, SuspendInv DEF AwaitShutdown, Awaiters
<1> QED
  BY <1>1, <1>2, <1>3, <1>4 DEF Waits


-----------------------------------------------------------------------------
(***************************************************************************)
(* The invariant                                                           *)
(***************************************************************************)

LEMMA InitInv == Init => IInv
<1> SUFFICES ASSUME Init PROVE IInv
  OBVIOUS
<1>1. stack \in Seq(Coros) /\ DOMAIN stack = {}
  BY DEF Init
<1>2. /\ \A c \in Coros : st[c] = "none" /\ owner[c] = NoCoro /\ cont[c] = NoCoro
             /\ awaits[c] = NoCoro /\ result[c] = "none"
      /\ \A t \in Awaitables : t \in Coros /\ ended[t] = "none" /\ told[t] = "none"
      /\ iterating = {} /\ pending = {} /\ fault = FALSE
  BY DEF Init, Coros
<1>3. TypeOK /\ NoFault
  BY <1>1 DEF Init, TypeOK, NoFault
<1>4. ContinuationWaits /\ StackRuns /\ Delivered
  BY <1>1, <1>2 DEF ContinuationWaits, StackRuns, Delivered, Coros
<1>5. Waiting /\ Answers
  BY <1>2 DEF Waiting, Answers, Coros
<1>6. Iterators
  BY <1>2 DEF Iterators, Coros
<1>7. Owners
  <2>1. Acyclic(owner)
    BY <1>2, CoroutinesAssumption DEF Acyclic
  <2> QED
    BY <2>1, <1>2, CoroutinesAssumption DEF Owners, Coros
<1> QED
  BY <1>3, <1>4, <1>5, <1>6, <1>7 DEF IInv

LEMMA AwaitInv ==
    ASSUME IInv, NEW p \in Coros, NEW c \in Coros, Await(p, c)
    PROVE  IInv'
BY ForwardInv DEF Await, SetContinuation, Awaitables

LEMMA AwaitVoidInv ==
    ASSUME IInv, NEW p \in Coros, NEW c \in Coros, AwaitVoid(p, c)
    PROVE  IInv'
<1>1. /\ InBody(p) /\ c \in VoidTasks /\ c \in Awaitables
      /\ owner[c] = p /\ st[c] \in {"made", "done"}
      /\ awaits' = [awaits EXCEPT ![p] = c]
      /\ UNCHANGED <<ended, owner, result, told, pending, phase>>
  BY DEF AwaitVoid, Awaitables
<1>2. CASE st[c] = "done"
  BY <1>1, <1>2, ReadyInv DEF AwaitVoid, ReadyVoid
<1>3. CASE st[c] # "done"
  <2>1. Transfer(p, "waiting", c, {}) /\ cont' = [cont EXCEPT ![c] = p]
    BY <1>3 DEF AwaitVoid, ReadyVoid, SetContinuation
  <2> QED
    BY <1>1, <1>3, <2>1, ForwardInv
<1> QED
  BY <1>2, <1>3

\* An iterator that is not end() goes on in a generator that has yielded.
LEMMA AdvanceInv ==
    ASSUME IInv, NEW p \in Coros, NEW g \in Coros, Advance(p, g)
    PROVE  IInv'
<1>1. /\ InBody(p) /\ g \in Generators /\ owner[g] = p
      /\ st[g] = "made" \/ g \in iterating
      /\ cont' = [cont EXCEPT ![g] = p]
      /\ awaits' = [awaits EXCEPT ![p] = g]
      /\ Transfer(p, "waiting", g, {})
      /\ UNCHANGED <<ended, owner, result, told, pending, phase>>
  BY DEF Advance
<1>2. OnTop(p) /\ awaits[p] = NoCoro /\ g # NoCoro
  BY <1>1, CoroutinesAssumption DEF InBody
<1>3. st[p] = "running"
  BY <1>2, TopFacts
<1>4. st[g] \notin {"running", "waiting"}
  BY <1>1, <1>2, <1>3, TopFacts
<1>5. st[g] \in {"made", "yielded"}
  BY <1>1, <1>2, <1>3, <1>4 DEF IInv, Iterators
<1> QED
  BY <1>1, <1>5, ForwardInv

LEMMA ReturnInv ==
    ASSUME IInv, NEW p \in Coros, NEW outcome \in {"value", "error"}, Return(p, outcome)
    PROVE  IInv'
<1>1. /\ InBody(p) /\ p \in Awaitables /\ p \notin Generators
      /\ result' = [result EXCEPT ![p] = outcome]
      /\ ended' = [ended EXCEPT ![p] = outcome]
      /\ Transfer(p, "done", cont[p], Held(p))
      /\ UNCHANGED <<owner, cont, awaits, told, pending, phase>>
  BY CoroutinesAssumption DEF Return, SetResult, FinalStep
<1>2. /\ result' \in [Coros -> {"none", "value", "error"}]
      /\ result'[p] = outcome
      /\ \A d \in Coros : d # p => result'[d] = result[d]
  BY <1>1 DEF IInv, TypeOK
<1>3. Held(p) \in SUBSET Coros
  BY HeldFacts
<1>4. ended' = [ended EXCEPT ![p] = result'[p]] /\ result'[p] # "none"
  BY <1>1, <1>2
<1> DEFINE S == Held(p)
<1>5. S \in SUBSET Coros /\ S = Held(p) /\ Transfer(p, "done", cont[p], S)
  BY <1>1, <1>3
<1> HIDE DEF S
<1>6. /\ InBody(p) /\ p \in Awaitables \cup Generators /\ p \in Awaitables /\ p \notin Generators
      /\ UNCHANGED <<owner, cont, awaits, told, pending, phase>>
  BY <1>1
<1> QED
  BY ONLY IInv, <1>2, <1>4, <1>5, <1>6, BackInv

LEMMA YieldInv ==
    ASSUME IInv, NEW p \in Coros, Yield(p)
    PROVE  IInv'
<1>1. /\ InBody(p) /\ p \in Generators /\ p \notin Awaitables
      /\ result' = [result EXCEPT ![p] = "value"]
      /\ Transfer(p, "yielded", cont[p], {})
      /\ UNCHANGED <<ended, owner, cont, awaits, told, pending, phase>>
  BY CoroutinesAssumption DEF Yield
<1>2. /\ result' \in [Coros -> {"none", "value", "error"}]
      /\ \A d \in Coros : d # p => result'[d] = result[d]
  BY <1>1 DEF IInv, TypeOK
<1> DEFINE S == {}
<1>3. S \in SUBSET Coros /\ S = {} /\ Transfer(p, "yielded", cont[p], S)
  BY <1>1
<1> HIDE DEF S
<1> QED
  BY <1>1, <1>2, <1>3, BackInv

LEMMA FinishInv ==
    ASSUME IInv, NEW g \in Coros, NEW outcome \in {"none", "error"}, Finish(g, outcome)
    PROVE  IInv'
<1>1. /\ InBody(g) /\ g \in Generators /\ g \notin Awaitables
      /\ result' = [result EXCEPT ![g] = outcome]
      /\ Transfer(g, "done", cont[g], Held(g))
      /\ UNCHANGED <<ended, owner, cont, awaits, told, pending, phase>>
  BY CoroutinesAssumption DEF Finish, EndOfStream
<1>2. /\ result' \in [Coros -> {"none", "value", "error"}]
      /\ result'[g] # "value"
      /\ \A d \in Coros : d # g => result'[d] = result[d]
  BY <1>1 DEF IInv, TypeOK
<1> DEFINE S == Held(g)
<1>3. S \in SUBSET Coros /\ S = Held(g) /\ Transfer(g, "done", cont[g], S)
  BY <1>1, HeldFacts
<1> HIDE DEF S
<1> QED
  BY <1>1, <1>2, <1>3, BackInv

LEMMA DropTaskInv ==
    ASSUME IInv, NEW p \in Coros, NEW c \in Coros, DropTask(p, c)
    PROVE  IInv'
<1>1. c \in Awaitables /\ c \notin Generators
  BY CoroutinesAssumption DEF DropTask
<1> QED
  BY <1>1, DropInv DEF DropTask

LEMMA DropGeneratorInv ==
    ASSUME IInv, NEW p \in Coros, NEW g \in Coros, DropGenerator(p, g)
    PROVE  IInv'
BY DropInv DEF DropGenerator

LEMMA NextInv == IInv /\ [Next]_vars => IInv'
<1> SUFFICES ASSUME IInv, [Next]_vars PROVE IInv'
  OBVIOUS
<1>1. UNCHANGED vars => IInv'
  BY DEF vars, IInv, TypeOK, NoFault, ContinuationWaits, StackRuns, Delivered, Waiting,
         Answers, Iterators, Owners
<1>2. ASSUME NEW a \in Coros, NEW t \in Coros, AsyncRun(a, t) PROVE IInv'
  BY <1>2, AsyncRunInv
<1>3. ASSUME NEW p \in Coros, NEW c \in Coros,
             Make(p, c) \/ DropTask(p, c) \/ DropGenerator(p, c) \/ Await(p, c)
             \/ AwaitVoid(p, c) \/ Advance(p, c)
      PROVE  IInv'
  BY <1>3, MakeInv, DropTaskInv, DropGeneratorInv, AwaitInv, AwaitVoidInv, AdvanceInv
<1>4. CASE Returns
  <2>1. ASSUME NEW p \in Coros, NEW outcome \in {"value", "error"}, Return(p, outcome)
        PROVE  IInv'
    BY <2>1, ReturnInv
  <2>2. ASSUME NEW g \in Generators, NEW outcome \in {"none", "error"}, Finish(g, outcome)
        PROVE  IInv'
    BY <2>2, FinishInv DEF Coros
  <2> QED
    BY <1>4, <2>1, <2>2 DEF Returns
<1>5. CASE Resumes
  BY <1>5, ResumeFromTaskInv, EndAsyncInv, ResumeFromGeneratorInv DEF Resumes
<1>6. ASSUME NEW p \in Coros, Waits(p) \/ Yield(p) \/ Resume(p) PROVE IInv'
  BY <1>6, <1>1, WaitsInv, YieldInv, ResumeInv
<1>7. CASE Stop
  BY <1>7, StopInv
<1>8. CASE Ended
  BY <1>8, <1>1 DEF Ended
<1> QED
  BY <1>1, <1>2, <1>3, <1>4, <1>5, <1>6, <1>7, <1>8 DEF Next

LEMMA Invariance == Spec => []IInv
<1>1. Init => IInv
  BY InitInv
<1>2. IInv /\ [Next]_vars => IInv'
  BY NextInv
<1> QED
  BY <1>1, <1>2, PTL DEF Spec

\* Frames, what lives in them, what they wait for and the stack keep their shape.
THEOREM TypeCorrect == Spec => []TypeOK
<1>1. IInv => TypeOK
  BY DEF IInv
<1> QED
  BY <1>1, Invariance, PTL

\* However user code makes, awaits, iterates and drops coroutines: no frame is resumed
\* that is not suspended or is gone, none is destroyed that runs or that somebody is to
\* resume, and no result is read that is not there.
THEOREM NeverFaults == Spec => []NoFault
<1>1. IInv => NoFault
  BY DEF IInv
<1> QED
  BY <1>1, Invariance, PTL

\* A started task or generator goes back to the frame that owns it, which waits for it
\* and for nothing else, and which GNUnet is not to resume.
THEOREM GoesBackToOwner == Spec => []ContinuationWaits
<1>1. IInv => ContinuationWaits
  BY DEF IInv
<1> QED
  BY <1>1, Invariance, PTL


-----------------------------------------------------------------------------
(***************************************************************************)
(* Awaiting a task is a call                                               *)
(***************************************************************************)

\* The calls that are begun, as Coroutines instantiates AsyncCall.
Begun == {t \in Awaitables : st[t] \notin {"none", "made"} /\ cont[t] # NoCoro}

\* They are the tasks that have a continuation.
LEMMA BegunFacts ==
    ASSUME IInv, IInv'
    PROVE  /\ Begun = {t \in Awaitables : cont[t] # NoCoro}
           /\ Begun' = {t \in Awaitables : cont'[t] # NoCoro}
BY DEF IInv, Answers, Begun

LEMMA SameCalls ==
    ASSUME IInv, IInv', UNCHANGED <<ended, told>>,
           \A t \in Awaitables : cont'[t] = cont[t]
    PROVE  UNCHANGED Calls!vars
<1>1. Begun' = Begun
  BY BegunFacts
<1> QED
  BY <1>1 DEF Begun, Calls!vars

LEMMA BeginCall ==
    ASSUME IInv, IInv', UNCHANGED <<ended, told>>,
           NEW t \in Awaitables, st[t] \in {"none", "made"},
           NEW p \in Coros, cont' = [cont EXCEPT ![t] = p]
    PROVE  Calls!Begin(t)
<1>1. t \in Coros /\ p # NoCoro
  BY CoroutinesAssumption DEF Coros
<1>2. cont[t] = NoCoro
  BY DEF IInv, Answers
<1>3. cont'[t] = p /\ \A u \in Awaitables : u # t => cont'[u] = cont[u]
  BY <1>1 DEF IInv, TypeOK, Coros
<1>4. t \notin Begun /\ Begun' = Begun \cup {t}
  BY <1>1, <1>2, <1>3, BegunFacts
<1> QED
  BY <1>4 DEF Begun, Calls!Begin

LEMMA TellCall ==
    ASSUME IInv, IInv', UNCHANGED <<ended, cont>>,
           NEW t \in Awaitables, told' = [told EXCEPT ![t] = result[t]],
           result[t] # "none"
    PROVE  Calls!Tell(t) \/ UNCHANGED Calls!vars
<1>1. result[t] = ended[t] /\ told[t] \in {"none", ended[t]}
  BY DEF IInv, Answers
<1>2. Begun' = Begun
  BY BegunFacts
<1>3. CASE told[t] = "none"
  BY <1>1, <1>2, <1>3 DEF Begun, Calls!Tell
<1>4. CASE told[t] # "none"
  <2>1. told' = told
    BY <1>1, <1>4 DEF IInv, TypeOK
  <2> QED
    BY <1>2, <2>1 DEF Begun, Calls!vars
<1> QED
  BY <1>3, <1>4

LEMMA EndCall ==
    ASSUME IInv, IInv', NEW p \in Coros, NEW outcome \in {"value", "error"},
           Return(p, outcome)
    PROVE  p \in Awaitables /\ Calls!End(p, outcome)
<1>1. /\ InBody(p) /\ p \in Awaitables
      /\ ended' = [ended EXCEPT ![p] = outcome]
      /\ UNCHANGED <<cont, told>>
  BY DEF Return
<1>2. st[p] = "running" /\ cont[p] \in Coros
  BY <1>1, TopFacts DEF InBody
<1>3. ended[p] = "none"
  BY <1>1, <1>2 DEF IInv, Answers
<1>4. Begun' = Begun /\ p \in Begun
  BY <1>1, <1>2, BegunFacts, CoroutinesAssumption
<1> QED
  BY <1>1, <1>3, <1>4 DEF Begun, Calls!End

LEMMA CallStep ==
    ASSUME IInv, IInv', [Next]_vars
    PROVE  [Calls!Next]_(Calls!vars)
<1>1. UNCHANGED vars => UNCHANGED Calls!vars
  BY DEF vars, Calls!vars
<1>2. ASSUME NEW a \in Coros, NEW t \in Coros, AsyncRun(a, t) PROVE Calls!Begin(t) /\ t \in Awaitables
  BY <1>2, BeginCall DEF AsyncRun
<1>3. ASSUME NEW p \in Coros, NEW c \in Coros,
             Make(p, c) \/ DropTask(p, c) \/ DropGenerator(p, c)
      PROVE  UNCHANGED Calls!vars
  BY <1>3, SameCalls DEF Make, DropTask, DropGenerator
<1>4. ASSUME NEW p \in Coros, NEW c \in Coros, Await(p, c)
      PROVE  Calls!Begin(c) /\ c \in Awaitables
  BY <1>4, BeginCall DEF Await, SetContinuation, Awaitables
<1>5. ASSUME NEW p \in Coros, NEW c \in Coros, AwaitVoid(p, c)
      PROVE  c \in Awaitables /\ (Calls!Begin(c) \/ UNCHANGED Calls!vars)
  <2>1. c \in Awaitables /\ st[c] \in {"made", "done"} /\ UNCHANGED <<ended, told>>
    BY <1>5 DEF AwaitVoid, Awaitables
  <2>2. CASE st[c] = "done"
    BY <1>5, <2>1, <2>2, SameCalls DEF AwaitVoid, ReadyVoid
  <2>3. CASE st[c] # "done"
    BY <1>5, <2>1, <2>3, BeginCall DEF AwaitVoid, ReadyVoid, SetContinuation
  <2> QED
    BY <2>1, <2>2, <2>3
<1>6. ASSUME NEW p \in Coros, NEW g \in Coros, Advance(p, g)
      PROVE  UNCHANGED Calls!vars
  <2>1. g \notin Awaitables /\ cont' = [cont EXCEPT ![g] = p] /\ UNCHANGED <<ended, told>>
    BY <1>6, CoroutinesAssumption DEF Advance
  <2>2. \A t \in Awaitables : cont'[t] = cont[t]
    BY <2>1 DEF IInv, TypeOK, Coros
  <2> QED
    BY <2>1, <2>2, SameCalls
<1>7. ASSUME NEW g \in Coros, NEW outcome, Finish(g, outcome) \/ Yield(g)
      PROVE  UNCHANGED Calls!vars
  BY <1>7, SameCalls DEF Finish, Yield
<1>8. ASSUME NEW p \in Coros, ResumeFromTask(p)
      PROVE  \E t \in Awaitables : Calls!Tell(t) \/ UNCHANGED Calls!vars
  <2>1. OnTop(p) /\ awaits[p] \in Awaitables
    BY <1>8 DEF ResumeFromTask
  <2>2. result[awaits[p]] # "none"
    BY <2>1, TakenTask
  <2> QED
    BY <1>8, <2>1, <2>2, TellCall DEF ResumeFromTask
<1>9. ASSUME NEW a \in Coros, EndAsync(a)
      PROVE  \E t \in Awaitables : Calls!Tell(t) \/ UNCHANGED Calls!vars
  <2>1. OnTop(a) /\ a \in Asyncs
    BY <1>9 DEF EndAsync
  <2>2. awaits[a] \in Awaitables
    BY <2>1, TopFacts DEF IInv, Waiting
  <2>3. result[awaits[a]] # "none"
    BY <2>1, <2>2, TakenTask
  <2>4. /\ told' = [told EXCEPT ![awaits[a]] = result[awaits[a]]]
        /\ UNCHANGED <<ended, cont>>
    BY <1>9 DEF EndAsync
  <2> QED
    BY <2>2, <2>3, <2>4, TellCall
<1>10. ASSUME NEW p \in Coros, ResumeFromGenerator(p) \/ Waits(p) \/ Resume(p)
       PROVE  UNCHANGED Calls!vars
  BY <1>10, SameCalls DEF ResumeFromGenerator, Waits, AwaitRequest, AwaitSleep, AwaitStdin,
                          AwaitShutdown, Resume
<1>11. Stop => UNCHANGED Calls!vars
  BY SameCalls DEF Stop
<1>12. Ended => UNCHANGED Calls!vars
  BY <1>1 DEF Ended
<1>13. Returns => Calls!Next \/ UNCHANGED Calls!vars
  <2>1. ASSUME NEW p \in Coros, NEW outcome \in {"value", "error"}, Return(p, outcome)
        PROVE  Calls!Next
    BY <2>1, EndCall DEF Calls!Next
  <2> QED
    BY <2>1, <1>7 DEF Returns, Coros
<1>14. Resumes => Calls!Next \/ UNCHANGED Calls!vars
  BY <1>8, <1>9, <1>10 DEF Resumes, Calls!Next
<1>15. ASSUME NEW p \in Coros, NEW c \in Coros,
              Make(p, c) \/ DropTask(p, c) \/ DropGenerator(p, c) \/ Await(p, c)
              \/ AwaitVoid(p, c) \/ Advance(p, c)
       PROVE  Calls!Next \/ UNCHANGED Calls!vars
  BY <1>15, <1>3, <1>4, <1>5, <1>6 DEF Calls!Next
<1>16. ASSUME NEW a \in Coros, NEW t \in Coros, AsyncRun(a, t) PROVE Calls!Next
  BY <1>16, <1>2 DEF Calls!Next
<1>17. ASSUME NEW p \in Coros, Waits(p) \/ Yield(p) \/ Resume(p)
       PROVE  UNCHANGED Calls!vars
  BY <1>17, <1>7, <1>10
<1> QED
  BY <1>1, <1>11, <1>12, <1>13, <1>14, <1>15, <1>16, <1>17 DEF Next

\* The safety part of CallSpec: awaiting a task is a call that is begun once, ends once,
\* and whose caller is told what it ended with, a value or an exception.
THEOREM ImplementsCall == Spec => Calls!Init /\ [][Calls!Next]_(Calls!vars)
<1>1. Init => Calls!Init
  BY DEF Init, Calls!Init, Coros
<1>2. IInv /\ IInv' /\ [Next]_vars => [Calls!Next]_(Calls!vars)
  BY CallStep
<1> QED
  BY <1>1, <1>2, Invariance, PTL DEF Spec
=============================================================================
