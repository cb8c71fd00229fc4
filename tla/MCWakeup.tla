------------------------------ MODULE MCWakeup ------------------------------
(* Instances of Wakeup for TLC. *)
EXTENDS Wakeup

CONSTANTS q1, q2, d1, s1, m1

KindOf == [c \in Calls |-> CASE c \in {d1, m1} -> "delay" [] c = s1 -> "stop" [] OTHER -> "queue"]
MainsOwn == {m1}

\* A thread that queues, one that calls runLater, one that calls shutdown(), and a
\* callback on GNUnet's thread that calls runLater.
FourCalls == {q1, d1, s1, m1}

\* Two threads that queue at the same time.
Burst == {q1, q2}
=============================================================================
