---------------------------- MODULE ResultStream ----------------------------
(***************************************************************************)
(* What an asynchronous generator promises the coroutine that iterates     *)
(* over it: every result, in the order it was produced and once, and then  *)
(* the end of the stream; and no wait for a result that is there.          *)
(***************************************************************************)
EXTENDS Naturals, Sequences

CONSTANTS
    Results,    \* what a service may report
    End         \* the mark that nothing more comes, not a result

VARIABLES
    sent,       \* everything the producer has reported, End last
    got,        \* what the consumer has been given
    asking      \* the consumer waits for the next item

vars == <<sent, got, asking>>

Closed == sent # <<>> /\ sent[Len(sent)] = End
Ended == got # <<>> /\ got[Len(got)] = End

Init == sent = <<>> /\ got = <<>> /\ asking = FALSE

Report(x) ==
    /\ ~Closed
    /\ sent' = Append(sent, x)
    /\ UNCHANGED <<got, asking>>

Ask ==
    /\ ~asking /\ ~Ended
    /\ asking' = TRUE
    /\ UNCHANGED <<sent, got>>

Deliver ==
    /\ asking
    /\ Len(got) < Len(sent)
    /\ got' = Append(got, sent[Len(got) + 1])
    /\ asking' = FALSE
    /\ UNCHANGED sent

Next == (\E x \in Results \cup {End} : Report(x)) \/ Ask \/ Deliver

Spec == Init /\ [][Next]_vars /\ WF_vars(Deliver)
=============================================================================
