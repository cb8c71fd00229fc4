----------------------------- MODULE AsyncCall ------------------------------
(***************************************************************************)
(* What awaiting a coroutine promises: a call that is begun ends once,     *)
(* with a value or an exception, and then its caller is told exactly that. *)
(***************************************************************************)
CONSTANT Calls

VARIABLES
    begun,  \* the calls whose body has started
    ended,  \* what each ended with: "none" until it has, "value", "error"
    told    \* what its caller was given

vars == <<begun, ended, told>>

Init ==
    /\ begun = {}
    /\ ended = [c \in Calls |-> "none"]
    /\ told = [c \in Calls |-> "none"]

Begin(c) ==
    /\ c \notin begun
    /\ begun' = begun \cup {c}
    /\ UNCHANGED <<ended, told>>

End(c, outcome) ==
    /\ c \in begun /\ ended[c] = "none"
    /\ ended' = [ended EXCEPT ![c] = outcome]
    /\ UNCHANGED <<begun, told>>

Tell(c) ==
    /\ ended[c] # "none" /\ told[c] = "none"
    /\ told' = [told EXCEPT ![c] = ended[c]]
    /\ UNCHANGED <<begun, ended>>

Next == \E c \in Calls :
    Begin(c) \/ (\E outcome \in {"value", "error"} : End(c, outcome)) \/ Tell(c)

Spec == Init /\ [][Next]_vars /\ \A c \in Calls : WF_vars(Tell(c))
=============================================================================
