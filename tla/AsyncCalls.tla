----------------------------- MODULE AsyncCalls -----------------------------
(***************************************************************************)
(* What JavaScript may rely on when it calls native code: a call either    *)
(* throws, and then nothing was done for it, or its work is done once on   *)
(* another thread, and only after that is the call answered, once, with    *)
(* what became of the work.                                                *)
(***************************************************************************)
CONSTANT Calls

VARIABLES work, answer

Init ==
    /\ work = [c \in Calls |-> "none"]
    /\ answer = [c \in Calls |-> "none"]

Throw(c) ==
    /\ work[c] = "none" /\ answer[c] = "none"
    /\ answer' = [answer EXCEPT ![c] = "thrown"]
    /\ UNCHANGED work

Accept(c) ==
    /\ work[c] = "none" /\ answer[c] = "none"
    /\ work' = [work EXCEPT ![c] = "accepted"]
    /\ UNCHANGED answer

Perform(c) ==
    /\ work[c] = "accepted"
    /\ \E outcome \in {"resolved", "rejected"} :
         work' = [work EXCEPT ![c] = outcome]
    /\ UNCHANGED answer

Answer(c) ==
    /\ work[c] \in {"resolved", "rejected"}
    /\ answer[c] = "none"
    /\ answer' = [answer EXCEPT ![c] = work[c]]
    /\ UNCHANGED work

Next == \E c \in Calls : Throw(c) \/ Accept(c) \/ Perform(c) \/ Answer(c)

Spec == Init /\ [][Next]_<<work, answer>>
=============================================================================
