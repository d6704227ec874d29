------------------------ MODULE InteractionContract -------------------------
(***************************************************************************)
(* What a turn relies on when it asks the user: a question is open, then   *)
(* it has one answer or none, then it is over.  It ends with the answer    *)
(* that was accepted, and with the safe one only if none was.              *)
(***************************************************************************)
CONSTANTS Request, Answer, Safe

VARIABLES question  \* per request: idle, open, accepted or over, and with what

contractVars == <<question>>

Open == [phase |-> "open", with |-> Safe]
Accepted(a) == [phase |-> "accepted", with |-> a]
Over(a) == [phase |-> "over", with |-> a]

ContractInit == question = [r \in Request |-> [phase |-> "idle", with |-> Safe]]

Ask(r) ==
    /\ question[r].phase = "idle"
    /\ question' = [question EXCEPT ![r] = Open]

Accept(r, a) ==
    /\ question[r] = Open
    /\ question' = [question EXCEPT ![r] = Accepted(a)]

(* The end of a question: the accepted answer or, without one, the safe    *)
(* default.                                                                *)
Conclude(r) ==
    /\ question[r].phase \in {"open", "accepted"}
    /\ question' = [question EXCEPT ![r] = Over(question[r].with)]

ContractNext ==
    \E r \in Request : Ask(r) \/ Conclude(r) \/ \E a \in Answer : Accept(r, a)

ContractSpec == ContractInit /\ [][ContractNext]_contractVars
=============================================================================
