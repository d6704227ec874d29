---------------------------- MODULE TurnContract ----------------------------
(***************************************************************************)
(* What the callers of the kernel rely on, without the engine: a session   *)
(* has one turn at a time; a turn that is admitted ends once, with an      *)
(* outcome; its exchange reaches the session's record in one step, at its  *)
(* end and while it owns the session, and a success is in the record.      *)
(***************************************************************************)
CONSTANTS Turn, Session, SessionOf, NoTurn

VARIABLES phase,   \* per turn: idle, admitted or ended
          outcome, \* per turn: how it ended
          owner,   \* per session: the turn admitted to it
          record   \* per session: the turns its record holds

contractVars == <<phase, outcome, owner, record>>

ContractInit ==
    /\ phase = [t \in Turn |-> "idle"]
    /\ outcome = [t \in Turn |-> "none"]
    /\ owner = [s \in Session |-> NoTurn]
    /\ record = [s \in Session |-> {}]

AdmitTurn(t) ==
    /\ phase[t] = "idle"
    /\ owner[SessionOf[t]] = NoTurn
    /\ phase' = [phase EXCEPT ![t] = "admitted"]
    /\ owner' = [owner EXCEPT ![SessionOf[t]] = t]
    /\ UNCHANGED <<outcome, record>>

(* The owner of a session ends its turn and gives the session back.        *)
EndTurn(t, result) ==
    /\ phase[t] = "admitted"
    /\ owner[SessionOf[t]] = t
    /\ phase' = [phase EXCEPT ![t] = "ended"]
    /\ outcome' = [outcome EXCEPT ![t] = result]
    /\ owner' = [owner EXCEPT ![SessionOf[t]] = NoTurn]

(* The record may lose earlier turns to a compaction, and gains this one.  *)
EndSaved(t) ==
    /\ \E result \in {"succeeded", "cancelled", "failed"} : EndTurn(t, result)
    /\ \E earlier \in SUBSET record[SessionOf[t]] :
          record' = [record EXCEPT ![SessionOf[t]] = earlier \cup {t}]

(* A turn that is refused, or that cannot be saved, leaves the record.     *)
EndUnsaved(t) ==
    /\ \E result \in {"refused", "cancelled", "failed"} : EndTurn(t, result)
    /\ UNCHANGED record

End(t) == EndSaved(t) \/ EndUnsaved(t)

ContractNext == \E t \in Turn : AdmitTurn(t) \/ End(t)

ContractSpec == ContractInit /\ [][ContractNext]_contractVars
=============================================================================
