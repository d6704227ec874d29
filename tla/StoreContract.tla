---------------------------- MODULE StoreContract ----------------------------
(***************************************************************************)
(* What the store of conversations promises, as if every rewrite of a      *)
(* record were one step: a turn comes into the record of its own session,  *)
(* by its commit and once; it leaves only with a rewrite that counts it as *)
(* removed.  What was removed may come back, for a rewrite that had read   *)
(* it before need not be told.                                             *)
(***************************************************************************)
CONSTANTS Turn, Session, SessionOf

VARIABLES told,    \* per session: the turns its record tells of
          saved,   \* the turns that were committed
          removed  \* the turns that a rewrite took out

storeVars == <<told, saved, removed>>

StoreInit ==
    /\ told = [s \in Session |-> {}]
    /\ saved = {}
    /\ removed = {}

Recalled(s) == told[s] \cup {t \in removed : SessionOf[t] = s}

Rewrite(s, turns) ==
    /\ removed' = removed \cup (told[s] \ turns)
    /\ told' = [told EXCEPT ![s] = turns]

CommitTurn(t) ==
    /\ t \notin saved /\ saved' = saved \cup {t}
    /\ \E earlier \in SUBSET Recalled(SessionOf[t]) : Rewrite(SessionOf[t], earlier \cup {t})

EditSession(s) ==
    /\ UNCHANGED saved
    /\ \E turns \in SUBSET Recalled(s) : Rewrite(s, turns)

StoreNext == (\E t \in Turn : CommitTurn(t)) \/ (\E s \in Session : EditSession(s))

StoreSpec == StoreInit /\ [][StoreNext]_storeVars
=============================================================================
