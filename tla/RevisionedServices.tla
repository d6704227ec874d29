------------------------- MODULE RevisionedServices -------------------------
(***************************************************************************)
(* The two services whose mutations are transactions over a revision, a    *)
(* repository and participants: WorkspaceService (services/workspaces.py)  *)
(* and ConfigurationService (services/configuration.py) over the           *)
(* repositories of storage/repositories.py.  They share one protocol:      *)
(* mutation lock, write lease, revision check, save, participants in       *)
(* order, update of the lease manager; on an exception the participants    *)
(* that were reached are undone in reverse, then the repository, and if    *)
(* that fails the service is degraded.  They differ in how the repository  *)
(* is put back and in what they check, so service says which one it is.    *)
(* Roots and configuration values are both members of Value.               *)
(***************************************************************************)
EXTENDS Integers

CONSTANTS Mutator, Value, First,   \* First: the value the service starts with
          Participants             \* how many participants there are

VARIABLES service,   \* "workspace" or "configuration"
          snap,      \* the snapshot of the lease manager
          stored,    \* the revisions in the repository
          current,   \* the revision the repository points at, or Unset
          runtime,   \* the value each participant works with
          degraded,  \* _degraded_reason is set
          inside,    \* who has the mutation lock and the write lease
          turns,     \* a turn is active
          cutShort,  \* a caller was cancelled inside a transaction
          mutation   \* how far each call is

vars == <<service, snap, stored, current, runtime, degraded, inside, turns, cutShort, mutation>>

Nobody == "nobody"
Unset == -1
Kinds == IF service = "workspace" THEN {"move", "bookmark"}
         ELSE {"mutate", "restore", "backup"}
Over == {"ok", "refused", "degraded", "cancelled"}

Init ==
    /\ service \in {"workspace", "configuration"}
    /\ snap = [value |-> First, rev |-> 0]
    /\ stored = <<>> /\ current = Unset
    /\ runtime = [p \in 1..Participants |-> First]
    /\ degraded = FALSE /\ inside = Nobody /\ turns = FALSE /\ cutShort = FALSE
    /\ mutation = [m \in Mutator |-> [pc |-> "idle", kind |-> "none", to |-> First,
                                      expected |-> 0, reached |-> 0, broken |-> FALSE]]

At(m, pc) == mutation[m].pc = pc
Go(m, pc) == mutation' = [mutation EXCEPT ![m].pc = pc]
End(m, pc) == Go(m, pc) /\ inside' = Nobody
Store(rev, value) == stored' = [r \in DOMAIN stored \cup {rev} |->
                                  IF r = rev THEN value ELSE stored[r]]
Touched(m) == IF mutation[m].kind = "bookmark" THEN 0 ELSE Participants
Rest == UNCHANGED <<service, degraded, turns, cutShort>>

(* A call with the revision its caller has seen.  The degraded check comes *)
(* before the lock: a call in the queue is not refused.                    *)
Enter(m) ==
    /\ At(m, "idle")
    /\ \E k \in Kinds \ {"backup"} :
       \E v \in IF k = "bookmark" THEN {snap.value} ELSE Value :
          mutation' = [mutation EXCEPT ![m] =
              [@ EXCEPT !.pc = IF degraded THEN "refused" ELSE "queued",
                        !.kind = k, !.to = v, !.expected = snap.rev]]
    /\ Rest /\ UNCHANGED <<snap, stored, current, runtime, inside>>

(* The mutation lock and the write lease; a bookmark is a move to the same *)
(* root that no participant hears of.                                      *)
Acquire(m) ==
    /\ At(m, "queued") /\ inside = Nobody
    /\ inside' = m /\ Go(m, "check")
    /\ Rest /\ UNCHANGED <<snap, stored, current, runtime>>

(* Busy, revision conflict, and the validations of the service and of its  *)
(* repository; a restore goes on to fetch the backup.                      *)
Check(m) ==
    /\ At(m, "check")
    /\ \/ End(m, "refused")
       \/ /\ mutation[m].expected = snap.rev
          /\ ~(turns /\ mutation[m].kind = "move")
          /\ Go(m, IF mutation[m].kind = "restore" THEN "fetch" ELSE "save")
          /\ UNCHANGED inside
    /\ Rest /\ UNCHANGED <<snap, stored, current, runtime>>

(* restore() of the configuration: the repository moves its pointer to the *)
(* backup, whose values are validated afterwards.                          *)
Fetch(m) ==
    /\ At(m, "fetch")
    /\ \/ End(m, "refused") /\ UNCHANGED current
       \/ \E r \in DOMAIN stored :
             /\ current' = r /\ UNCHANGED inside
             /\ \E pc \in {"save", "unfetch"} :
                   mutation' = [mutation EXCEPT ![m].pc = pc, ![m].to = stored[r]]
    /\ Rest /\ UNCHANGED <<snap, stored, runtime>>

(* The values of the backup are invalid: the pointer goes back. *)
Unfetch(m) ==
    /\ At(m, "unfetch")
    /\ \/ /\ snap.rev \in DOMAIN stored /\ current' = snap.rev
          /\ End(m, "refused") /\ UNCHANGED degraded
       \/ degraded' = TRUE /\ End(m, "degraded") /\ UNCHANGED current
    /\ UNCHANGED <<service, turns, cutShort, snap, stored, runtime>>

Save(m) ==
    /\ At(m, "save")
    /\ \/ /\ Store(snap.rev + 1, mutation[m].to) /\ current' = snap.rev + 1
          /\ Go(m, "apply")
       \/ Go(m, "undo") /\ UNCHANGED <<stored, current>>
    /\ Rest /\ UNCHANGED <<snap, runtime, inside>>

(* The next participant; one that raises may have done its work or not.    *)
Apply(m) ==
    /\ At(m, "apply") /\ mutation[m].reached < Touched(m)
    /\ LET p == mutation[m].reached + 1 IN
       \E v \in {runtime[p], mutation[m].to}, pc \in {"apply", "undo"} :
          /\ pc = "apply" => v = mutation[m].to
          /\ runtime' = [runtime EXCEPT ![p] = v]
          /\ mutation' = [mutation EXCEPT ![m].pc = pc, ![m].reached = p]
    /\ Rest /\ UNCHANGED <<snap, stored, current, inside>>

(* leases.update; that of the workspace raises once its manager is closed.  *)
(* The bookmarks, listed after it, are kept in memory, which cannot raise:  *)
(* with a repository of theirs that does, the undo would leave the lease.   *)
Finish(m) ==
    /\ At(m, "apply") /\ mutation[m].reached = Touched(m)
    /\ \/ /\ snap' = [value |-> mutation[m].to, rev |-> snap.rev + 1]
          /\ cutShort' = (cutShort /\ mutation[m].kind = "bookmark") /\ End(m, "ok")
       \/ /\ service = "workspace" /\ Go(m, "undo")
          /\ UNCHANGED <<snap, cutShort, inside>>
    /\ UNCHANGED <<service, degraded, turns, stored, current, runtime>>

(* Mutant: the participant that raised is not undone. *)
UndoEarlier(m) ==
    /\ At(m, "undo") /\ mutation[m].reached > 0
    /\ LET p == mutation[m].reached IN
       \E ok \in BOOLEAN :
          /\ runtime' = IF p = 1 \/ ~ok THEN runtime ELSE [runtime EXCEPT ![p - 1] = snap.value]
          /\ mutation' = [mutation EXCEPT ![m].reached = p - 1, ![m].broken = @ \/ ~ok]
    /\ Rest /\ UNCHANGED <<snap, stored, current, inside>>

(* Undo, last participant first; each may raise. *)
Undo(m) ==
    /\ At(m, "undo") /\ mutation[m].reached > 0
    /\ LET p == mutation[m].reached IN
       \E ok \in BOOLEAN, v \in {runtime[p], snap.value} :
          /\ ok => v = snap.value
          /\ runtime' = [runtime EXCEPT ![p] = v]
          /\ mutation' = [mutation EXCEPT ![m].reached = p - 1, ![m].broken = @ \/ ~ok]
    /\ Rest /\ UNCHANGED <<snap, stored, current, inside>>

(* Then the repository: the workspace writes its old record again, the     *)
(* configuration points back at the old revision, which must be there.     *)
UndoSave(m) ==
    /\ At(m, "undo") /\ mutation[m].reached = 0
    /\ \E ok \in BOOLEAN :
          /\ ok /\ service = "configuration" => snap.rev \in DOMAIN stored
          /\ IF ok THEN current' = snap.rev ELSE UNCHANGED current
          /\ IF ok /\ service = "workspace" THEN Store(snap.rev, snap.value)
             ELSE UNCHANGED stored
          /\ degraded' = (degraded \/ ~ok \/ mutation[m].broken)
          /\ End(m, IF ok /\ ~mutation[m].broken THEN "refused" ELSE "degraded")
    /\ UNCHANGED <<service, turns, cutShort, snap, runtime>>

(* backup(): saves the snapshot again under a read lease. *)
Backup(m) ==
    /\ At(m, "idle") /\ "backup" \in Kinds /\ inside = Nobody
    /\ mutation' = [mutation EXCEPT ![m].pc = "ok", ![m].kind = "backup"]
    /\ Store(snap.rev, snap.value) /\ current' = snap.rev
    /\ Rest /\ UNCHANGED <<snap, runtime, inside>>

(* The caller's task is cancelled: lock and lease go back, no except       *)
(* clause of the transaction runs.                                         *)
Cancel(m) ==
    /\ mutation[m].pc \notin {"idle"} \cup Over
    /\ Go(m, "cancelled")
    /\ inside' = (IF inside = m THEN Nobody ELSE inside)
    /\ cutShort' = (cutShort \/ ~(At(m, "queued") \/ At(m, "check")))
    /\ UNCHANGED <<service, degraded, turns, snap, stored, current, runtime>>

TurnsChange ==
    /\ turns' = ~turns
    /\ UNCHANGED <<service, snap, stored, current, runtime, degraded, inside, cutShort, mutation>>

Work(m) ==
    \/ Acquire(m) \/ Check(m) \/ Fetch(m) \/ Unfetch(m) \/ Save(m) \/ Apply(m)
    \/ Finish(m) \/ Undo(m) \/ UndoSave(m)

Next == TurnsChange \/ \E m \in Mutator : Enter(m) \/ Work(m) \/ Backup(m) \/ Cancel(m)

Spec == Init /\ [][Next]_vars

----------------------------------------------------------------------------
(* All or nothing: with nobody inside, the participants work with the      *)
(* value of the snapshot and the repository points at its revision,        *)
(* whatever failed on the way, unless the service says it is degraded or a *)
(* caller was cancelled inside (move and _rollback_move of the workspace,  *)
(* _commit_locked and _rollback of the configuration).                     *)
AllOrNothing ==
    inside = Nobody /\ ~degraded /\ ~cutShort =>
        /\ \A p \in 1..Participants : runtime[p] = snap.value
        /\ IF current = Unset THEN snap.rev = 0
           ELSE current = snap.rev /\ stored[current] = snap.value
=============================================================================
