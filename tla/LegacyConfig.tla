---------------------------- MODULE LegacyConfig ----------------------------
(* The configuration of the first generation: ConfigService of               *)
(* agent/runtime.py edits a ConfigDraft, commits it to the live Config and   *)
(* to config.json, brings the runtime in line with it and rolls back when    *)
(* that fails.  A configuration is its workspace root and the rest.          *)
CONSTANTS Api,   \* threads of the interface
          Root,  \* workspace roots
          Value, \* values of all the other settings
          None

VARIABLES settings, \* the Config object
          disk,     \* config.json
          context,  \* WorkspaceContext.root: where the agent works
          marked,   \* the runtime accepts no mutation any more
          mutex,    \* the thread that holds _mutation_lock
          call,     \* how far the operation of each thread is
          raised    \* a callback of run_mutation(), or the worker, has let an exception out

configVars == <<settings, disk, context, marked, mutex, call, raised>>

Config == [root : Root, rest : Value]
Stage == {"idle", "drafted", "begun", "applied", "undone"}

ConfigTypeOK ==
    /\ settings \in Config /\ disk \in Config /\ context \in Root
    /\ marked \in BOOLEAN /\ raised \in BOOLEAN
    /\ mutex \in Api \cup {None}
    /\ \A a \in Api : /\ call[a].at \in Stage
                      /\ call[a].draft \in Config \cup {None}
                      /\ call[a].kept \in Config \cup {None}
                      /\ call[a].syncs \in BOOLEAN /\ call[a].ok \in BOOLEAN

Idle == [at |-> "idle", draft |-> None, kept |-> None, syncs |-> TRUE, ok |-> TRUE]

Init ==
    /\ settings \in Config /\ disk = settings /\ context = settings.root
    /\ marked = FALSE /\ raised = FALSE /\ mutex = None
    /\ call = [a \in Api |-> Idle]

----------------------------------------------------------------------------
(* What the operations change of the draft they take from the live Config.  *)

Settings(c) == {[c EXCEPT !.rest = v] : v \in Value}
Anything(c) == {[root |-> r, rest |-> v] : r \in Root, v \in Value}

(* update(): the workbench section also names the root, which is validated. *)
Update(c) == Anything(c)
(* update_settings(): likewise, by the sections of the settings view *)
UpdateSettings(c) == Anything(c)
(* save_provider(), delete_provider() *)
ProviderEdits(c) == Settings(c)
(* save_profile(), delete_profile() *)
ProfileEdits(c) == Settings(c)
(* import_config(): a configuration file merged into the draft *)
ImportConfig(c) == Anything(c)

FromConfig(c) == Update(c) \cup UpdateSettings(c) \cup ProviderEdits(c)
                 \cup ProfileEdits(c) \cup ImportConfig(c)

(* These take their draft before _commit_draft() asks for the lock. *)
Draft(a) ==
    /\ call[a].at = "idle"
    /\ \E d \in FromConfig(settings) :
          call' = [call EXCEPT ![a].at = "drafted", ![a].draft = d]
    /\ UNCHANGED <<settings, disk, context, marked, mutex, raised>>

(* run_mutation(): refused, or the callback begins. *)
Refused(a) ==
    /\ call[a].at = "drafted" /\ mutex = None /\ marked
    /\ call' = [call EXCEPT ![a] = Idle]
    /\ UNCHANGED <<settings, disk, context, marked, mutex, raised>>

Begin(a) ==
    /\ call[a].at = "drafted" /\ mutex = None /\ ~marked
    /\ mutex' = a
    /\ call' = [call EXCEPT ![a].at = "begun"]
    /\ UNCHANGED <<settings, disk, context, marked, raised>>

(* move() takes its draft under the lock, and so do the bookmarks, which are  *)
(* applied and not followed by a reconciliation of the runtime.               *)
Move(a) ==
    /\ call[a].at = "idle" /\ mutex = None /\ ~marked
    /\ mutex' = a
    /\ \E r \in Root :
          call' = [call EXCEPT ![a].at = "begun", ![a].draft = [settings EXCEPT !.root = r]]
    /\ UNCHANGED <<settings, disk, context, marked, raised>>

Bookmark(a) ==
    /\ call[a].at = "idle" /\ mutex = None /\ ~marked
    /\ mutex' = a
    /\ \E v \in Value :
          call' = [call EXCEPT ![a].at = "begun", ![a].syncs = FALSE,
                               ![a].draft = [settings EXCEPT !.rest = v]]
    /\ UNCHANGED <<settings, disk, context, marked, raised>>

Return(a) == /\ mutex' = None
             /\ call' = [call EXCEPT ![a] = Idle]

----------------------------------------------------------------------------
(* _commit_draft_locked()                                                   *)

(* apply_to(): the backup, the live Config and the file; a save that fails    *)
(* restores the file and loads the Config from it.                            *)
Apply(a) ==
    /\ call[a].at = "begun"
    /\ settings' = call[a].draft /\ disk' = call[a].draft
    /\ \/ /\ call[a].syncs
          /\ call' = [call EXCEPT ![a].at = "applied", ![a].kept = settings]
          /\ UNCHANGED mutex
       \/ ~call[a].syncs /\ Return(a)
    /\ UNCHANGED <<context, marked, raised>>

(* The preflight, the validation or the backup refuses, the draft's root no   *)
(* longer being one for example; or the save fails.                           *)
ApplyFails(a) ==
    /\ call[a].at = "begun"
    /\ Return(a)
    /\ settings' \in {settings, disk}
    /\ UNCHANGED <<disk, context, marked, raised>>

(* _sync_runtime_after_commit() with move_workspace(persist=False), which is  *)
(* followed by the save of all sessions.  A move that fails goes back, unless *)
(* that fails as well; it gives the Config the root it had when called.       *)
Synced(ok) ==
    \/ ok /\ context' = settings.root
    \/ ~ok /\ settings.root = context /\ UNCHANGED context
    \/ ~ok /\ settings.root # context /\ context' \in {context, settings.root}

Sync(a) ==
    /\ call[a].at = "applied"
    /\ Synced(TRUE)
    /\ Return(a)
    /\ UNCHANGED <<settings, disk, marked, raised>>

(* The rollback applies the Config as it was before; its save may fail, and   *)
(* then the Config is loaded from the file.                                   *)
SyncFails(a) ==
    /\ call[a].at = "applied"
    /\ Synced(FALSE)
    /\ \E saved \in BOOLEAN :
          /\ call' = [call EXCEPT ![a].at = "undone", ![a].ok = saved]
          /\ disk' = IF saved THEN call[a].kept ELSE disk
          /\ settings' = IF saved THEN call[a].kept ELSE disk
    /\ UNCHANGED <<marked, mutex, raised>>

(* Mutant: only the rollback's save is looked at. *)
ResyncUnseen(a) ==
    /\ call[a].at = "undone"
    /\ \E synced \in BOOLEAN :
          /\ Synced(synced)
          /\ marked' = (marked \/ ~call[a].ok)
    /\ Return(a)
    /\ UNCHANGED <<settings, disk, raised>>

(* The runtime is brought in line with the Config once more. *)
Resync(a) ==
    /\ call[a].at = "undone"
    /\ \E synced \in BOOLEAN :
          /\ Synced(synced)
          /\ marked' = (marked \/ ~synced \/ ~call[a].ok)
    /\ Return(a)
    /\ UNCHANGED <<settings, disk, raised>>

(* A shell that cannot be restarted raises out of either reconciliation, and  *)
(* run_mutation() reports mutation_failed: nothing is rolled back then.       *)
SyncRaises(a) ==
    /\ call[a].at \in {"applied", "undone"}
    /\ settings.root = context /\ call[a].kept.rest # call[a].draft.rest
    /\ raised' = TRUE
    /\ Return(a)
    /\ UNCHANGED <<settings, disk, context, marked>>

(* The live Config is changed first and saved last; nobody restores it. *)
SavedLast ==
    /\ mutex = None
    /\ \E v \in Value : settings' = [settings EXCEPT !.rest = v]
    /\ \/ disk' = settings' /\ UNCHANGED raised
       \/ raised' = TRUE /\ UNCHANGED disk
    /\ UNCHANGED <<context, marked, mutex, call>>

SwitchProfile(a) == call[a].at = "idle" /\ ~marked /\ SavedLast

(* The worker of a turn raises the level of authorization on the user's word, *)
(* without run_mutation(), which its turn keeps out of the way; a save that   *)
(* fails ends the turn.  A draft taken before does not know of it.            *)
WorkerRaises == SavedLast

Next ==
    \/ \E a \in Api :
          \/ Draft(a) \/ Refused(a) \/ Begin(a) \/ Move(a) \/ Bookmark(a)
          \/ Apply(a) \/ ApplyFails(a) \/ Sync(a) \/ SyncFails(a) \/ Resync(a)
          \/ SyncRaises(a) \/ SwitchProfile(a)
    \/ WorkerRaises

Spec == Init /\ [][Next]_configVars

----------------------------------------------------------------------------
(* Between mutations, unless the runtime says it is degraded or an operation  *)
(* has let an exception out, the file holds what the live Config holds and    *)
(* the agent works in the root they name.                                     *)
AgreeOrDegraded ==
    mutex = None /\ ~marked /\ ~raised => settings = disk /\ context = settings.root
=============================================================================
