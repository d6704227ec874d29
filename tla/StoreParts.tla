----------------------------- MODULE StoreParts -----------------------------
(* The components of the suite "stores" beside the conversations of the    *)
(* kernel, with their properties under the names the suite checks and the  *)
(* proofs state.  They share no state.                                     *)
CONSTANTS AppTurn, None,
          LegacySession, MaxText,
          Api, Root, Value, First, Mutator, Participants,
          Caller, NFiles, Content, MaxEdits, FileContent, MaxChanges,
          Process, Call, Profile, Secret, MaxRev,
          MaxSubmits, MaxFeed, MaxExtra

VARIABLES mem, foreground, file, index, todo, doing, up, kept, dropped,
          settings, disk, context, marked, mutex, call, raised,
          directory, edits, store, loaded, shown, approved, owner, request,
          files, changes, entries, candidates, tools, confirmed, work,
          service, snap, stored, current, runtime, degraded, inside, turns, cutShort, mutation,
          live, document, secrets, holder, change, torn, fresh,
          running, ended, asks, feed, lost, view, stopping, held,
          pending, ui, submits, answers, clicked, saving, reloading, extras, revived

legacySessionVars == <<mem, foreground, file, index, todo, doing, up, kept, dropped>>
legacyConfigVars == <<settings, disk, context, marked, mutex, call, raised>>
skillVars == <<directory, edits, store, loaded, shown, approved, owner, request>>
legacySkillVars == <<files, changes, entries, candidates, tools, confirmed, work>>
serviceVars == <<service, snap, stored, current, runtime, degraded, inside, turns, cutShort, mutation>>
catalogVars == <<live, document, secrets, holder, change, torn, fresh>>
appVars == <<running, ended, asks, feed, lost, view, stopping, held,
             pending, ui, submits, answers, clicked, saving, reloading, extras, revived>>

Legacy == INSTANCE LegacySessions WITH Session <- LegacySession
Config == INSTANCE LegacyConfig
Skills == INSTANCE SkillTrust
Tools == INSTANCE LegacySkills WITH Content <- FileContent, MaxEdits <- MaxChanges
Services == INSTANCE RevisionedServices
Catalog == INSTANCE ProviderCatalog
App == INSTANCE TuiApp WITH Turn <- AppTurn

\* After a restart the legacy agent finds what a save reported, in every
\* crash between the session file and the index (LegacySessions).
RestartIsFaithful == Legacy!RestartIsFaithful
\* The live legacy configuration and the file agree, or the runtime is
\* degraded or the call says so (LegacyConfig).
AgreeOrDegraded == Config!AgreeOrDegraded
\* Code of a skill is active only with the content, read together with the
\* whole directory, that a user has reviewed and confirmed: packages in the
\* kernel (SkillTrust), tools of a file in the legacy agent (LegacySkills).
OnlyReviewedIsLoaded == /\ Skills!OnlyReviewedIsLoaded
                        /\ Tools!OnlyConfirmedIsRegistered
\* A change of the workspace or the configuration is applied by all its
\* participants or by none, or the service is degraded (RevisionedServices).
AllOrNothing == Services!AllOrNothing
\* The catalog a kernel uses is the one on disk, unless a save of it was cut
\* short or another kernel has written since (ProviderCatalog).
LiveIsPersisted == Catalog!LiveIsPersisted
\* The flags of the app say which dialogs are up, one of a kind at most,
\* while every screen popped is the one that was meant (TuiApp).
OneModal == App!OneModal
\* The stop button comes back when the stopped turn has ended, unless an
\* event was lost or the loop's copy of the state brings it back (TuiApp).
StopIsReleased == App!StopIsReleased
=============================================================================
