---------------------------- MODULE FrontendParts ----------------------------
(* Components of the suite "frontends", side by side, with their           *)
(* properties under the names the suite checks and the proofs state.       *)
CONSTANTS BusSub, BusEvents, BusBuffer, BusQueue,           \* EventBus
          Name, Key, NoKey, None, MaxModels, Start, Files   \* ConfigDraft

VARIABLES busSequence, busRetained, busClosed, subscription,
          live, disk, shown, doubt

Bus == INSTANCE EventBus WITH Sub <- BusSub, MaxSequence <- BusEvents,
                              MaxBuffer <- BusBuffer, QueueSize <- BusQueue,
                              sequence <- busSequence, events <- busRetained,
                              closed <- busClosed, sub <- subscription

Drafts == INSTANCE ConfigDraft

\* A label is a provider with one of its models, what save() wrote is whole, and
\* what a user imports has the fields of a configuration (Config.save,
\* import_config).
FilesOfThisProgram == Drafts!NamesArePairs /\ Drafts!FilesAreWritten
ASSUME FilesAreOurs == FilesOfThisProgram

streamVars == <<busSequence, busRetained, busClosed, subscription>>
settingsVars == <<live, disk, shown, doubt>>

\* Of the events a subscriber should see, each is delivered once and in
\* order, is waiting, or is counted as lost (EventBus).
BusStreamIsWhole == Bus!StreamIsWhole
\* The active model exists, a restart finds the configuration in use, and the
\* conversations know the model that answers (ConfigDraft).
SettingsAreSound == Drafts!SettingsAreSound
\* An edit of one profile or provider moves neither the chat nor its role,
\* and touches the keys of one provider at most (ConfigDraft).
EditsStayLocal == Drafts!EditsStayLocal
=============================================================================
