----------------------------- MODULE ConfigDraft -----------------------------
(***************************************************************************)
(* The profiles and providers of the first generation: the drafts of       *)
(* agent/config_editor.py, the commands of the console and of the settings *)
(* page that edit them (agent/runtime_commands.py, agent/runtime.py), the  *)
(* Config they commit to and its file (agent/config.py), and the choice of *)
(* the model that answers a chat (agent/profile_resolver.py).              *)
(*                                                                         *)
(* A configuration has one of two structures.  In the older one providers  *)
(* hold models and a key, in the newer one a list of profiles does; the    *)
(* draft turns the first into the second when an edit needs profiles.      *)
(* Both are a sequence of items here, in the order in which they are       *)
(* searched.  Of the roles only chat is modelled, and of the settings only *)
(* what is about profiles.                                                 *)
(***************************************************************************)
EXTENDS Selections

CONSTANTS Name,      \* <<provider, model>>: a model of a provider, or a profile's id
          Key,       \* keys a user may type
          NoKey, None,
          MaxModels, \* items of a configuration (a bound)
          Start,     \* files this program wrote: the first one, and the backups
          Files      \* files a user may import

VARIABLES live,  \* the Config object
          disk,  \* config.json
          shown, \* the model the conversations have been told of
          doubt  \* history: a save failed: "ahead", or nobody told the conversations: "unsynced"

draftVars == <<live, disk, shown, doubt>>

Ids(c)       == {c.items[i].id : i \in DOMAIN c.items}
Providers(c) == {c.items[i].provider : i \in DOMAIN c.items}
Item(id, provider, key) == [id |-> id, provider |-> provider, key |-> key]

(* A role names a profile by its id, or by the label of the older structure. *)
ById(n)  == <<"id", n>>
Label(n) == <<"label", n>>
Names(c, target) == target[2] \in Ids(c) /\ (target[1] = "label" => ~c.profiles)

(* resolve_profile(): the role, or else the active one, or else the first. *)
Resolve(c) ==
  CASE c.chat # None /\ Names(c, c.chat)          -> c.chat[2]
    [] c.chat = None /\ c.active \in Ids(c)       -> c.active
    [] OTHER                                      -> c.items[1].id

(* The active model of the older structure always exists: that of another   *)
(* model of its provider, or the first of all, takes its place.             *)
EnsureActiveLegacy(c) ==
  LET ofProvider == {i \in DOMAIN c.items : c.active # None /\ c.items[i].provider = c.active[1]}
      first      == IF ofProvider = {} THEN 1 ELSE CHOOSE i \in ofProvider : \A j \in ofProvider : i <= j
  IN IF c.active \in Ids(c) \/ c.items = <<>> THEN c
     ELSE [c EXCEPT !.active = c.items[first].id]

Loaded(file)  == IF file.profiles THEN file ELSE EnsureActiveLegacy(file)
(* What save() writes: the roles only beside profiles. *)
Written(c)    == IF c.profiles THEN c ELSE [c EXCEPT !.chat = None]

-----------------------------------------------------------------------------
(* What a configuration holds, and what a file this program wrote does.     *)

ItemType == [id : Name, provider : {n[1] : n \in Name}, key : Key \cup {NoKey}]
Config   == [profiles : BOOLEAN, items : Seq(ItemType), active : Name \cup {None},
             chat : {None} \cup ({"id", "label"} \X Name)]

(* In the older structure a label names the provider the model is listed at. *)
Entries(s)  == {s[i] : i \in DOMAIN s}
Labelled(c) == c.profiles \/ \A x \in Entries(c.items) : x.provider = x.id[1]
Distinct(c) == \A x, y \in Entries(c.items) : x.id = y.id => x = y
Draft(c)    == c \in Config /\ Labelled(c)
Sound(c)    == Draft(c) /\ c.items # <<>> /\ Distinct(c)

(* save() writes no roles beside providers, and an active profile there is. *)
Filed(c) == Sound(c) /\ IF c.profiles THEN c.active \in Ids(c) ELSE c.chat = None

NamesArePairs   == None \notin Name /\ \A n \in Name : n = <<n[1], n[2]>>
FilesAreWritten == (\A b \in Start : Filed(b)) /\ (\A f \in Files : Draft(f))

-----------------------------------------------------------------------------
(* The edits of a draft.                                                    *)

EnsureProfiles(c) == [c EXCEPT !.profiles = TRUE]

WithKey(item, key) == IF key = "keep" THEN item ELSE [item EXCEPT !.key = key]

(* Mutant: what was added last becomes the active profile. *)
AddProfileActive(c, id, key) ==
  [EnsureProfiles(c) EXCEPT !.items = Append(@, Item(id, id[1], key)), !.active = id]

AddProfile(c, id, key) ==
  [EnsureProfiles(c) EXCEPT !.items = Append(@, Item(id, id[1], key)),
                            !.active = IF @ = None THEN id ELSE @]

(* A new id that is taken is passed over; the active profile follows its    *)
(* new id, and a role does not.                                             *)
UpdateProfile(c, id, key, newId) ==
  LET to == IF newId \in Ids(c) THEN id ELSE newId
  IN [EnsureProfiles(c) EXCEPT
        !.items  = [i \in DOMAIN @ |-> IF @[i].id = id
                                       THEN WithKey([@[i] EXCEPT !.id = to], key) ELSE @[i]],
        !.active = IF @ = id THEN to ELSE @]

(* An unknown id is passed over. *)
SetActiveProfile(c, id) == [EnsureProfiles(c) EXCEPT !.active = IF id \in Ids(c) THEN id ELSE @]

AddProvider(c, id, key) ==
  IF c.profiles THEN AddProfile(c, id, key)
  ELSE EnsureActiveLegacy([c EXCEPT !.items = Append(@, Item(id, id[1], key))])

(* Among profiles only the field provider is renamed. *)
UpdateProvider(c, p, key, new) ==
  LET taken  == ~c.profiles /\ new \in Providers(c)
      to     == IF taken THEN p ELSE new
      Id(id) == IF c.profiles THEN id ELSE <<to, id[2]>>
      Renamed(item) == [item EXCEPT !.provider = to, !.id = Id(item.id)]
  IN [c EXCEPT
        !.items  = [i \in DOMAIN @ |-> IF @[i].provider = p
                                       THEN WithKey(Renamed(@[i]), key) ELSE @[i]],
        !.active = IF @ # None /\ @[1] = p THEN Id(@) ELSE @]

(* Several profiles go at once; the older structure leaves the roles alone. *)
Without(c, ids) == Picked(c.items, {i \in DOMAIN c.items : c.items[i].id \notin ids})
OfProvider(c, p) == {c.items[i].id : i \in {j \in DOMAIN c.items : c.items[j].provider = p}}

RemoveProfiles(c, ids) ==
  LET rest == Without(c, ids)
  IN [EnsureProfiles(c) EXCEPT
        !.items  = rest,
        !.active = IF @ \notin ids THEN @ ELSE IF rest = <<>> THEN None ELSE rest[1].id,
        !.chat   = IF @ \in {ById(id) : id \in ids} THEN None ELSE @]

RemoveProfile(c, id) == RemoveProfiles(c, {id})

RemoveProvider(c, p) ==
  IF c.profiles THEN RemoveProfiles(c, OfProvider(c, p))
  ELSE EnsureActiveLegacy([c EXCEPT !.items = Without(c, OfProvider(c, p))])

(* A model is added behind those its provider has. *)
AddModel(c, id) ==
  LET ofProvider == {i \in DOMAIN c.items : c.items[i].provider = id[1]}
      last       == CHOOSE i \in ofProvider : \A j \in ofProvider : j <= i
  IN [c EXCEPT !.items = SubSeq(@, 1, last) \o <<Item(id, id[1], @[last].key)>>
                         \o SubSeq(@, last + 1, Len(@))]

UpdateModel(c, id, newId) ==
  IF newId \in Ids(c) THEN c
  ELSE [c EXCEPT !.items  = [i \in DOMAIN @ |-> IF @[i].id = id THEN [@[i] EXCEPT !.id = newId] ELSE @[i]],
                 !.active = IF @ = id THEN newId ELSE @]

RemoveModel(c, id) ==
  EnsureActiveLegacy([c EXCEPT !.items = Without(c, {id})])

SetActiveModel(c, id) == IF c.profiles THEN SetActiveProfile(c, id) ELSE [c EXCEPT !.active = id]

(* What export_config() leaves of a configuration without the keys. *)
Exported(c) == [c EXCEPT !.items = [i \in DOMAIN @ |-> [@[i] EXCEPT !.key = NoKey]]]

-----------------------------------------------------------------------------
(* apply_to(): validate() refuses, or repairs what is active; the Config    *)
(* takes the draft and is saved.  A save that fails restores the file and   *)
(* loads the Config from it.  (Inline keys are let through: no command      *)
(* brings a new key without having asked.)                                  *)

Valid(d) == d.items # <<>> /\ Cardinality(Ids(d)) = Len(d.items)

(* Mutant: only the older structure is repaired. *)
RepairedProviders(d) == IF d.profiles THEN d ELSE EnsureActiveLegacy(d)

Repaired(d) == IF ~d.profiles THEN EnsureActiveLegacy(d)
               ELSE [d EXCEPT !.active = IF @ \in Ids(d) THEN @ ELSE d.items[1].id]

SaveFails == /\ live' = Loaded(disk)
             /\ doubt' = IF doubt = "ahead" THEN "unsynced" ELSE doubt
             /\ UNCHANGED <<disk, shown>>

ApplyTo(d) == Valid(d) /\ live' = Repaired(d) /\ disk' = Written(live')

(* _switch_after_save(): the conversations are told. *)
SwitchAfterSave == shown' = Resolve(live') /\ doubt' = "none"

Commit(d) == Valid(d) /\ \/ ApplyTo(d) /\ SwitchAfterSave
                         \/ SaveFails

(* A change of bookmarks is not told to the conversations. *)
CommitOnly(d) ==
  Valid(d) /\ \/ /\ ApplyTo(d)
                 /\ doubt' = IF doubt = "ahead" THEN "none" ELSE doubt
                 /\ UNCHANGED shown
              \/ SaveFails

-----------------------------------------------------------------------------
(* The console: /settings, /setup, /mode, /model, /workspace.  The menus of *)
(* providers and models list the providers of the older structure only.     *)

Room   == Len(live.items) < MaxModels
Keys   == Key \cup {NoKey}
Legacy == ~live.profiles

ProviderAdd == Room /\ \E id \in Name \ Ids(live), key \in Keys :
  /\ Legacy => id[1] \notin Providers(live)
  /\ Commit(SetActiveModel(AddProvider(live, id, key), id))

(* None keeps the name. *)
Edited(p, key, new) ==
  /\ Legacy /\ new # None => \A i \in DOMAIN live.items :
       live.items[i].provider = p => <<new, live.items[i].id[2]>> \in Name
  /\ Commit(UpdateProvider(live, p, key, IF new = None THEN p ELSE new))

ProviderEdit(new) == Legacy /\ \E p \in Providers(live), key \in Keys \cup {"keep"} : Edited(p, key, new)

ProviderRemove == Legacy /\ Cardinality(Providers(live)) > 1
                  /\ \E p \in Providers(live) : Commit(RemoveProvider(live, p))

ModelAdd == Legacy /\ Room /\ \E id \in Name \ Ids(live) :
              id[1] \in Providers(live) /\ Commit(AddModel(live, id))

ModelEdit == Legacy /\ \E id \in Ids(live), newId \in Name :
               id[1] = newId[1] /\ Commit(UpdateModel(live, id, newId))

ModelRemove == Legacy /\ \E id \in Ids(live) :
  /\ \E other \in Ids(live) \ {id} : other[1] = id[1]
  /\ Commit(RemoveModel(live, id))

(* In the older structure the id that is offered, a label, is not found. *)
KeySet   == live.profiles /\ \E id \in Ids(live), key \in Key : Commit(UpdateProfile(live, id, key, id))
KeyClear == live.profiles /\ \E id \in Ids(live) : Commit(UpdateProfile(live, id, NoKey, id))

ConfigImport  == \E f \in Files \cup {Exported(b) : b \in Start} : Commit(Loaded(f))
ConfigRestore == \E b \in Start : /\ disk' = b /\ live' = Loaded(b)
                                  /\ SwitchAfterSave

Setup == Room /\ \E id \in Name \ Ids(live), key \in Keys :
           Commit(SetActiveProfile(AddProfile(live, id, key), id))

(* Edits of what is not modelled save the profiles as they are. *)
Mode          == Commit(live)
WorkspaceSave == CommitOnly(live)

(* switch_active_profile(), saved at the end by switch_model_profile(). *)
Switched(c, id) ==
  [c EXCEPT !.active = id,
            !.chat   = IF @ = None THEN None ELSE IF c.profiles THEN ById(id) ELSE Label(id)]

SwitchModelProfile == \E id \in Ids(live) :
  /\ live' = Switched(live, id)
  /\ shown' = Resolve(live')
  /\ \/ disk' = Written(live') /\ doubt' = "none"
     \/ doubt' = "ahead" /\ UNCHANGED disk

(* A start reads the file.  The plain console then looks for providers: it  *)
(* offers its wizard whenever there are profiles instead, and what the      *)
(* wizard saves the conversations are not told.                             *)
Restart == /\ live' = Loaded(disk)
           /\ SwitchAfterSave
           /\ UNCHANGED disk

RunFirstRunWizard == Len(disk.items) < MaxModels /\ \E id \in Name \ Ids(disk), key \in Keys :
  /\ disk.profiles
  /\ ApplyTo(SetActiveModel(AddProvider(Loaded(disk), id, key), id))
  /\ shown' = Resolve(Loaded(disk)) /\ doubt' = "unsynced"

-----------------------------------------------------------------------------
(* The settings page.                                                       *)

CreateProfile == Room /\ \E id \in Name \ Ids(live), key \in Keys : Commit(AddProfile(live, id, key))

SaveProfile(newId, active) == \E id \in Ids(live), key \in Keys \cup {"keep"} :
  LET to == IF newId = None THEN id ELSE newId
  IN Commit(IF active = None THEN UpdateProfile(live, id, key, to)
            ELSE SetActiveProfile(UpdateProfile(live, id, key, to), active))

DeleteProfile == \E id \in Ids(live) : Commit(RemoveProfile(live, id))

SaveProvider(new) == \E p \in Providers(live), key \in Keys \cup {"keep"} : Edited(p, key, new)

DeleteProvider == \E p \in Providers(live) : Commit(RemoveProvider(live, p))

(* The section "llm" edits the profiles it names, adds the others, and may  *)
(* name an active one, which validate() then looks at.                      *)
UpdateModels(active) == \E id \in Name, key \in Key \cup {"keep"} :
  LET d == IF id \in Ids(live) THEN UpdateProfile(live, id, key, id)
           ELSE AddProfile(live, id, IF key = "keep" THEN NoKey ELSE key)
  IN /\ id \in Ids(live) \/ Room
     /\ Commit(IF active = None THEN d ELSE [d EXCEPT !.active = active])

(* The other sections are about what is not modelled. *)
UpdateSettings == Commit(live)

UpdateRoles == \E chat \in {None} \cup {ById(id) : id \in Ids(live)} : Commit([live EXCEPT !.chat = chat])

-----------------------------------------------------------------------------
Init == /\ disk \in Start /\ live = Loaded(disk)
        /\ shown = Resolve(live) /\ doubt = "none"

(* Edits that are about one entry, and that neither rename nor choose it.   *)
SettingsMenu == \/ ProviderRemove \/ ModelAdd \/ ModelRemove \/ KeySet \/ KeyClear
                \/ ProviderEdit(None)
Quiet == \/ SettingsMenu \/ Mode \/ WorkspaceSave
         \/ CreateProfile \/ SaveProfile(None, None) \/ DeleteProfile
         \/ SaveProvider(None) \/ DeleteProvider \/ UpdateModels(None) \/ UpdateSettings

Next == \/ Quiet
        \/ ProviderAdd \/ ModelEdit \/ Setup \/ SwitchModelProfile \/ UpdateRoles
        \/ \E n \in Name : ProviderEdit(n[1]) \/ SaveProfile(n, None) \/ SaveProfile(None, n)
                          \/ SaveProvider(n[1]) \/ UpdateModels(n)
        \/ ConfigImport \/ ConfigRestore \/ Restart \/ RunFirstRunWizard

Spec == Init /\ [][Next]_draftVars

-----------------------------------------------------------------------------
(* The active model is one of those configured, whatever was removed,        *)
(* renamed, converted or imported.                                           *)
ActiveExists == live.active \in Ids(live) /\ Loaded(disk).active \in Ids(disk)

(* A restart finds the configuration that was in use - but for the roles of *)
(* the older structure, and unless the save of a switch has failed.         *)
RestartAgrees == doubt # "ahead" =>
  Loaded(disk) = IF live.profiles THEN live ELSE [live EXCEPT !.chat = None]

(* The conversations count their context for the model that answers. *)
ShownIsRouted == live.profiles /\ doubt = "none" => shown = Resolve(live)

SettingsAreSound == ActiveExists /\ RestartAgrees /\ ShownIsRouted

(* An edit of one entry neither moves the chat to another model nor leaves  *)
(* its role without one, and changes the keys of one provider at most.      *)
KeysTouched(c, d) ==
  {c.items[i].provider : i \in {k \in DOMAIN c.items : \E j \in DOMAIN d.items :
      c.items[k].id = d.items[j].id /\ c.items[k].key # d.items[j].key}}

Settled(c) == c.chat = None \/ (c.profiles /\ Names(c, c.chat))

EditsStayLocal == [][Quiet /\ Settled(live) /\ doubt = "none" =>
  /\ Settled(live')
  /\ Resolve(live) \in Ids(live') => Resolve(live') = Resolve(live)
  /\ Cardinality(KeysTouched(live, live')) <= 1]_draftVars
=============================================================================
