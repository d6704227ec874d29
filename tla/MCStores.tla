----------------------------- MODULE MCStores -----------------------------
(***************************************************************************)
(* The suite "stores" explores, side by side, eight components that keep   *)
(* what outlives a turn: the conversations of the kernel (extended), the   *)
(* sessions, the configuration and the skills of the legacy agent, the     *)
(* trust of skills in the kernel, the revisioned services, the provider    *)
(* catalog, and the state of the TUI.  A behaviour picks one of them at    *)
(* the start (part); the others keep one fixed initial state, so the run   *)
(* is the union of eight state graphs, never their product.                *)
(***************************************************************************)
EXTENDS SessionStore, StoreParts, TLC

CONSTANTS t1, t2, e1, e2, s1

VARIABLE part

TwoTurns == {t1, t2}
TwoEdits == {e1, e2}
OneSession == {s1}
SameSession == [x \in Task |-> s1]

SuiteInit ==
  /\ part \in {"sessions", "legacy sessions", "legacy config", "skills", "legacy skills",
               "services", "catalog", "app"}
  /\ Init /\ Legacy!Init /\ Config!Init /\ Skills!Init /\ Tools!Init
  /\ Services!Init /\ Catalog!Init /\ App!Init
  /\ \A f \in DOMAIN directory : directory[f] = directory[1]
  /\ directory[1] \in FileContent
  /\ files = directory
  /\ part # "services" => service = "workspace"
  /\ part # "legacy config" => /\ settings.root = CHOOSE r \in Root : TRUE
                              /\ settings.rest = First

SuiteNext ==
  \/ part = "sessions" /\ Next
     /\ UNCHANGED <<part, legacySessionVars, legacyConfigVars, skillVars, legacySkillVars, serviceVars, catalogVars, appVars>>
  \/ part = "legacy sessions" /\ Legacy!Next
     /\ UNCHANGED <<part, vars, legacyConfigVars, skillVars, legacySkillVars, serviceVars, catalogVars, appVars>>
  \/ part = "legacy config" /\ Config!Next
     /\ UNCHANGED <<part, vars, legacySessionVars, skillVars, legacySkillVars, serviceVars, catalogVars, appVars>>
  \/ part = "skills" /\ Skills!Next
     /\ UNCHANGED <<part, vars, legacySessionVars, legacyConfigVars, legacySkillVars, serviceVars, catalogVars, appVars>>
  \/ part = "legacy skills" /\ Tools!Next
     /\ UNCHANGED <<part, vars, legacySessionVars, legacyConfigVars, skillVars, serviceVars, catalogVars, appVars>>
  \/ part = "services" /\ Services!Next
     /\ UNCHANGED <<part, vars, legacySessionVars, legacyConfigVars, skillVars, legacySkillVars, catalogVars, appVars>>
  \/ part = "catalog" /\ Catalog!Next
     /\ UNCHANGED <<part, vars, legacySessionVars, legacyConfigVars, skillVars, legacySkillVars, serviceVars, appVars>>
  \/ part = "app" /\ App!Next
     /\ UNCHANGED <<part, vars, legacySessionVars, legacyConfigVars, skillVars, legacySkillVars, serviceVars, catalogVars>>

suiteVars == <<part, vars, legacySessionVars, legacyConfigVars, skillVars, legacySkillVars, serviceVars, catalogVars, appVars>>
SuiteSpec == SuiteInit /\ [][SuiteNext]_suiteVars
=============================================================================
