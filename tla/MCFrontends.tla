---------------------------- MODULE MCFrontends ----------------------------
(***************************************************************************)
(* The suite "frontends" explores the event loop of the TUI (extended,     *)
(* with the bus it subscribes to), by itself the bus with readers that     *)
(* come and go, and the commands of the console and of the settings page   *)
(* on the profiles of the legacy agent.  A behaviour picks one of the      *)
(* three at the start (part); the others keep one fixed initial state.     *)
(***************************************************************************)
EXTENDS TuiEventLoop, FrontendParts, TLC

CONSTANTS s1, s2, s3, s4,
          openai, local, small, large

VARIABLE part

FourSubs == {s1, s2, s3, s4}
TwoSubs == {s1, s2}

\* Two models of one provider and one of another.
Models == {<<openai, small>>, <<openai, large>>, <<local, small>>}
ModelItem(id, key) == [id |-> id, provider |-> id[1], key |-> key]
ConfigOf(newer, items, chosen, chat) ==
  [profiles |-> newer, items |-> items, active |-> chosen, chat |-> chat]

\* An older file and a newer one, as save() writes them.
StartFiles ==
  {ConfigOf(FALSE, <<ModelItem(<<openai, small>>, NoKey), ModelItem(<<openai, large>>, NoKey)>>,
            <<openai, large>>, None)}
  \cup {ConfigOf(TRUE, <<ModelItem(<<openai, small>>, key), ModelItem(<<local, small>>, NoKey),
                          ModelItem(<<openai, large>>, NoKey)>>,
                 <<local, small>>, None) : key \in Key}

\* Files edited by hand: a role in an older one, and a newer one whose
\* active profile and whose role are not among its profiles.
ForeignFiles ==
  {ConfigOf(FALSE, <<ModelItem(<<openai, small>>, NoKey)>>,
            <<openai, small>>, <<"label", <<openai, small>>>>)}
  \cup {ConfigOf(TRUE, <<ModelItem(<<openai, small>>, key)>>,
                 <<local, small>>, <<"id", <<openai, large>>>>) : key \in Key}

SuiteInit == /\ part \in {"bus", "loop", "drafts"}
             /\ Init /\ Bus!BusInit /\ Drafts!Init
             /\ part # "drafts" => ~disk.profiles

SuiteNext ==
  \/ part = "bus" /\ Bus!BusNext /\ UNCHANGED <<part, vars, settingsVars>>
  \/ part = "loop" /\ Next /\ UNCHANGED <<part, streamVars, settingsVars>>
  \/ part = "drafts" /\ Drafts!Next /\ UNCHANGED <<part, vars, streamVars>>

suiteVars == <<part, vars, streamVars, settingsVars>>
SuiteSpec == SuiteInit /\ [][SuiteNext]_suiteVars

SuiteFairSpec ==
  /\ SuiteSpec
  /\ \A s \in BusSub : WF_streamVars(part = "bus" /\ Bus!Receive(s))
  /\ WF_vars(part = "loop" /\ LoopSteps)

\* Closing the bus ends every reader, and a reader that keeps reading is told
\* of every loss (EventBus).
BusServesReaders == Bus!ReadersAreServed
=============================================================================
