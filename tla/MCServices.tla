----------------------------- MODULE MCServices -----------------------------
(***************************************************************************)
(* The suite "services" explores, side by side, six components the turn    *)
(* engine works with: the interaction broker (extended), the SQLite        *)
(* database, the MCP client, the tools, the provider adapters and the      *)
(* packing of the context.  A behaviour picks one of them at the start     *)
(* (part); the others keep one fixed initial state, so the run is the      *)
(* union of six state graphs, never their product.                         *)
(***************************************************************************)
EXTENDS InteractionBroker, ServiceParts, TLC

CONSTANTS r1, r2, r3, i1, i2

VARIABLE part

ThreeCalls == {r1, r2, r3}
TwoIds == {i1, i2}
SharedId == [r \in Request |-> IF r = r3 THEN i2 ELSE i1]

SuiteInit == /\ part \in {"broker", "database", "mcp", "tools", "stream", "context"}
             /\ Init /\ DB!Init /\ Mcp!Init /\ Tools!Init /\ Stream!Init /\ Context!Init
             /\ part # "stream" => kind = "other" /\ size = [i \in DOMAIN size |-> 0]
             /\ part # "context" => preserve = 0

SuiteNext ==
  \/ part = "broker" /\ Next /\ UNCHANGED <<part, dbVars, mcpVars, toolVars, streamVars, contextVars>>
  \/ part = "database" /\ DB!Next /\ UNCHANGED <<part, vars, mcpVars, toolVars, streamVars, contextVars>>
  \/ part = "mcp" /\ Mcp!Next /\ UNCHANGED <<part, vars, dbVars, toolVars, streamVars, contextVars>>
  \/ part = "tools" /\ Tools!Next /\ UNCHANGED <<part, vars, dbVars, mcpVars, streamVars, contextVars>>
  \/ part = "stream" /\ Stream!Next /\ UNCHANGED <<part, vars, dbVars, mcpVars, toolVars, contextVars>>
  \/ part = "context" /\ Context!Next /\ UNCHANGED <<part, vars, dbVars, mcpVars, toolVars, streamVars>>

suiteVars == <<part, vars, dbVars, mcpVars, toolVars, streamVars, contextVars>>
SuiteSpec == SuiteInit /\ [][SuiteNext]_suiteVars
SuiteFairSpec ==
  /\ SuiteSpec
  /\ \A r \in Request : WF_vars(part = "broker" /\ Resume(r))
  /\ WF_streamVars(part = "stream" /\ Stream!Step)

\* Every round the engine drives comes to an end (ProviderStream), under the
\* fairness of the network and of the event loop.
RoundEnds == part = "stream" => Stream!RoundEnds
=============================================================================
