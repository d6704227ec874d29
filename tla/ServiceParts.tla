---------------------------- MODULE ServiceParts ----------------------------
(* Components of the suite "services", side by side, with their properties *)
(* under the names the suite checks and the proofs state.                  *)
CONSTANTS Reader, Writer, Run, Caller, MaxSent, MaxRetries, MaxCalls,
          MaxTurns, MaxRounds

VARIABLES connected, lock, tx, staged, durable, access,
          trusted, conn, opened, shaken, alive, sent, wire, turn, caller, cut, ran,
          file, lease, child, token, run,
          kind, gen, attempt, streamed, size, over, said, calls, emitted, ready,
          cancelled, settled, verdicts, heard, round,
          preserve, session, latest, stage, history, due, rounds, rescued, request, short

DB == INSTANCE Database
Mcp == INSTANCE McpClient
Tools == INSTANCE ToolExecution
Stream == INSTANCE ProviderStream
Context == INSTANCE RequestContext

dbVars == <<connected, lock, tx, staged, durable, access>>
mcpVars == <<trusted, conn, opened, shaken, alive, sent, wire, turn, caller, cut, ran>>
toolVars == <<file, lease, child, token, run>>
streamVars == <<kind, gen, attempt, streamed, size, over, said, calls, emitted, ready,
                cancelled, settled, verdicts, heard, round>>
contextVars == <<preserve, session, latest, stage, history, due, rounds, rescued, request, short>>

\* A write the caller was told of is in the database, and one it was told
\* has failed is not (Database.write; storage/database.py).
ReportedTruly == DB!ReportedTruly
\* An MCP response answers the request that waits for it, and no tool is
\* called before the handshake, over reconnects and timeouts (McpClient).
ExchangesAreSound == Mcp!ExchangesAreSound
\* A child process works only while its tool holds the lease, and an edit of
\* a file by one tool is not undone by another (ToolExecution).
ToolsAreIsolated == Tools!ToolsAreIsolated
\* A successful round has the whole answer, and no tool call is made of half
\* a stream (ProviderStream).
CallsAreWhole == Stream!CallsAreWhole
\* A request never has the result of a call it lacks, a call without result
\* comes from a turn that was cut short, and the prompt is in it
\* (RequestContext).
RequestsAreValid == Context!RequestsAreValid
=============================================================================
