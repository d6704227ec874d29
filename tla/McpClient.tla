------------------------------ MODULE McpClient ------------------------------
(***************************************************************************)
(* One MCP server as the kernel uses it: McpClient (mcp/client.py) over a  *)
(* transport (mcp/transport.py) and the trust store (mcp/trust.py).  Every *)
(* operation holds the client's lock and is a sequence of stages; a call   *)
(* that meets a transport or protocol failure closes, connects again,      *)
(* refreshes the catalog and sends its request once more.  Callers time    *)
(* out or are cancelled at any await (kernel.py, _Mcp).                    *)
(***************************************************************************)
EXTENDS Naturals, Sequences, FiniteSets

CONSTANTS Caller, MaxSent   \* MaxSent bounds the requests

VARIABLES trusted,  \* the digest of the configuration is in the trust store
          conn,     \* McpClient._transport: 0 or the number of a session
          opened,   \* how many sessions there have been
          shaken,   \* the sessions whose handshake is complete
          alive,    \* the sessions whose server runs
          sent,     \* the requests, in order: id n is the n-th
          wire,     \* the answers on the wire of each session, by request id
          turn,     \* who holds McpClient._lock
          caller,   \* how far each operation is
          cut,      \* an operation was cancelled while it connected
          ran       \* how often the tool ran for each caller

vars == <<trusted, conn, opened, shaken, alive, sent, wire, turn, caller, cut, ran>>

Nobody == "nobody"
Over == {"ok", "failed", "cancelled"}
Plans == [connect |-> <<"open", "hello", "list">>, refresh |-> <<"list">>,
          reconnect |-> <<"close", "open", "hello", "list">>,
          call |-> <<"call">>, close |-> <<"close">>]
Retry == <<"close", "open", "hello", "list", "call">>

Init ==
    /\ trusted = TRUE /\ conn = 0 /\ opened = 0 /\ shaken = {} /\ alive = {}
    /\ sent = <<>> /\ wire = <<>> /\ turn = Nobody /\ cut = FALSE
    /\ caller = [c \in Caller |-> [pc |-> "idle", plan |-> <<>>, waits |-> 0,
                                   retried |-> FALSE, answer |-> 0]]
    /\ ran = [c \in Caller |-> 0]

At(c, pc) == caller[c].pc = pc
Stage(c) == Head(caller[c].plan)
Working(c) == turn = c /\ At(c, "working")
Ready(c, stage) == Working(c) /\ caller[c].waits = 0 /\ Stage(c) = stage
Still == UNCHANGED <<trusted, cut>>

(* The stage is done, or the operation has failed. *)
Advance(c) ==
    LET rest == Tail(caller[c].plan) IN
    /\ caller' = [caller EXCEPT ![c].plan = rest, ![c].waits = 0,
                                ![c].answer = caller[c].waits,
                                ![c].pc = IF rest = <<>> THEN "ok" ELSE "working"]
    /\ turn' = IF rest = <<>> THEN Nobody ELSE turn
Leave(c, pc) ==
    /\ caller' = [caller EXCEPT ![c].pc = pc, ![c].waits = 0]
    /\ turn' = Nobody

(* A call looks its name up in the catalog first and may not find it. *)
Enter(c) ==
    /\ At(c, "idle")
    /\ \E k \in DOMAIN Plans, pc \in {"queued", "failed"} :
          /\ pc = "failed" => k = "call"
          /\ caller' = [caller EXCEPT ![c].pc = pc, ![c].plan = Plans[k]]
    /\ Still /\ UNCHANGED <<conn, opened, shaken, alive, sent, wire, turn, ran>>

Acquire(c) ==
    /\ At(c, "queued") /\ turn = Nobody
    /\ turn' = c /\ caller' = [caller EXCEPT ![c].pc = "working"]
    /\ Still /\ UNCHANGED <<conn, opened, shaken, alive, sent, wire, ran>>

(* _connect_locked up to the first request: the trust check, then a new    *)
(* transport takes the place of whatever was there.                        *)
Open(c) ==
    /\ Ready(c, "open")
    /\ \/ /\ trusted /\ Advance(c)
          /\ opened' = opened + 1 /\ conn' = opened + 1
          /\ alive' = alive \cup {opened + 1} /\ wire' = Append(wire, {})
       \/ ~trusted /\ Leave(c, "failed") /\ UNCHANGED <<opened, conn, alive, wire>>
    /\ Still /\ UNCHANGED <<shaken, sent, ran>>

(* _close_locked forgets the transport before it closes it, which may fail.*)
Close(c) ==
    /\ Ready(c, "close")
    /\ conn' = 0
    /\ \/ Advance(c) /\ alive' = alive \ {conn}
       \/ conn # 0 /\ Leave(c, "failed") /\ UNCHANGED alive
    /\ Still /\ UNCHANGED <<opened, shaken, sent, wire, ran>>

(* A request goes out with a number of its own. *)
Send(c) ==
    /\ Working(c) /\ caller[c].waits = 0 /\ Stage(c) \in {"hello", "list", "call"}
    /\ \/ /\ conn # 0 /\ Len(sent) < MaxSent
          /\ sent' = Append(sent, [by |-> c, stage |-> Stage(c), over |-> conn,
                                   shaken |-> conn \in shaken, cut |-> cut])
          /\ caller' = [caller EXCEPT ![c].waits = Len(sent) + 1]
          /\ UNCHANGED turn
       \/ conn = 0 /\ Leave(c, "failed") /\ UNCHANGED sent
    /\ Still /\ UNCHANGED <<conn, opened, shaken, alive, wire, ran>>

(* The server takes its time: it answers the request of a session in       *)
(* whatever order, also when nobody waits any more.                        *)
ServerAnswers(n) ==
    /\ sent[n].over \in alive
    /\ n \notin wire[sent[n].over]
    /\ wire' = [wire EXCEPT ![sent[n].over] = @ \cup {n}]
    /\ ran' = IF sent[n].stage = "call" THEN [ran EXCEPT ![sent[n].by] = @ + 1] ELSE ran
    /\ Still /\ UNCHANGED <<conn, opened, shaken, alive, sent, turn, caller>>

(* Mutant: whatever arrives first is taken for the answer. *)
ReceiveFirst(c) ==
    /\ Working(c) /\ caller[c].waits # 0 /\ wire[conn] # {}
    /\ Advance(c)
    /\ shaken' = IF Stage(c) = "hello" THEN shaken \cup {conn} ELSE shaken
    /\ Still /\ UNCHANGED <<conn, opened, alive, sent, wire, ran>>

(* The transport reads until the answer that carries the id of the request;*)
(* answers to requests that were given up are passed over.                 *)
Receive(c) ==
    /\ Working(c) /\ caller[c].waits # 0 /\ caller[c].waits \in wire[conn]
    /\ Advance(c)
    /\ shaken' = IF Stage(c) = "hello" THEN shaken \cup {conn} ELSE shaken
    /\ Still /\ UNCHANGED <<conn, opened, alive, sent, wire, ran>>

(* The server reports an error, or its catalog is not usable: the          *)
(* operation ends.  In the handshake the transport is closed.              *)
Refused(c) ==
    /\ Working(c) /\ caller[c].waits # 0
    /\ Leave(c, "failed")
    /\ IF Stage(c) = "hello" THEN conn' = 0 /\ alive' \in {alive, alive \ {conn}}
       ELSE UNCHANGED <<conn, alive>>
    /\ Still /\ UNCHANGED <<opened, shaken, sent, wire, ran>>

(* The stream ends or carries something that is no answer: a call tries    *)
(* once more over a new session, whatever the server did with the first.   *)
Broken(c) ==
    /\ Working(c) /\ caller[c].waits # 0 /\ Stage(c) = "call" /\ ~caller[c].retried
    /\ caller' = [caller EXCEPT ![c].plan = Retry, ![c].waits = 0, ![c].retried = TRUE]
    /\ Still /\ UNCHANGED <<conn, opened, shaken, alive, sent, wire, turn, ran>>

(* A timeout of the facade or a cancelled caller: nothing is closed.       *)
Cancel(c) ==
    /\ caller[c].pc \in {"queued", "working"}
    /\ caller' = [caller EXCEPT ![c].pc = "cancelled", ![c].waits = 0]
    /\ turn' = IF turn = c THEN Nobody ELSE turn
    /\ cut' = (cut \/ (turn = c /\ Stage(c) = "hello"))
    /\ UNCHANGED <<trusted, conn, opened, shaken, alive, sent, wire, ran>>

(* The user trusts or revokes; an open session is not closed for it. *)
Trust == /\ trusted' = ~trusted
         /\ UNCHANGED <<conn, opened, shaken, alive, sent, wire, turn, caller, cut, ran>>

Step(c) ==
    \/ Open(c) \/ Close(c) \/ Send(c) \/ Receive(c) \/ Refused(c) \/ Broken(c)

Next ==
    \/ \E c \in Caller : Enter(c) \/ Acquire(c) \/ Step(c) \/ Cancel(c)
    \/ \E n \in DOMAIN sent : ServerAnswers(n)
    \/ Trust

Spec == Init /\ [][Next]_vars

----------------------------------------------------------------------------
(* An operation that succeeds has been given the answer to its own last    *)
(* request, not to one that another caller gave up on the same session,    *)
(* and its tool ran once, or twice when the call was sent again            *)
(* (StdioTransport.request, McpClient._rpc_locked).                        *)
AnsweredTruly ==
    \A c \in Caller : At(c, "ok") /\ caller[c].answer # 0 =>
        /\ sent[caller[c].answer].by = c
        /\ sent[caller[c].answer].stage = "call" =>
              ran[c] \in 1..(IF caller[c].retried THEN 2 ELSE 1)

(* No catalog or tool request goes over a session before its handshake,    *)
(* through failures, retries and reconnects, unless a caller was cancelled *)
(* while it connected (_connect_locked, _rpc_with_reconnect).              *)
HandshakeFirst ==
    \A n \in DOMAIN sent : sent[n].stage # "hello" /\ ~sent[n].cut => sent[n].shaken

(* What goes over a session is in order, and what comes back belongs to    *)
(* the operation that reports it.                                          *)
ExchangesAreSound == AnsweredTruly /\ HandshakeFirst
=============================================================================
