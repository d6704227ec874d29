----------------------------- MODULE TurnEngine -----------------------------
(***************************************************************************)
(* One turn of a conversation, from admission to its terminal status:      *)
(* kairo_kernel/engine/turns.py with the SessionTurnSupervisor of          *)
(* runtime/turns.py and the CancellationToken of runtime/cancellation.py.  *)
(*                                                                         *)
(* An action is what the code does between two suspensions of a task, the  *)
(* pc of a run names the await it is suspended in:                         *)
(*   loading    sessions.load in submit()                                  *)
(*   resolving  _resolve_options, resolve_profile and tools.list           *)
(*   accepted   the task of _execute() is created and has not run          *)
(*   streaming  the race of a stream read and the cancellation token       *)
(*   arrived    the read has ended the stream, the task has not resumed    *)
(*   asking     interactions.request                                       *)
(*   calling    tools.get, classify and is_authorized                      *)
(*   running    tool.execute                                               *)
(*   bumping    workspace_leases.bump_revision                             *)
(*   saving     sessions.save in _commit()                                 *)
(* Events are emitted without suspending (see EventBus) and left out, but  *)
(* for the one thing they change: on a closed bus an emission raises.      *)
(***************************************************************************)
EXTENDS Naturals, FiniteSets

CONSTANTS Turn, Session,
          SessionOf,      \* the session each turn is submitted to
          NoTurn,
          MaxRounds,      \* options.max_tool_rounds
          MaxCalls,       \* bound: tool calls in one provider round
          UserModes,      \* bound: the authorization modes the user may set
          External,       \* the calls that classify() puts outside
          Mcp,            \* the calls of MCP tools, all of them outside
          SubmitMayAbort, \* submit() may be cancelled or raise while it waits
          ToolsMayRaise   \* a cancelled tool may raise CancelledError

Mode == {"manual", "auto", "yolo"}
Call == (1..MaxRounds + 1) \X (1..MaxCalls)

ASSUME TurnAssumption ==
    /\ SessionOf \in [Turn -> Session]
    /\ NoTurn \notin Turn
    /\ MaxRounds \in Nat /\ MaxCalls \in Nat
    /\ External \subseteq Call /\ Mcp \subseteq External
    /\ UserModes \subseteq Mode
    /\ SubmitMayAbort \in BOOLEAN /\ ToolsMayRaise \in BOOLEAN

VARIABLES run,       \* _runs: the state of every turn
          active,    \* SessionTurnSupervisor._active
          closing,   \* SessionTurnSupervisor._closing
          closed,    \* shutdown has closed the broker and the leases, then the bus
          stored,    \* per session, the turns whose exchange its record holds
          prefMode   \* the authorization mode in the preferences

vars == <<run, active, closing, closed, stored, prefMode>>

Terminal == {"succeeded", "cancelled", "failed"}
Status == {"none", "accepted", "running", "stopping"} \cup Terminal
Submitting == {"loading", "resolving"}
Executing == {"accepted", "streaming", "arrived", "asking", "calling",
              "running", "bumping", "saving"}
Live == Submitting \cup Executing

(* What a turn adds to the history: the tool calls of its assistant        *)
(* messages, the calls that have a result message, and the last message.   *)
Exchange == [calls : SUBSET Call, results : SUBSET Call,
             last : {"none", "user", "assistant", "tool", "stopped"}]
NoExchange == [calls |-> {}, results |-> {}, last |-> "none"]

(* _Run, with the locals of _execute().  base is the history the session   *)
(* was loaded with and dropped what an emergency compaction cut from it;   *)
(* ran, consent and kept record what tools did, what the user allowed and  *)
(* what the last commit wrote.                                             *)
Run == [pc : {"idle", "refused", "aborted", "done"} \cup Live,
        stage : {"plan", "summary", "emergency", "chat", "tool"},
        status : Status,
        token : BOOLEAN,
        outcome : {"none", "ok", "context", "failed"},
        answer : {"none", "approve", "enable", "reject", "stop"},
        verdict : Terminal,
        mode : Mode,
        round : 0..MaxRounds + 1,
        index : 1..MaxCalls + 1,
        rescued : BOOLEAN,
        base : SUBSET Turn,
        dropped : SUBSET Turn,
        exchange : Exchange,
        ran : SUBSET Call,
        consent : SUBSET Call,
        kept : Exchange]

NewRun == [pc |-> "idle", stage |-> "chat", status |-> "none", token |-> FALSE,
           outcome |-> "none", answer |-> "none", verdict |-> "failed",
           mode |-> "manual", round |-> 0, index |-> 1, rescued |-> FALSE,
           base |-> {}, dropped |-> {}, exchange |-> NoExchange,
           ran |-> {}, consent |-> {}, kept |-> NoExchange]

Init ==
    /\ run = [t \in Turn |-> NewRun]
    /\ active = [s \in Session |-> NoTurn]
    /\ closing = FALSE
    /\ closed = FALSE
    /\ stored = [s \in Session |-> {}]
    /\ prefMode = "manual"

----------------------------------------------------------------------------
(* Mutant: the lease goes when the last commit starts. *)
BecomeReleasedEarly(t, r) ==
    /\ run' = [run EXCEPT ![t] = r]
    /\ active' = IF r.pc \in {"refused", "saving", "done"}
                 THEN [active EXCEPT ![SessionOf[t]] = NoTurn]
                 ELSE active

(* The lease is released and the result published with no suspension after *)
(* the last one of the run.                                                *)
Become(t, r) ==
    /\ run' = [run EXCEPT ![t] = r]
    /\ active' = IF r.pc \in {"refused", "done"}
                 THEN [active EXCEPT ![SessionOf[t]] = NoTurn]
                 ELSE active

(* _finish(): the one place where a status becomes terminal.  The locals   *)
(* of _execute() are gone; what the run did, and to what it led, stays.    *)
Finish(r, status) ==
    [NewRun EXCEPT !.pc = "done", !.status = status, !.token = r.token,
                   !.mode = r.mode, !.exchange = r.exchange, !.ran = r.ran,
                   !.consent = r.consent, !.kept = r.kept]

(* Mutant: a cancelled turn is not committed. *)
UnwindUncommitted(r, verdict) ==
    IF r.exchange.last = "none" \/ verdict = "cancelled" THEN Finish(r, verdict)
    ELSE [r EXCEPT !.pc = "saving", !.verdict = verdict]

(* The except clauses of _execute(): a dirty history is committed before   *)
(* the turn ends as the verdict says.                                      *)
Unwind(r, verdict) ==
    IF r.exchange.last = "none" THEN Finish(r, verdict)
    ELSE [r EXCEPT !.pc = "saving", !.verdict = verdict]

Stream(r, stage) == [r EXCEPT !.pc = "streaming", !.stage = stage, !.outcome = "none"]

(* The earlier turns still in the history of a run. *)
Earlier(r) == r.base \ r.dropped

(* The top of the while loop: a compaction, if one is needed, or the next  *)
(* chat round.  What is summarised may be this turn itself, when the       *)
(* options preserve no turn; what a summary tells counts as kept.          *)
LoopTop(r) ==
    IF r.token THEN {Unwind(r, "cancelled")}
    ELSE {Stream(r, "chat"), Stream(r, "summary")}

(* The user message makes the history dirty. *)
BeginChat(r) ==
    IF r.token THEN {Unwind(r, "cancelled")}
    ELSE LoopTop([r EXCEPT !.exchange.last = "user"])

(* _request_interaction(), which raises once the broker is closed. *)
Ask(r, stage) ==
    IF closed THEN Unwind(r, "failed")
    ELSE [r EXCEPT !.pc = "asking", !.stage = stage, !.answer = "none"]

Unanswered(exchange) == exchange.calls \ exchange.results

(* The call the for loop over the tool calls of a round is at. *)
CurrentCall(r) == <<r.round, r.index>>

(* The history with and without the message of a stopped turn, as the      *)
(* option stop_saves_partial has it.                                       *)
Stopped(r) == {r, [r EXCEPT !.exchange.last = "stopped"]}

(* Mutant: the cancellation is looked at before the result is appended. *)
AddResultUnlessCancelled(r) ==
    LET q == [r EXCEPT !.exchange.results = @ \cup {CurrentCall(r)},
                       !.exchange.last = "tool", !.index = @ + 1]
    IN  IF r.token THEN {Unwind(r, "cancelled")}
        ELSE IF CurrentCall(q) \in q.exchange.calls THEN {[q EXCEPT !.pc = "calling"]}
        ELSE LoopTop(q)

(* A tool result is appended; a cancellation is noticed only now. *)
AddResult(r) ==
    LET q == [r EXCEPT !.exchange.results = @ \cup {CurrentCall(r)},
                       !.exchange.last = "tool", !.index = @ + 1]
    IN  IF q.token THEN {Unwind(p, "cancelled") : p \in Stopped(q)}
        ELSE IF CurrentCall(q) \in q.exchange.calls THEN {[q EXCEPT !.pc = "calling"]}
        ELSE LoopTop(q)

(* Mutant: execute() does not look at the token before it starts. *)
RunToolAnyway(r) == [r EXCEPT !.pc = "running", !.ran = @ \cup {CurrentCall(r)}]

(* tool.execute() of a kernel tool does nothing once it is cancelled; an   *)
(* MCP tool drops the token and calls its server.                          *)
RunTool(r) ==
    [r EXCEPT !.pc = "running",
              !.ran = @ \cup {c \in {CurrentCall(r)} : r.token => c \in Mcp}]

(* AuthorizationPolicy.is_authorized *)
Authorized(mode, call) == mode = "yolo" \/ (mode = "auto" /\ call \notin External)

(* The broader mode an approval dialog offers. *)
Broader(mode) == IF mode = "auto" THEN "yolo" ELSE "auto"

----------------------------------------------------------------------------
(* submit(): the supervisor admits one turn per session. *)
Admit(t) ==
    /\ run[t].pc = "idle"
    /\ ~closing
    /\ active[SessionOf[t]] = NoTurn
    /\ run' = [run EXCEPT ![t].pc = "loading"]
    /\ active' = [active EXCEPT ![SessionOf[t]] = t]
    /\ UNCHANGED <<closing, closed, stored, prefMode>>

Refused == [NewRun EXCEPT !.pc = "refused"]

(* sessions.load answers: the record, or no such session. *)
Load(t) ==
    /\ run[t].pc = "loading"
    /\ \/ Become(t, [run[t] EXCEPT !.pc = "resolving",
                                   !.base = stored[SessionOf[t]]])
       \/ Become(t, Refused)
    /\ UNCHANGED <<closing, closed, stored, prefMode>>

(* The options, the profile and the tools are resolved; the run is         *)
(* registered and its task created.                                        *)
Accept(t) ==
    /\ run[t].pc = "resolving"
    /\ \/ Become(t, [run[t] EXCEPT !.pc = "accepted", !.status = "accepted",
                                   !.mode = prefMode])
       \/ Become(t, Refused)
    /\ UNCHANGED <<closing, closed, stored, prefMode>>

(* The task in submit() is cancelled, or a port raises: nothing releases   *)
(* the lease.                                                              *)
Abort(t) ==
    /\ SubmitMayAbort
    /\ run[t].pc \in Submitting
    /\ run' = [run EXCEPT ![t].pc = "aborted"]
    /\ UNCHANGED <<active, closing, closed, stored, prefMode>>

(* The task runs for the first time: RUNNING, whatever the status was;     *)
(* then the plan, if the options ask for one, or the first chat round.     *)
Start(t) ==
    LET r == [run[t] EXCEPT !.status = "running"] IN
    /\ run[t].pc = "accepted"
    /\ \/ Become(t, Stream(r, "plan"))
       \/ \E q \in BeginChat(r) : Become(t, q)
    /\ UNCHANGED <<closing, closed, stored, prefMode>>

(* The provider ends its stream: complete, with a context failure (which   *)
(* only a chat round tells apart), or in any other way.                    *)
StreamEnds(t) ==
    /\ run[t].pc = "streaming"
    /\ ~run[t].token
    /\ \E outcome \in {"ok", "failed"}
                        \cup {o \in {"context"} : run[t].stage = "chat"} :
          run' = [run EXCEPT ![t].pc = "arrived", ![t].outcome = outcome]
    /\ UNCHANGED <<active, closing, closed, stored, prefMode>>

(* Mutant: only chat rounds race the token. *)
StreamCancelledInChat(t) ==
    /\ run[t].pc = "streaming" /\ run[t].stage = "chat"
    /\ run[t].token
    /\ \E q \in Stopped(run[t]) : Become(t, Unwind(q, "cancelled"))
    /\ UNCHANGED <<closing, closed, stored, prefMode>>

(* The token wins the race of the stream read, unless the read raised.     *)
StreamCancelled(t) ==
    /\ run[t].pc = "streaming"
    /\ run[t].token
    /\ \/ \E q \in IF run[t].stage = "chat" THEN Stopped(run[t]) ELSE {run[t]} :
             Become(t, Unwind(q, "cancelled"))
       \/ Become(t, Unwind(run[t], "failed"))
    /\ UNCHANGED <<closing, closed, stored, prefMode>>

(* The profile could not be resolved, or the stream failed. *)
RoundFails(t) ==
    /\ run[t].pc = "arrived"
    /\ \/ run[t].outcome = "failed"
       \/ run[t].outcome = "context" /\ run[t].rescued
    /\ Become(t, Unwind(run[t], "failed"))
    /\ UNCHANGED <<closing, closed, stored, prefMode>>

(* _plan(): a plan with a tool call is an error, any other goes to the user. *)
PlanReady(t) ==
    /\ run[t].pc = "arrived" /\ run[t].stage = "plan" /\ run[t].outcome = "ok"
    /\ \/ Become(t, Unwind(run[t], "failed"))
       \/ Become(t, Ask(run[t], "plan"))
    /\ UNCHANGED <<closing, closed, stored, prefMode>>

(* _compact() after its summary round: an empty summary is an error. *)
SummaryReady(t) ==
    /\ run[t].pc = "arrived" /\ run[t].stage = "summary" /\ run[t].outcome = "ok"
    /\ \/ Become(t, Unwind(run[t], "failed"))
       \/ Become(t, Stream(run[t], "chat"))
    /\ UNCHANGED <<closing, closed, stored, prefMode>>

(* _compact(emergency=True), from where the history is trimmed: earlier    *)
(* turns may go; what is left fits the budget, or the turn fails.          *)
Trim(t) ==
    \/ \E cut \in SUBSET Earlier(run[t]) :
          \E q \in LoopTop([run[t] EXCEPT !.rescued = TRUE,
                                          !.dropped = @ \cup cut]) :
             Become(t, q)
    \/ Become(t, Unwind([run[t] EXCEPT !.rescued = TRUE], "failed"))

(* Mutant: every context failure is answered by a compaction. *)
RescueAgain(t) ==
    /\ run[t].pc = "arrived" /\ run[t].outcome = "context"
    /\ Become(t, Stream([run[t] EXCEPT !.rescued = TRUE], "emergency"))
    /\ UNCHANGED <<closing, closed, stored, prefMode>>

(* The first context failure of a turn is answered by one emergency        *)
(* compaction.                                                             *)
Rescue(t) ==
    /\ run[t].pc = "arrived" /\ run[t].outcome = "context" /\ ~run[t].rescued
    /\ \/ Become(t, Stream([run[t] EXCEPT !.rescued = TRUE], "emergency"))
       \/ /\ Earlier(run[t]) = {}
          /\ Trim(t)
    /\ UNCHANGED <<closing, closed, stored, prefMode>>

RescueReady(t) ==
    /\ run[t].pc = "arrived" /\ run[t].stage = "emergency" /\ run[t].outcome = "ok"
    /\ Trim(t)
    /\ UNCHANGED <<closing, closed, stored, prefMode>>

(* The calls a provider asks for in one round: one to MaxCalls of them. *)
CallsOf(r, n) == {r.round + 1} \X (1..n)

(* A complete chat round: the assistant message ends the loop, or its tool *)
(* calls start another tool round, if there is one left.                   *)
RoundReady(t) ==
    LET r == [run[t] EXCEPT !.exchange.last = "assistant"] IN
    /\ run[t].pc = "arrived" /\ run[t].stage = "chat" /\ run[t].outcome = "ok"
    /\ \/ Become(t, Unwind(r, "succeeded"))
       \/ \E n \in 1..MaxCalls :
             LET q == [r EXCEPT !.round = @ + 1, !.index = 1,
                                !.exchange.calls = @ \cup CallsOf(r, n)]
             IN  Become(t, IF q.round > MaxRounds THEN Unwind(q, "failed")
                           ELSE [q EXCEPT !.pc = "calling"])
    /\ UNCHANGED <<closing, closed, stored, prefMode>>

(* _execute_tool() up to its approval: a tool that is not found or not     *)
(* classified fails at once; an exception out of classify() fails the turn. *)
Dispatch(t) ==
    /\ run[t].pc = "calling"
    /\ \/ \E q \in AddResult(run[t]) : Become(t, q)
       \/ Become(t, Unwind(run[t], "failed"))
       \/ /\ Authorized(run[t].mode, CurrentCall(run[t]))
          /\ Become(t, RunTool(run[t]))
       \/ /\ ~Authorized(run[t].mode, CurrentCall(run[t]))
          /\ Become(t, Ask(run[t], "tool"))
    /\ UNCHANGED <<closing, closed, stored, prefMode>>

Offered(stage) ==
    IF stage = "plan" THEN {"approve", "stop"} ELSE {"approve", "enable", "reject", "stop"}

(* Mutant: an expired approval counts as given. *)
SafeDefaultApproves(stage) == IF stage = "plan" THEN "stop" ELSE "approve"

(* The answer of an interaction nobody answered. *)
SafeDefault(stage) == IF stage = "plan" THEN "stop" ELSE "reject"

(* What the user allows with an answer. *)
ConsentOf(r, answer) ==
    IF r.stage = "tool" /\ answer \in {"approve", "enable"} THEN {CurrentCall(r)} ELSE {}

(* InteractionBroker.respond(): the first answer is the answer. *)
Answer(t, answer) ==
    /\ run[t].pc = "asking" /\ run[t].answer = "none"
    /\ ~closed
    /\ answer \in Offered(run[t].stage)
    /\ run' = [run EXCEPT ![t].answer = answer,
                          ![t].consent = @ \cup ConsentOf(run[t], answer)]
    /\ UNCHANGED <<active, closing, closed, stored, prefMode>>

(* The request returns with the answer or, cancelled, expired or shut      *)
(* down, with the safe default.                                            *)
Reply(r) == IF r.answer = "none" THEN SafeDefault(r.stage) ELSE r.answer
Answered(r) == [r EXCEPT !.answer = "none", !.stage = "chat"]

PlanAnswered(t) ==
    /\ run[t].pc = "asking" /\ run[t].stage = "plan"
    /\ \/ /\ Reply(run[t]) = "approve"
          /\ \E q \in BeginChat(Answered(run[t])) : Become(t, q)
       \/ /\ Reply(run[t]) = "stop"
          /\ Become(t, Unwind(run[t], "cancelled"))
    /\ UNCHANGED <<closing, closed, stored, prefMode>>

ToolAllowed(t) ==
    /\ run[t].pc = "asking" /\ run[t].stage = "tool"
    /\ \/ /\ Reply(run[t]) = "approve"
          /\ Become(t, RunTool(Answered(run[t])))
          /\ UNCHANGED prefMode
       \/ /\ Reply(run[t]) = "enable"
          /\ Become(t, RunTool([Answered(run[t]) EXCEPT !.mode = Broader(@)]))
          /\ prefMode' = Broader(run[t].mode)
    /\ UNCHANGED <<closing, closed, stored>>

ToolDenied(t) ==
    /\ run[t].pc = "asking" /\ run[t].stage = "tool"
    /\ \/ /\ Reply(run[t]) = "reject"
          /\ \E q \in AddResult(Answered(run[t])) : Become(t, q)
       \/ /\ Reply(run[t]) = "stop"
          /\ Become(t, Unwind([run[t] EXCEPT !.token = TRUE], "cancelled"))
    /\ UNCHANGED <<closing, closed, stored, prefMode>>

(* tool.execute() returns.  After a success of a tool that writes, which   *)
(* no MCP tool is said to do, the workspace revision is bumped before the  *)
(* result is recorded.  A CancelledError passes all except clauses, and    *)
(* finally reports the initial status.                                     *)
ToolEnds(t) ==
    /\ run[t].pc = "running"
    /\ \/ \E q \in AddResult(run[t]) : Become(t, q)
       \/ /\ CurrentCall(run[t]) \in run[t].ran \ Mcp
          /\ Become(t, [run[t] EXCEPT !.pc = "bumping"])
       \/ /\ ToolsMayRaise /\ run[t].token
          /\ Become(t, Finish(run[t], "succeeded"))
    /\ UNCHANGED <<closing, closed, stored, prefMode>>

(* bump_revision() returns, or raises once the leases are closed. *)
Bumped(t) ==
    /\ run[t].pc = "bumping"
    /\ \/ /\ ~closed
          /\ \E q \in AddResult(run[t]) : Become(t, q)
       \/ /\ closed
          /\ Become(t, Unwind(run[t], "failed"))
    /\ UNCHANGED <<closing, closed, stored, prefMode>>

(* sessions.save() writes the whole record: the history the turn started   *)
(* from and its own exchange.                                              *)
Save(t) ==
    /\ run[t].pc = "saving"
    /\ stored' = [stored EXCEPT ![SessionOf[t]] = Earlier(run[t]) \cup {t}]
    /\ Become(t, Finish([run[t] EXCEPT !.kept = run[t].exchange], run[t].verdict))
    /\ UNCHANGED <<closing, closed, prefMode>>

(* Mutant: the result of save() is not looked at. *)
SaveFailsUnseen(t) ==
    /\ run[t].pc = "saving"
    /\ Become(t, Finish(run[t], run[t].verdict))
    /\ UNCHANGED <<closing, closed, stored, prefMode>>

(* A failed save fails the turn; one that ended the loop is tried again.   *)
SaveFails(t) ==
    /\ run[t].pc = "saving"
    /\ Become(t, IF run[t].verdict = "succeeded" THEN Unwind(run[t], "failed")
                 ELSE Finish(run[t], "failed"))
    /\ UNCHANGED <<closing, closed, stored, prefMode>>

(* A turn that outlives the grace period of a shutdown: once the event bus *)
(* is closed too, the next event of the run raises RuntimeError, after the *)
(* assistant message of a chat round is appended or the partial one of a   *)
(* stopped round, before a tool result is.                                 *)
EmitRaises(t) ==
    LET r == run[t]
        s == [r EXCEPT !.exchange.last = "assistant"]
        complete == r.stage = "chat" /\ r.outcome = "ok"
    IN  /\ closed
        /\ \/ /\ \/ r.pc \in {"accepted", "asking", "calling", "running"}
                 \/ r.pc = "arrived" /\ ~complete
              /\ Become(t, Unwind(r, "failed"))
           \/ /\ r.pc = "arrived" /\ complete
              /\ \/ Become(t, Unwind(s, "failed"))
                 \/ \E n \in 1..MaxCalls :
                       Become(t, Unwind([s EXCEPT !.round = @ + 1, !.index = 1,
                                                  !.exchange.calls = @ \cup CallsOf(s, n)],
                                        "failed"))
           \/ /\ r.pc = "streaming" /\ r.token /\ r.stage = "chat"
              /\ \E q \in Stopped(r) : Become(t, Unwind(q, "failed"))
        /\ UNCHANGED <<closing, closed, stored, prefMode>>

(* cancel() of a registered turn that is not terminal. *)
Cancel(t) ==
    /\ run[t].pc \in Executing
    /\ ~run[t].token
    /\ run' = [run EXCEPT ![t].token = TRUE, ![t].status = "stopping"]
    /\ UNCHANGED <<active, closing, closed, stored, prefMode>>

CloseAdmission ==
    /\ ~closing
    /\ closing' = TRUE
    /\ UNCHANGED <<run, active, closed, stored, prefMode>>

(* Shutdown closes the broker and the leases whether or not it drained. *)
CloseResources ==
    /\ closing /\ ~closed
    /\ closed' = TRUE
    /\ UNCHANGED <<run, active, closing, stored, prefMode>>

(* The user changes the preferences. *)
SetMode(mode) ==
    /\ prefMode # mode
    /\ prefMode' = mode
    /\ UNCHANGED <<run, active, closing, closed, stored>>

AnswerArrives(t) == \E answer \in {"approve", "enable", "reject", "stop"} : Answer(t, answer)

(* The steps the engine takes by itself. *)
Submits(t) == Load(t) \/ Accept(t)
Resumes(t) ==
    \/ Start(t) \/ StreamCancelled(t)
    \/ RoundFails(t) \/ PlanReady(t) \/ SummaryReady(t) \/ RescueReady(t)
    \/ Rescue(t) \/ RoundReady(t) \/ Dispatch(t)
    \/ PlanAnswered(t) \/ ToolAllowed(t) \/ ToolDenied(t)
    \/ ToolEnds(t) \/ Bumped(t) \/ EmitRaises(t) \/ Save(t) \/ SaveFails(t)

Next ==
    \/ \E t \in Turn :
          \/ Admit(t) \/ Submits(t) \/ Abort(t) \/ Resumes(t)
          \/ StreamEnds(t) \/ AnswerArrives(t) \/ Cancel(t)
    \/ CloseAdmission \/ CloseResources
    \/ \E mode \in UserModes : SetMode(mode)

Spec == Init /\ [][Next]_vars

(* A turn waits for the server of an MCP tool: execute() has neither a     *)
(* timeout nor an eye on the token.                                        *)
AtServer(t) == run[t].pc = "running" /\ CurrentCall(run[t]) \in Mcp

(* Tasks that can run do: ports return, a kernel tool stops at its timeout *)
(* and an interaction at its expiry.  Providers, users and the servers of  *)
(* MCP tools owe nothing.                                                  *)
FairSpec ==
    Spec /\ \A t \in Turn : WF_vars(Submits(t)) /\ WF_vars(~AtServer(t) /\ Resumes(t))

(* Providers end every stream: their adapters have timeouts. *)
ProvidersAnswer == \A t \in Turn : WF_vars(StreamEnds(t))

(* The servers of MCP tools answer every call, or are seen to fail. *)
ServersAnswer == \A t \in Turn : WF_vars(AtServer(t) /\ Resumes(t))

----------------------------------------------------------------------------
TypeOK ==
    /\ run \in [Turn -> Run]
    /\ active \in [Session -> Turn \cup {NoTurn}]
    /\ closing \in BOOLEAN
    /\ closed \in BOOLEAN
    /\ stored \in [Session -> SUBSET Turn]
    /\ prefMode \in Mode

(* A session's lease is held by exactly the turn that is between its       *)
(* admission and its end (or whose submit() was aborted): two turns of one *)
(* session never overlap, and no path to an end forgets the lease.         *)
LeaseMeansTurn ==
    \A t \in Turn :
        active[SessionOf[t]] = t <=> run[t].pc \in Live \cup {"aborted"}

(* "commit the complete session record": a turn reported as succeeded is   *)
(* saved as it is, and every tool call in it has its result.               *)
SucceededIsSaved ==
    \A t \in Turn :
        run[t].status = "succeeded" =>
            /\ run[t].kept = run[t].exchange
            /\ run[t].kept.last = "assistant"
            /\ Unanswered(run[t].kept) = {}

(* A cancelled turn keeps what it did: once the user message is in the     *)
(* history, stopping saves the exchange.                                   *)
CancelledIsSaved ==
    \A t \in Turn : run[t].status = "cancelled" => run[t].kept = run[t].exchange

(* What a tool did is in the record of a turn that succeeded or was        *)
(* cancelled: no effect without a result message.                          *)
EffectsAreRecorded ==
    \A t \in Turn :
        run[t].status \in {"succeeded", "cancelled"} => run[t].ran \subseteq run[t].kept.results

(* A tool runs only with the user's consent for this very call or under a  *)
(* mode that covers it, even if modes widen while the turn runs.           *)
NoConsentNoRun ==
    \A t \in Turn :
        \A c \in run[t].ran \ run[t].consent : Authorized(run[t].mode, c)

(* After a cancellation a run starts no tool on whichever path it is, but  *)
(* for the MCP tool whose call it is about to make, which does not look at *)
(* the token; and the result of the call it is at is its last.             *)
CancelStopsTheLoop ==
    [][\A t \in Turn :
          run[t].token =>
             /\ run'[t].ran \ run[t].ran \subseteq {CurrentCall(run[t])} \cap Mcp
             /\ run'[t].exchange.results # run[t].exchange.results =>
                   run'[t].pc = "saving"]_vars

(* A cancelled turn ends, even if the provider hangs and nobody answers,   *)
(* as long as the servers of MCP tools answer.                             *)
CancelEnds ==
    ServersAnswer => \A t \in Turn : run[t].token ~> run[t].status \in Terminal

(* The contract, seen through the engine. *)
PhaseOf(r) ==
    CASE r.pc = "idle" -> "idle"
      [] r.pc \in {"refused", "done"} -> "ended"
      [] OTHER -> "admitted"
OutcomeOf(r) ==
    CASE r.pc = "refused" -> "refused"
      [] r.pc = "done" -> r.status
      [] OTHER -> "none"

phase == [t \in Turn |-> PhaseOf(run[t])]
outcome == [t \in Turn |-> OutcomeOf(run[t])]

Contract == INSTANCE TurnContract WITH owner <- active, record <- stored

(* The engine implements the contract: one turn per session, one end for a *)
(* turn, a record written only by its owner and with its end, a success    *)
(* always in the record.                                                   *)
ImplementsContract == Contract!ContractSpec

(* If providers end their streams and the servers of MCP tools answer,     *)
(* every admitted turn ends, even if no user ever does, unless its         *)
(* submit() was aborted.                                                   *)
EveryTurnEnds ==
    ProvidersAnswer /\ ServersAnswer =>
        \A t \in Turn :
            phase[t] = "admitted" ~> phase[t] = "ended" \/ run[t].pc = "aborted"
=============================================================================
