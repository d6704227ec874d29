--------------------------- MODULE LegacyRuntime ---------------------------
(* The threaded runtime of the first generation (agent/runtime.py): one     *)
(* worker thread per turn runs the interaction loop, the threads of the     *)
(* interface submit, stop, answer approvals, mutate the configuration and   *)
(* shut down.  _mutation_lock serialises submissions, mutations and the     *)
(* start of a shutdown; what one thread does under _task_lock is one step.  *)
EXTENDS Naturals

CONSTANTS Turn,   \* the turns that may be submitted, each once
          Api,    \* threads of the interface
          None,
          MaxCalls \* bound: tool calls of one answer

VARIABLES current,   \* _active_turn
          cancelled, \* the turns whose CancellationToken is set
          worker,    \* how far the thread of each turn is
          choice,    \* _PendingApproval._choice of the worker's request
          level,     \* config.authorization_level: 0 manual, 1 auto, 2 yolo
          mutex,     \* the thread that holds _mutation_lock
          api,       \* what each thread of the interface is in
          down,      \* [closing, degraded]
          feed,      \* the turn the last turn_started announced, till turn_finished
          late       \* per turn, the tools started after it was cancelled

runtimeVars ==
    <<current, cancelled, worker, choice, level, mutex, api, down, feed, late>>

Worker == [at : {"new", "born", "plan", "loop", "stream", "call", "asking",
                 "answered", "tool", "final", "gone"},
           about : {"plan", "tool"}, left : 0..MaxCalls]
Choices == {"run", "skip", "raise", "stop"}

RuntimeTypeOK ==
    /\ current \in Turn \cup {None} /\ feed \in Turn \cup {None}
    /\ cancelled \subseteq Turn
    /\ worker \in [Turn -> Worker]
    /\ choice \in Choices \cup {None}
    /\ level \in 0..2
    /\ mutex \in Api \cup {None}
    /\ api \in [Api -> {"idle", "mutates", "stops", "closes", "joins", "shut",
                    "dismissed"}]
    /\ down \in [closing : BOOLEAN, degraded : BOOLEAN]
    /\ late \in [Turn -> 0..2]

Init ==
    /\ current = None /\ feed = None /\ mutex = None /\ choice = None
    /\ cancelled = {}
    /\ worker = [t \in Turn |-> [at |-> "new", about |-> "tool", left |-> 0]]
    /\ level \in 0..2
    /\ api = [a \in Api |-> "idle"]
    /\ down = [closing |-> FALSE, degraded |-> FALSE]
    /\ late = [t \in Turn |-> 0]

----------------------------------------------------------------------------
(* The threads of the interface.                                           *)

(* mutation_error(): what refuses a mutation, and a submission alike. *)
Blocked == down.closing \/ down.degraded \/ current # None

(* Mutant: a message is taken while a mutation runs. *)
SubmitBeside(t) ==
    /\ worker[t].at = "new" /\ ~Blocked
    /\ current' = t
    /\ worker' = [worker EXCEPT ![t].at = "born"]
    /\ UNCHANGED <<cancelled, choice, level, mutex, api, down, feed, late>>

(* submit_message(): the worker thread starts under both locks. *)
Submit(t) ==
    /\ worker[t].at = "new" /\ mutex = None /\ ~Blocked
    /\ current' = t
    /\ worker' = [worker EXCEPT ![t].at = "born"]
    /\ UNCHANGED <<cancelled, choice, level, mutex, api, down, feed, late>>

(* run_mutation(): the callback runs under _mutation_lock alone. *)
BeginMutation(a) ==
    /\ api[a] = "idle" /\ mutex = None /\ ~Blocked
    /\ mutex' = a
    /\ api' = [api EXCEPT ![a] = "mutates"]
    /\ UNCHANGED <<current, cancelled, worker, choice, level, down, feed, late>>

(* The callback returns or raises; a failed rollback has marked the runtime  *)
(* degraded, a settings draft may have set the authorization level.          *)
EndMutation(a) ==
    /\ api[a] = "mutates"
    /\ mutex' = None
    /\ api' = [api EXCEPT ![a] = "idle"]
    /\ \E bad \in BOOLEAN : down' = [down EXCEPT !.degraded = @ \/ bad]
    /\ level' \in 0..2
    /\ UNCHANGED <<current, cancelled, worker, choice, feed, late>>

(* stop_current_task() sets the token under _task_lock ... *)
Flag(a, next) ==
    /\ cancelled' = IF current = None THEN cancelled ELSE cancelled \cup {current}
    /\ api' = [api EXCEPT ![a] = next]

Stop(a) ==
    /\ api[a] = "idle" /\ current # None
    /\ Flag(a, "stops")
    /\ UNCHANGED <<current, worker, choice, level, mutex, down, feed, late>>

(* ... and then answers the approvals that wait at that moment.  An approval *)
(* that offers no stop, such as the plan's, gets its default: to run.        *)
Waiting == {t \in Turn : worker[t].at = "asking"}
StopChoice(t) == IF worker[t].about = "tool" THEN "stop" ELSE "run"

Sweep(a) ==
    /\ api[a] \in {"stops", "closes"}
    /\ \/ Waiting = {} /\ UNCHANGED choice
       \/ \E t \in Waiting : choice' = StopChoice(t)
    /\ api' = [api EXCEPT ![a] = IF @ = "stops" THEN "idle" ELSE "joins"]
    /\ UNCHANGED <<current, cancelled, worker, level, mutex, down, feed, late>>

(* resolve_approval(): the last choice set before the worker wakes counts; a  *)
(* number out of range becomes the default.  A request whose worker has woken *)
(* is still found and answered with no effect: no step of this module.        *)
Resolve ==
    /\ Waiting # {}
    /\ choice' \in Choices
    /\ UNCHANGED <<current, cancelled, worker, level, mutex, api, down, feed, late>>

(* shutdown(): the first takes charge, any other returns at once. *)
Shutdown(a) ==
    /\ api[a] = "idle" /\ mutex = None
    /\ \/ /\ ~down.closing
          /\ down' = [down EXCEPT !.closing = TRUE]
          /\ Flag(a, "closes")
       \/ /\ down.closing
          /\ api' = [api EXCEPT ![a] = "dismissed"]
          /\ UNCHANGED <<down, cancelled>>
    /\ UNCHANGED <<current, worker, choice, level, mutex, feed, late>>

Running == {t \in Turn : worker[t].at \notin {"new", "gone"}}

(* join(timeout=5.0): the thread has ended, or the runtime is degraded and   *)
(* the agent is shut down under it.                                          *)
Join(a) ==
    /\ api[a] = "joins"
    /\ api' = [api EXCEPT ![a] = "shut"]
    /\ down' = [down EXCEPT !.degraded = @ \/ Running # {}]
    /\ UNCHANGED <<current, cancelled, worker, choice, level, mutex, feed, late>>

----------------------------------------------------------------------------
(* The worker: _run_message_worker() and run_interaction_events().          *)

Moves(t, at) == worker' = [worker EXCEPT ![t].at = at]

Starts(t) ==
    /\ worker[t].at = "born"
    /\ feed' = t
    /\ \E at \in {"plan", "loop"} : Moves(t, at)
    /\ UNCHANGED <<current, cancelled, choice, level, mutex, api, down, late>>

Asks(t, about) ==
    /\ worker' = [worker EXCEPT ![t].at = "asking", ![t].about = about]
    /\ choice' = None

(* Plan mode: the stream of the plan ends, is stopped, or fails. *)
PlanEnds(t) ==
    /\ worker[t].at = "plan"
    /\ \/ Asks(t, "plan")
       \/ Moves(t, "final") /\ UNCHANGED choice
    /\ UNCHANGED <<current, cancelled, level, mutex, api, down, feed, late>>

(* The token is read before each round; the request may not fit. *)
LoopTop(t) ==
    /\ worker[t].at = "loop"
    /\ \/ t \notin cancelled /\ Moves(t, "stream")
       \/ Moves(t, "final")
    /\ UNCHANGED <<current, cancelled, choice, level, mutex, api, down, feed, late>>

(* The stream is stopped at a chunk, fails, or ends with some tool calls. *)
StreamEnds(t) ==
    /\ worker[t].at = "stream"
    /\ \/ Moves(t, "final")
       \/ \E n \in 1..MaxCalls :
             worker' = [worker EXCEPT ![t].at = "call", ![t].left = n]
    /\ UNCHANGED <<current, cancelled, choice, level, mutex, api, down, feed, late>>

(* A tool that starts once its turn is cancelled is counted. *)
Runs(t) ==
    /\ Moves(t, "tool")
    /\ late' = [late EXCEPT ![t] = IF t \in cancelled THEN (IF @ < 2 THEN @ + 1 ELSE @) ELSE @]

(* The next call: its scope is within the level, or the user is asked.  A    *)
(* tool nobody knows has no scope, here 3, and asks whatever the level is.   *)
NextCall(t) ==
    /\ worker[t].at = "call"
    /\ \E scope \in 0..3 :
          \/ scope <= level /\ Runs(t) /\ UNCHANGED choice
          \/ scope > level /\ Asks(t, "tool") /\ UNCHANGED late
    /\ UNCHANGED <<current, cancelled, level, mutex, api, down, feed>>

(* _PendingApproval.wait(): a choice has been set ... *)
Answered(t) ==
    /\ worker[t].at = "asking" /\ choice # None
    /\ Moves(t, "answered")
    /\ UNCHANGED <<current, cancelled, choice, level, mutex, api, down, feed, late>>

(* Mutant: the wait has no timeout. *)
WaitsForEver(t) ==
    /\ worker[t].at = "asking" /\ choice = None /\ t \notin cancelled
    /\ Moves(t, "answered")
    /\ choice' = "run"
    /\ UNCHANGED <<current, cancelled, level, mutex, api, down, feed, late>>

(* ... or 3600 s have passed and the default, to run, is taken.               *)
TimesOut(t) ==
    /\ worker[t].at = "asking" /\ choice = None
    /\ Moves(t, "answered")
    /\ choice' = "run"
    /\ UNCHANGED <<current, cancelled, level, mutex, api, down, feed, late>>

(* Mutant: the token is only read when the calls of a round are done. *)
AfterCallAnyway(t) ==
    LET more == worker[t].left > 1
    IN  worker' = [worker EXCEPT
          ![t].left = @ - 1,
          ![t].at = IF more THEN "call" ELSE IF t \in cancelled THEN "final" ELSE "loop"]

(* What happens once a call has its result. *)
AfterCall(t) ==
    LET more == worker[t].left > 1 /\ t \notin cancelled
    IN  worker' = [worker EXCEPT
          ![t].left = @ - 1,
          ![t].at = IF t \in cancelled THEN "final" ELSE IF more THEN "call" ELSE "loop"]

(* The request is removed and the choice acted upon; raising the level saves *)
(* the configuration, which may fail and end the turn.                       *)
TakesChoice(t) ==
    /\ worker[t].at = "answered"
    /\ \/ /\ worker[t].about = "plan"
          /\ Moves(t, IF choice = "skip" THEN "final" ELSE "loop")
          /\ UNCHANGED <<level, late>>
       \/ /\ worker[t].about = "tool"
          /\ \/ choice = "run" /\ Runs(t) /\ UNCHANGED level
             \/ choice = "skip" /\ AfterCall(t) /\ UNCHANGED <<level, late>>
             \/ /\ choice = "raise"
                /\ level' = IF level = 1 THEN 2 ELSE 1
                /\ Runs(t) \/ (Moves(t, "final") /\ UNCHANGED late)
             \/ choice = "stop" /\ Moves(t, "final") /\ UNCHANGED <<level, late>>
    /\ choice' = None
    /\ UNCHANGED <<current, cancelled, mutex, api, down, feed>>

ToolEnds(t) ==
    /\ worker[t].at = "tool"
    /\ AfterCall(t)
    /\ UNCHANGED <<current, cancelled, choice, level, mutex, api, down, feed, late>>

(* The finally: one hold of _task_lock clears the turn and announces its end. *)
Finishes(t) ==
    /\ worker[t].at = "final"
    /\ Moves(t, "gone")
    /\ current' = IF current = t THEN None ELSE current
    /\ feed' = None
    /\ UNCHANGED <<cancelled, choice, level, mutex, api, down, late>>

(* What the worker does but for the end of a tool. *)
Proceeds(t) ==
    \/ Starts(t) \/ PlanEnds(t) \/ LoopTop(t) \/ StreamEnds(t) \/ NextCall(t)
    \/ Answered(t) \/ TimesOut(t) \/ TakesChoice(t) \/ Finishes(t)

WorkerSteps(t) == Proceeds(t) \/ ToolEnds(t)

Next ==
    \/ \E t \in Turn : Submit(t) \/ WorkerSteps(t)
    \/ \E a \in Api : \/ BeginMutation(a) \/ EndMutation(a) \/ Stop(a) \/ Sweep(a)
                      \/ Shutdown(a) \/ Join(a)
    \/ Resolve

(* Threads that can run do run, streams end and waits time out.  A tool may *)
(* never return: Python code and skills run in the worker with no bound, and *)
(* the shell's timeout is one of inactivity.                                 *)
RuntimeFairness ==
    /\ \A t \in Turn : WF_runtimeVars(Proceeds(t))
    /\ \A a \in Api : WF_runtimeVars(EndMutation(a) \/ Sweep(a) \/ Join(a))

Spec == Init /\ [][Next]_runtimeVars /\ RuntimeFairness

(* Every tool that starts returns. *)
ToolsReturn == \A t \in Turn : WF_runtimeVars(ToolEnds(t))

----------------------------------------------------------------------------
(* A callback of run_mutation() never runs beside a turn's worker, nor two   *)
(* workers beside each other: neither sees the other's changes to the        *)
(* configuration and the sessions half made.                                 *)
MutationsRunAlone ==
    /\ Running # {} => (mutex = None \/ api[mutex] # "mutates")
    /\ \A t, u \in Running : t = u

(* After stop_current_task() has set the token of a turn, that turn starts   *)
(* at most one more tool: the one it was about to run or to ask for.         *)
AtMostOneMore == \A t \in Turn : late[t] <= 1

(* The shutdown in charge, once it has returned, leaves no worker behind or  *)
(* says so.  One that found another in charge returns at once and promises   *)
(* nothing of its own: the one in charge is under way, or has returned.      *)
ShutdownIsHonest ==
    /\ (\E a \in Api : api[a] = "shut") => Running = {} \/ down.degraded
    /\ (\E a \in Api : api[a] = "dismissed") =>
          \E b \in Api : api[b] \in {"closes", "joins", "shut"}

(* A turn whose stop was requested ends, if tools return, also when it asks  *)
(* for an approval that the stop came too early to answer.                   *)
StoppedTurnsEnd ==
    ToolsReturn => \A t \in Turn : t \in cancelled ~> worker[t].at = "gone"

(* What a stop and a shutdown promise the user holds, however they race with *)
(* approvals, tools and each other.                                          *)
StopsAreKept == AtMostOneMore /\ ShutdownIsHonest
=============================================================================
