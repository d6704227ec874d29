--------------------------- MODULE LegacyContext ---------------------------
(* The history of one conversation of the legacy agent, and what the model   *)
(* is sent of it: the interaction loop (agent/interaction.py), run from the  *)
(* events of a frontend or from the console, appends to the history, makes   *)
(* room in it by a summary and by dropping the oldest turns, and sends it    *)
(* packed.  A message weighs one unit; texts and names are left out.         *)
EXTENDS Selections

CONSTANTS Settings,   \* records [enabled, compress, keep, trigger, target, safe],
                      \* with target at most trigger and safe
          MaxTurns,   \* bound: turns begun
          MaxAnswers, \* bound: answers of the model
          MaxCalls    \* bound: tool calls of one answer

VARIABLES history,   \* active.history
          at,        \* where the loop is
          front,     \* who runs it: "events" or "console"
          retried,   \* retry_count
          calls,     \* the calls of the round without a result
          cancelled, \* the turn's token
          settings,  \* config.context_management with the budgets it implies
          made       \* [turns, answers] so far, which name the messages

contextVars == <<history, at, front, retried, calls, cancelled, settings, made>>

Kinds == {"main", "runtime", "summary", "user", "answer", "result"}
Message(kind, of, n) == [kind |-> kind, of |-> of, n |-> n]
MainMessage == Message("main", 0, 0)
RuntimeState == Message("runtime", 0, 0)
Summary == Message("summary", 0, 0)
DefaultHistory == <<MainMessage, RuntimeState>>
IsSystem(m) == m.kind \in {"main", "runtime", "summary"}

ContextTypeOK ==
    /\ history \in Seq([kind : Kinds, of : 0..(MaxTurns + MaxAnswers), n : 0..MaxCalls])
    /\ at \in {"idle", "top", "room", "stream", "call"}
    /\ front \in {"events", "console"}
    /\ retried \in 0..1 /\ calls \in 0..MaxCalls /\ cancelled \in BOOLEAN
    /\ settings \in Settings
    /\ made \in [turns : 0..MaxTurns, answers : 0..MaxAnswers]

Init ==
    /\ history = DefaultHistory /\ at = "idle" /\ front = "events"
    /\ retried = 0 /\ calls = 0 /\ cancelled = FALSE
    /\ settings \in Settings
    /\ made = [turns |-> 0, answers |-> 0]

----------------------------------------------------------------------------
(* Turns of a history, its summary and its trimming.                        *)

(* split_complete_turns() *)
TurnStarts(h) == {i \in DOMAIN h : h[i].kind = "user"}
Turns(h) == Cardinality(TurnStarts(h))
Prefix(h) == IF TurnStarts(h) = {} THEN h ELSE SubSeq(h, 1, Nth(TurnStarts(h), 1) - 1)
TurnsFrom(h, k) == IF k \notin 1..Turns(h) THEN << >>
                   ELSE SubSeq(h, Nth(TurnStarts(h), k), Len(h))
LastStart(h) == Nth(TurnStarts(h), Turns(h))

(* compression_parts(): what a summary does not replace. *)
Compressible(h) == Turns(h) > settings.keep
Retained(h) == SubSeq(Prefix(h), 1, 2) \o TurnsFrom(h, Turns(h) - settings.keep + 1)

(* apply_summary() *)
WithSummary(h, retained) ==
    LET base == SubSeq(h, 1, 2)
    IN  base \o <<Summary>> \o (IF SubSeq(retained, 1, Len(base)) = base
                                THEN SubSeq(retained, Len(base) + 1, Len(retained))
                                ELSE retained)

(* Mutant: the oldest messages are dropped, whatever turn they are of. *)
RemovedMessages(h, k) == LET rest == TurnsFrom(h, 1)
                         IN  Prefix(h) \o SubSeq(rest, k + 1, Len(rest))

(* trim_oldest_to_budget(): the history after k removals.  The turns but the  *)
(* last go first, then the summaries before it.                               *)
Bare(h) == SubSeq(Prefix(h), 1, IF Len(Prefix(h)) >= 2 /\ Prefix(h)[2] = RuntimeState
                                THEN 2 ELSE 1)
Removed(h, k) ==
    LET turns == Turns(h)
    IN  IF k < turns \/ k = 0 THEN Prefix(h) \o TurnsFrom(h, k + 1)
                              ELSE Bare(h) \o TurnsFrom(h, turns)
Removals(h) == LET turns == Turns(h) IN
               (IF turns > 0 THEN turns - 1 ELSE 0) + (IF Bare(h) # Prefix(h) THEN 1 ELSE 0)
Trimmed(h, budget) ==
    LET fitting == {k \in 0..Removals(h) : Len(Removed(h, k)) <= budget}
    IN  Removed(h, IF fitting = {} THEN Removals(h)
                   ELSE CHOOSE k \in fitting : \A j \in fitting : k <= j)

----------------------------------------------------------------------------
(* What is sent: every system message folded into the first one.             *)

Packed(h) == <<MainMessage>> \o Picked(h, {i \in DOMAIN h : ~IsSystem(h[i])})

(* validate_history_invariants() and the pairing of the packer: what may be   *)
(* wrong with a history.                                                      *)
Asked(h, i) == \E j \in 1..(i - 1) :
    h[j].kind = "answer" /\ h[j].of = h[i].of /\ h[i].n <= h[j].n
Violations(h) ==
    {i \in DOMAIN h :
        \/ i = 1 /\ h[i] # MainMessage
        \/ h[i] = RuntimeState /\ i # 2
        \/ IsSystem(h[i]) /\ i > Len(Prefix(h))
        \/ h[i].kind = "result" /\ ~Asked(h, i)}
Unanswered(h) ==
    {i \in DOMAIN h : h[i].kind = "answer" /\ \E n \in 1..h[i].n :
        \A j \in DOMAIN h : h[j] # Message("result", h[i].of, n)}

----------------------------------------------------------------------------
(* A turn.                                                                   *)

Goes(place) == at' = place

(* The prompt is appended once the plan, in plan mode, is approved; a plan    *)
(* that is refused or fails appends nothing.                                  *)
Begin(by) ==
    /\ at = "idle" /\ made.turns < MaxTurns
    /\ history' = Append(history, Message("user", made.turns + 1, 0))
    /\ made' = [made EXCEPT !.turns = @ + 1]
    /\ Goes("top") /\ front' = by
    /\ cancelled' = FALSE /\ retried' = 0 /\ calls' = 0
    /\ UNCHANGED settings

StopTurn ==
    /\ at # "idle" /\ ~cancelled
    /\ cancelled' = TRUE
    /\ UNCHANGED <<history, at, front, retried, calls, settings, made>>

(* Ctrl+C at the console ends the turn wherever it is, and a process that is  *)
(* killed is started again with what the autosave wrote after each message;   *)
(* loading puts the main prompt and the runtime state where they are missing. *)
Loaded(h) == LET mended == <<MainMessage>> \o Tail(h)
             IN  IF Len(mended) >= 2 /\ mended[2] = RuntimeState THEN mended
                 ELSE <<MainMessage, RuntimeState>> \o Tail(mended)
Interrupted ==
    /\ at # "idle" /\ Goes("idle")
    /\ \/ front = "console" /\ UNCHANGED history
       \/ history' = Loaded(history)
    /\ UNCHANGED <<front, retried, calls, cancelled, settings, made>>

(* Only the loop of the events reads the token before a round. *)
Top ==
    /\ at = "top"
    /\ Goes(IF front = "events" /\ cancelled THEN "idle" ELSE "room")
    /\ retried' = 0
    /\ UNCHANGED <<history, front, calls, cancelled, settings, made>>

(* ensure_context_capacity(), in an emergency when the provider refused.  The *)
(* summary may fail; the turns are trimmed when it was not enough.            *)
Needed == retried > 0 \/ Len(history) >= settings.trigger \/ Len(history) > settings.safe
MakeRoom ==
    /\ at = "room"
    /\ \/ /\ ~Needed \/ (~settings.enabled /\ Len(history) <= settings.safe)
          /\ Goes("stream") /\ UNCHANGED history
       \/ /\ Needed /\ ~settings.enabled /\ Len(history) > settings.safe
          /\ Goes("idle") /\ UNCHANGED history
       \/ /\ Needed /\ settings.enabled
          /\ \E summarised \in {FALSE, settings.compress /\ Compressible(history)} :
                LET h == IF summarised THEN WithSummary(history, Retained(history))
                         ELSE history
                    target == settings.target
                IN  /\ history' = IF Len(h) > target THEN Trimmed(h, target) ELSE h
                    /\ Goes(IF Len(history') <= target THEN "stream" ELSE "idle")
    /\ UNCHANGED <<front, retried, calls, cancelled, settings, made>>

(* stream_response(): how the stream may end.  A request whose packing was    *)
(* bypassed is not sent; retries are over when a failure is told; a cancelled *)
(* token is seen at the next chunk, if there is one.                          *)
Failures == {"error", "context_error"}
Verdicts ==
    LET sent == Packed(history)
    IN  IF \E i \in 2..Len(sent) : IsSystem(sent[i]) THEN {"error"}
        ELSE Failures \cup {"completes"} \cup (IF cancelled THEN {"stopped"} ELSE {})

(* What was received before a stop is kept, or not, with the mark [stopped].  *)
Appends(m) == history' = Append(history, m)
Answer(n) == Message("answer", made.answers + 1, n)

StreamStopped ==
    /\ at = "stream" /\ "stopped" \in Verdicts /\ made.answers < MaxAnswers
    /\ Goes("idle")
    /\ \/ Appends(Answer(0)) /\ made' = [made EXCEPT !.answers = @ + 1]
       \/ UNCHANGED <<history, made>>
    /\ UNCHANGED <<front, retried, calls, cancelled, settings>>

(* An error ends the turn; the first refusal of the context is answered with  *)
(* an emergency compaction.                                                   *)
StreamFails ==
    /\ at = "stream"
    /\ \/ "error" \in Verdicts /\ Goes("idle") /\ UNCHANGED retried
       \/ "context_error" \in Verdicts /\ retried = 0 /\ Goes("room") /\ retried' = 1
       \/ "context_error" \in Verdicts /\ retried = 1 /\ Goes("idle") /\ UNCHANGED retried
    /\ UNCHANGED <<history, front, calls, cancelled, settings, made>>

StreamCompletes ==
    /\ at = "stream" /\ "completes" \in Verdicts /\ made.answers < MaxAnswers
    /\ \E n \in 0..MaxCalls :
          /\ Appends(Answer(n))
          /\ calls' = n
          /\ Goes(IF n = 0 THEN "idle" ELSE "call")
    /\ made' = [made EXCEPT !.answers = @ + 1]
    /\ UNCHANGED <<front, retried, cancelled, settings>>

(* The next call is run or rejected, and either way has a result. *)
HandleCall ==
    /\ at = "call"
    /\ LET asked == CHOOSE i \in DOMAIN history :
                       history[i].kind = "answer" /\ history[i].of = made.answers
       IN  Appends(Message("result", history[asked].of, history[asked].n - calls + 1))
    /\ calls' = calls - 1
    /\ Goes(IF cancelled THEN "idle" ELSE IF calls > 1 THEN "call" ELSE "top")
    /\ UNCHANGED <<front, retried, cancelled, settings, made>>

(* The user stops the task instead of answering, or saving the raised level   *)
(* fails: the calls that are left never get a result.                         *)
LeavesCalls ==
    /\ at = "call" /\ Goes("idle")
    /\ UNCHANGED <<history, front, retried, calls, cancelled, settings, made>>

----------------------------------------------------------------------------
(* Commands, between turns.                                                 *)

Compress ==
    /\ at = "idle" /\ Compressible(history)
    /\ history' = WithSummary(history, Retained(history))
    /\ UNCHANGED <<at, front, retried, calls, cancelled, settings, made>>

Undo ==
    /\ at = "idle" /\ TurnStarts(history) # {}
    /\ history' = SubSeq(history, 1, LastStart(history) - 1)
    /\ UNCHANGED <<at, front, retried, calls, cancelled, settings, made>>

ClearHistory ==
    /\ at = "idle"
    /\ history' = DefaultHistory
    /\ UNCHANGED <<at, front, retried, calls, cancelled, settings, made>>

Next ==
    \/ \E by \in {"events", "console"} : Begin(by)
    \/ StopTurn \/ Interrupted \/ Top \/ MakeRoom
    \/ StreamStopped \/ StreamFails \/ StreamCompletes \/ HandleCall \/ LeavesCalls
    \/ Compress \/ Undo \/ ClearHistory

Spec == Init /\ [][Next]_contextVars

----------------------------------------------------------------------------
(* Whatever was stopped, undone, summarised and trimmed before, a request     *)
(* that is sent fits the window, holds no result without its call, folds      *)
(* nothing but a prefix into the leading prompt, answers every call of the    *)
(* running turn, and - unless no turn is to be kept - still holds its prompt. *)
RequestsAreWhole == at = "stream" =>
    /\ Len(history) <= settings.safe
    /\ Violations(history) = {} /\ Violations(Packed(history)) = {}
    /\ settings.keep > 0 =>
         /\ TurnStarts(history) # {} /\ history[LastStart(history)].of = made.turns
         /\ \A i \in Unanswered(history) : i < LastStart(history)
=============================================================================
