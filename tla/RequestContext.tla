--------------------------- MODULE RequestContext ---------------------------
(***************************************************************************)
(* What a provider is asked: the history a turn builds (engine/turns.py,   *)
(* _execute), compacts when the context runs full (engine/context.py and   *)
(* _compact), and turns into the items of a request for each kind of       *)
(* provider (providers/serialization.py), over the turns of one session.   *)
(*                                                                         *)
(* A message is a record of its role, its turn and the tool calls it       *)
(* carries.  Token counts are left out: whether a compaction is due, and   *)
(* how many turns trimming drops, is any choice the code could make.       *)
(***************************************************************************)
EXTENDS Selections

CONSTANTS MaxTurns,   \* turns of the session (a bound)
          MaxRounds,  \* max_tool_rounds
          MaxCalls    \* tool calls of one answer (a bound)

VARIABLES preserve,  \* preserve_recent_turns
          session,   \* the saved messages
          latest,    \* the number of the running, or last, turn
          stage,     \* idle, loop, asked, tools
          history,   \* the messages of the running turn
          due,       \* tool calls of the last answer, not executed yet
          rounds,    \* tool rounds of the turn
          rescued,   \* the emergency compaction was used
          request,   \* the messages last sent for an answer
          short      \* turns that did not run to their end

vars == <<preserve, session, latest, stage, history, due, rounds, rescued, request, short>>

Message(role, calls) == [role |-> role, turn |-> latest, calls |-> calls]
Prompted(n)          == [role |-> "user", turn |-> n, calls |-> {}]
User(m)    == m.role = "user"
Smaller(a, b) == IF a < b THEN a ELSE b
Larger(a, b)  == IF a < b THEN b ELSE a

Init == /\ preserve \in 0..2
        /\ session = <<>> /\ history = <<>> /\ request = <<>>
        /\ latest = 0 /\ stage = "idle" /\ due = <<>>
        /\ rounds = 0 /\ rescued = FALSE /\ short = {}

-----------------------------------------------------------------------------
(* The packer. *)

(* Mutant: the last messages are kept, wherever a turn begins. *)
LastMessages(h, n) == IF n = 0 THEN <<>> ELSE SubSeq(h, Larger(1, Len(h) - n), Len(h))

(* _split_turns: the positions where turns begin; what is before the first  *)
(* is the prefix.                                                           *)
Starts(h)     == {k \in DOMAIN h : User(h[k])}
Turns(h)      == Cardinality(Starts(h))
Prefix(h)     == IF Starts(h) = {} THEN h ELSE SubSeq(h, 1, Nth(Starts(h), 1) - 1)
LastTurns(h, n) == IF n = 0 THEN <<>> ELSE SubSeq(h, Nth(Starts(h), Turns(h) - n + 1), Len(h))

(* source_and_retained: how many of the turns are kept. *)
Preserved(h, emergency) ==
  LET n == Turns(h)
      p == Smaller(n, preserve)
  IN IF emergency /\ n <= p THEN Smaller(1, n) ELSE p

(* insert_summary and trim_to_target: the summary goes behind the prefix,   *)
(* and trimming drops whole turns, the oldest first.                        *)
Compactions(h, emergency) ==
  LET kept    == Preserved(h, emergency)
      summary == IF Turns(h) > kept THEN <<Message("summary", {})>> ELSE <<>>
      minimum == Smaller(kept, Larger(1, IF emergency THEN 1 ELSE preserve))
  IN {Prefix(h) \o summary \o LastTurns(h, n) : n \in minimum..kept}

-----------------------------------------------------------------------------
(* The turn. *)

Prompt == /\ stage = "idle" /\ latest < MaxTurns
          /\ latest' = latest + 1
          /\ stage' = "loop"
          /\ history' = Append(session, Prompted(latest + 1))
          /\ rounds' = 0 /\ rescued' = FALSE
          /\ UNCHANGED <<preserve, session, due, request, short>>

Ask == /\ stage = "loop"
       /\ history' \in {history} \cup Compactions(history, FALSE)
       /\ request' = history'
       /\ stage' = "asked"
       /\ UNCHANGED <<preserve, session, latest, due, rounds, rescued, short>>

(* The provider finds the context too long: one emergency compaction. *)
Rescue == /\ stage = "asked" /\ ~rescued
          /\ rescued' = TRUE
          /\ history' \in Compactions(history, TRUE)
          /\ stage' = "loop"
          /\ UNCHANGED <<preserve, session, latest, due, rounds, request, short>>

Save(messages) == session' = messages \/ UNCHANGED session

Answered == /\ stage = "asked"
            /\ Save(Append(history, Message("assistant", {})))
            /\ stage' = "idle" /\ history' = <<>>
            /\ UNCHANGED <<preserve, latest, due, rounds, rescued, request, short>>

(* The answer calls tools: they are executed in order, unless the rounds    *)
(* are used up, which fails the turn with the calls in its history.         *)
Called(n) == /\ stage = "asked"
             /\ LET ids == [k \in 1..n |-> <<latest, rounds, k>>]
                    new == Append(history, Message("assistant", {ids[k] : k \in 1..n}))
                IN IF rounds < MaxRounds
                   THEN /\ history' = new /\ due' = ids /\ stage' = "tools"
                        /\ UNCHANGED <<session, short>>
                   ELSE /\ Save(new) /\ history' = <<>> /\ stage' = "idle"
                        /\ short' = short \cup {latest}
                        /\ UNCHANGED due
             /\ rounds' = rounds + 1
             /\ UNCHANGED <<preserve, latest, rescued, request>>

Executed == /\ stage = "tools"
            /\ history' = Append(history, Message("tool", {Head(due)}))
            /\ due' = Tail(due)
            /\ stage' = IF due' = <<>> THEN "loop" ELSE "tools"
            /\ UNCHANGED <<preserve, session, latest, rounds, rescued, request, short>>

(* The turn is stopped or fails: what it has is saved, with a marker when   *)
(* it was stopped and partial answers are kept.                             *)
CutShort == /\ stage \in {"loop", "asked", "tools"}
            /\ \/ Save(history)
               \/ Save(Append(history, Message("assistant", {})))
            /\ stage' = "idle" /\ history' = <<>> /\ due' = <<>>
            /\ short' = short \cup {latest}
            /\ UNCHANGED <<preserve, latest, rounds, rescued, request>>

Next == Prompt \/ Ask \/ Rescue \/ Answered \/ (\E n \in 1..MaxCalls : Called(n)) \/ Executed \/ CutShort

Spec == Init /\ [][Next]_vars

-----------------------------------------------------------------------------
(* The items of a request: a message of Chat Completions holds its calls,   *)
(* Responses lists them before the text of their message, and for Anthropic *)
(* the system messages leave the list.                                      *)

Piece(kind, calls) == [kind |-> kind, calls |-> calls]
Pieces(m, provider) ==
  CASE m.role = "tool"                                -> <<Piece("result", m.calls)>>
    [] provider = "anthropic" /\ m.role = "summary"   -> <<>>
    [] provider = "responses" /\ m.calls # {}         -> <<Piece("call", m.calls), Piece(m.role, {})>>
    [] provider # "responses" /\ m.calls # {}         -> <<Piece("call", m.calls)>>
    [] OTHER                                          -> <<Piece(m.role, {})>>
(* The places of the items of a request: <<k, p>> is piece p of message k,   *)
(* and the places are in the order of the list.                             *)
Places(provider) == {place \in (DOMAIN request) \X (1..2) :
                       place[2] \in DOMAIN Pieces(request[place[1]], provider)}
ItemAt(place, provider) == Pieces(request[place[1]], provider)[place[2]]
Before(a, b) == a[1] < b[1] \/ (a[1] = b[1] /\ a[2] < b[2])

Providers == {"chat", "responses", "anthropic"}

(* No request holds a tool result whose call is missing, or comes later:    *)
(* every provider rejects such a request, and with it every later turn.     *)
ResultsFollowCalls == \A provider \in Providers : \A b \in Places(provider) :
  ItemAt(b, provider).kind = "result" =>
    \E a \in Places(provider) : /\ Before(a, b) /\ ItemAt(a, provider).kind = "call"
                                /\ ItemAt(b, provider).calls \subseteq ItemAt(a, provider).calls

(* A call that is sent without its result is one of a turn that was stopped *)
(* or failed between the two, and that was saved like that.                 *)
UnansweredWereCutShort == \A k \in DOMAIN request :
  LET answered == UNION {request[j].calls : j \in {j \in DOMAIN request : request[j].role = "tool"}}
  IN request[k].role = "assistant" => \/ request[k].calls \subseteq answered
                                      \/ request[k].turn \in short

(* The prompt of the turn is in every request the turn sends, however often *)
(* the history is compacted - as long as one turn is preserved: with none,  *)
(* the compaction takes the prompt itself away.                             *)
PromptIsSent == (stage = "asked" /\ preserve > 0) =>
  \E k \in DOMAIN request : User(request[k]) /\ request[k].turn = latest

(* Whatever was compacted, rescued, stopped or saved before, a request is   *)
(* one the provider can take and holds the prompt of its turn.              *)
RequestsAreValid == ResultsFollowCalls /\ UnansweredWereCutShort /\ PromptIsSent
=============================================================================
