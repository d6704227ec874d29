--------------------------- MODULE ProviderStream ---------------------------
(***************************************************************************)
(* One provider round: the request is opened with bounded retries          *)
(* (providers/base.py), the frames of the answer are turned into provider  *)
(* events by one of the three adapters (providers/openai_chat.py,          *)
(* openai_responses.py, anthropic.py), and the turn engine takes the       *)
(* events one at a time while it races each of them against the            *)
(* cancellation of the turn (engine/turns.py, _provider_round).            *)
(*                                                                         *)
(* The adapters are generators: a frame is read only when the engine asks  *)
(* for the next event and none is left of the last frame (ready).  The     *)
(* server is external; it follows its protocol, but it may report an       *)
(* error, send what is not JSON, break the connection, or end the answer   *)
(* anywhere.  The arguments of a tool call arrive in size[i] fragments; a  *)
(* proper prefix of them is not JSON, and no text at all reads as {}.      *)
(***************************************************************************)
EXTENDS Integers, Sequences

CONSTANTS MaxRetries,   \* ProviderOptions.max_retries
          MaxCalls      \* tool calls of one answer (a bound)

VARIABLES kind,      \* the provider kind of the profile
          gen,       \* the generator: opening, waiting, reading, spent
          attempt,   \* the attempts made before this one
          streamed,  \* fragments of each call the server has sent, None before its start
          size,      \* fragments the arguments of each call have
          over,      \* calls whose end the server has announced
          said,      \* what the server has said of the whole answer
          calls,     \* the adapter's table: fragments held of each call, None when absent
          emitted,   \* calls the adapter has yielded
          ready,     \* events of the last frame not yet taken
          cancelled, \* the token of the turn
          settled,   \* the engine has seen a completed event
          verdicts,  \* terminal events the engine was given
          heard,     \* the tool calls of the round
          round      \* the outcome of the round

vars == <<kind, gen, attempt, streamed, size, over, said, calls, emitted, ready,
          cancelled, settled, verdicts, heard, round>>

server  == <<kind, size, streamed, over, said>>
engine  == <<cancelled, settled, verdicts, heard, round>>

None  == -1
Index == 1..MaxCalls
Kinds == {"chat", "responses", "anthropic"}

Event(k)   == [kind |-> k, index |-> 0, args |-> 0]
Text       == Event("content")
Usage      == Event("usage")
Completed  == Event("completed")
Failed     == Event("failed")

(* Mutant: a prefix of the arguments is taken. *)
ParsesPrefix(table, i) == TRUE

(* parse_arguments: the whole text, or none. *)
Parses(table, i)   == table[i] \in {0, size[i]}
ToolCall(table, i) == IF Parses(table, i)
                      THEN [kind |-> "tool_call", index |-> i, args |-> table[i]]
                      ELSE Failed

Init == /\ kind \in Kinds \cup {"other"}
        /\ size \in [Index -> {0, 2}]
        /\ gen = "opening" /\ attempt = 0
        /\ streamed = [i \in Index |-> None] /\ over = {} /\ said = "nothing"
        /\ calls = [i \in Index |-> None] /\ emitted = {}
        /\ ready = <<>>
        /\ cancelled = FALSE /\ settled = FALSE /\ verdicts = 0
        /\ heard = <<>> /\ round = "running"

Pulled == round = "running" /\ ready = <<>>

(* The generator yields these events; then it reads on, or it is spent. *)
Yield(events, next) == ready' = events /\ gen' = next

-----------------------------------------------------------------------------
(* Opening the request. *)

(* The router finds no adapter for the profile's kind. *)
Unsupported == /\ Pulled /\ gen = "opening" /\ kind = "other"
               /\ Yield(<<Failed>>, "spent")
               /\ UNCHANGED <<server, attempt, calls, emitted, engine>>

(* The secret cannot be read or the request not be built: the generator     *)
(* raises, and the round is an invalid stream.                              *)
Raise == /\ Pulled /\ gen = "opening" /\ attempt = 0
         /\ gen' = "spent" /\ round' = "invalid"
         /\ UNCHANGED <<server, attempt, calls, emitted, ready, cancelled, settled, verdicts, heard>>

(* A connection error, or a status the failure table calls retryable: one   *)
(* more attempt after the backoff, as long as there is one.                 *)
Retry == /\ Pulled /\ gen = "opening" /\ kind \in Kinds /\ ~cancelled
         /\ IF attempt < MaxRetries
            THEN Yield(<<>>, "waiting")
            ELSE Yield(<<Failed>>, "spent")
         /\ UNCHANGED <<server, attempt, calls, emitted, engine>>

(* A status no retry helps with, or a token cancelled before the attempt.   *)
Refused == /\ Pulled /\ gen = "opening" /\ kind \in Kinds
           /\ Yield(<<Failed>>, "spent")
           /\ UNCHANGED <<server, attempt, calls, emitted, engine>>

(* Mutant: the attempts are not counted. *)
BackoffForEver == /\ Pulled /\ gen = "waiting"
                  /\ IF cancelled THEN Yield(<<Failed>>, "spent") ELSE Yield(<<>>, "opening")
                  /\ UNCHANGED <<server, attempt, calls, emitted, engine>>

Backoff == /\ Pulled /\ gen = "waiting"
           /\ IF cancelled
              THEN Yield(<<Failed>>, "spent") /\ UNCHANGED attempt
              ELSE Yield(<<>>, "opening") /\ attempt' = attempt + 1
           /\ UNCHANGED <<server, calls, emitted, engine>>

Opened == /\ Pulled /\ gen = "opening" /\ kind \in Kinds /\ ~cancelled
          /\ Yield(<<>>, "reading")
          /\ UNCHANGED <<server, attempt, calls, emitted, engine>>

-----------------------------------------------------------------------------
(* Reading the answer: what every adapter does with a frame. *)

Reads == Pulled /\ gen = "reading"

(* The server may still send parts of the answer. *)
Unfinished == said \in {"nothing", "text"}
Speaking   == Reads /\ Unfinished

(* A frame that arrives after the cancellation ends the stream. *)
Interrupted == /\ Reads /\ cancelled
               /\ Yield(<<Failed>>, "spent")
               /\ UNCHANGED <<server, attempt, calls, emitted, engine>>

(* An error of the server, a frame that is not JSON, or a read that fails. *)
Breaks == /\ Reads /\ ~cancelled
          /\ Yield(<<Failed>>, "spent")
          /\ said' = "error"
          /\ UNCHANGED <<kind, size, streamed, over, attempt, calls, emitted, engine>>

(* One piece of text stands for all of them. *)
Says == /\ Speaking /\ ~cancelled /\ said = "nothing"
        /\ Yield(<<Text>>, "reading")
        /\ said' = "text"
        /\ UNCHANGED <<kind, size, streamed, over, attempt, calls, emitted, engine>>

Starts(i) == /\ Speaking /\ ~cancelled /\ streamed[i] = None
             /\ \A j \in Index : j < i => streamed[j] # None
             /\ streamed' = [streamed EXCEPT ![i] = 0]
             /\ calls' = [calls EXCEPT ![i] = 0]
             /\ Yield(<<>>, "reading")
             /\ UNCHANGED <<kind, size, over, said, attempt, emitted, engine>>

Argues(i) == /\ Speaking /\ ~cancelled /\ streamed[i] \in 0..(size[i] - 1)
             /\ streamed' = [streamed EXCEPT ![i] = @ + 1]
             /\ calls' = [calls EXCEPT ![i] = @ + 1]
             /\ Yield(<<>>, "reading")
             /\ UNCHANGED <<kind, size, over, said, attempt, emitted, engine>>

Begun     == {i \in Index : streamed[i] # None}
AllSent   == \A i \in Begun : streamed[i] = size[i]

-----------------------------------------------------------------------------
(* Chat Completions: the calls are yielded together, once. *)

(* The calls in the table: they start in the order of their indexes. *)
Held == CHOOSE n \in 0..MaxCalls : {i \in Index : calls[i] # None} = 1..n

(* _tool_events: in the order of the indexes, up to one that is no JSON. *)
ToolEvents == LET last == CHOOSE n \in 0..Held :
                             /\ n = Held \/ ~Parses(calls, n + 1)
                             /\ \A i \in 1..n : Parses(calls, i)
              IN [i \in 1..(IF last = Held THEN last ELSE last + 1) |-> ToolCall(calls, i)]
Broken(events) == \E k \in DOMAIN events : events[k] = Failed

(* The chunk with the finish reason; not every server says "tool_calls". *)
ChatFinish == /\ Speaking /\ ~cancelled /\ kind = "chat" /\ AllSent
              /\ said' = "finished"
              /\ \/ /\ Begun # {}
                    /\ Yield(ToolEvents, "reading")
                    /\ emitted' = Begun
                 \/ Yield(<<>>, "reading") /\ UNCHANGED emitted
              /\ UNCHANGED <<kind, size, streamed, over, attempt, calls, engine>>

ChatUsage == /\ Reads /\ ~cancelled /\ kind = "chat" /\ said = "finished"
             /\ said' = "counted"
             /\ Yield(<<Usage>>, "reading")
             /\ UNCHANGED <<kind, size, streamed, over, attempt, calls, emitted, engine>>

(* What is left to yield at [DONE] and at the end of the answer. *)
ChatLast == LET events == IF emitted = {} THEN ToolEvents ELSE <<>>
            IN IF Broken(events) THEN events ELSE Append(events, Completed)

ChatDone == /\ Reads /\ ~cancelled /\ kind = "chat" /\ said \in {"finished", "counted"}
            /\ Yield(ChatLast, "spent")
            /\ UNCHANGED <<server, attempt, calls, emitted, engine>>

-----------------------------------------------------------------------------
(* Responses: a call is yielded when its arguments, or its item, are done. *)

ResponsesCallDone(i) ==
  /\ Reads /\ ~cancelled /\ kind = "responses"
  /\ i \in Begun /\ streamed[i] = size[i] /\ Unfinished
  /\ over' = over \cup {i}
  /\ IF i \notin emitted
     THEN /\ Yield(<<ToolCall(calls, i)>>, IF Parses(calls, i) THEN "reading" ELSE "spent")
          /\ emitted' = emitted \cup {i}
     ELSE Yield(<<>>, "reading") /\ UNCHANGED emitted
  /\ UNCHANGED <<kind, size, streamed, said, attempt, calls, engine>>

(* response.completed yields the completed event and reads on. *)
ResponsesCompleted == /\ Speaking /\ ~cancelled /\ kind = "responses" /\ over = Begun
                      /\ said' = "completed"
                      /\ Yield(<<Usage, Completed>>, "reading")
                      /\ UNCHANGED <<kind, size, streamed, over, attempt, calls, emitted, engine>>

-----------------------------------------------------------------------------
(* Anthropic: a call leaves the table, and is yielded, when its block ends. *)

AnthropicStop(i) == /\ Speaking /\ ~cancelled /\ kind = "anthropic"
                    /\ i \in Begun \ over /\ streamed[i] = size[i]
                    /\ over' = over \cup {i}
                    /\ calls' = [calls EXCEPT ![i] = None]
                    /\ emitted' = emitted \cup {i}
                    /\ Yield(<<ToolCall(calls, i)>>, "reading")
                    /\ UNCHANGED <<kind, size, streamed, said, attempt, engine>>

AnthropicMessageStop == /\ Speaking /\ ~cancelled /\ kind = "anthropic" /\ over = Begun
                        /\ said' = "completed"
                        /\ Yield(<<Usage, Completed>>, "spent")
                        /\ UNCHANGED <<kind, size, streamed, over, attempt, calls, emitted, engine>>

-----------------------------------------------------------------------------
(* The end of the answer, which the server may reach at any time. *)

AtTheEnd == CASE kind = "chat"      -> ChatLast
              [] kind = "responses" -> IF said = "completed" THEN <<>> ELSE <<Completed>>
              [] kind = "anthropic" -> <<Usage, Completed>>

Ends == /\ Reads
        /\ said' = IF Unfinished THEN "cut" ELSE said
        /\ Yield(IF cancelled THEN <<Failed>> ELSE AtTheEnd, "spent")
        /\ UNCHANGED <<kind, size, streamed, over, attempt, calls, emitted, engine>>

-----------------------------------------------------------------------------
(* The engine. *)

Verdict(e) == e.kind \in {"completed", "failed"}

Take == /\ round = "running" /\ ~cancelled /\ ready # <<>>
        /\ LET e == Head(ready)
           IN /\ verdicts' = verdicts + (IF Verdict(e) THEN 1 ELSE 0)
              /\ settled' = (settled \/ Verdict(e))
              /\ heard' = IF e.kind = "tool_call" /\ ~settled THEN Append(heard, e) ELSE heard
              /\ round' = CASE settled           -> "invalid"
                            [] e.kind = "failed"  -> "failed"
                            [] OTHER              -> "running"
        /\ ready' = Tail(ready)
        /\ UNCHANGED <<server, gen, attempt, calls, emitted, cancelled>>

Stop == /\ Pulled /\ gen = "spent" /\ ~cancelled
        /\ round' = IF settled THEN "ok" ELSE "invalid"
        /\ UNCHANGED <<server, gen, attempt, calls, emitted, ready, cancelled, settled, verdicts, heard>>

Cancel == /\ round = "running" /\ ~cancelled
          /\ cancelled' = TRUE
          /\ UNCHANGED <<server, gen, attempt, calls, emitted, ready, settled, verdicts, heard, round>>

(* The wait for the next event finds the token cancelled. *)
Halt == /\ round = "running" /\ cancelled
        /\ round' = "cancelled" /\ ready' = <<>> /\ gen' = "spent"
        /\ UNCHANGED <<server, attempt, calls, emitted, cancelled, settled, verdicts, heard>>

Open  == Unsupported \/ Raise \/ Retry \/ Refused \/ Backoff \/ Opened
Frame == \/ Interrupted \/ Breaks \/ Says \/ Ends
         \/ \E i \in Index : Starts(i) \/ Argues(i) \/ ResponsesCallDone(i) \/ AnthropicStop(i)
         \/ ChatFinish \/ ChatUsage \/ ChatDone
         \/ ResponsesCompleted \/ AnthropicMessageStop
Step  == Open \/ Frame \/ Take \/ Stop \/ Halt
Next  == Step \/ Cancel

Spec == Init /\ [][Next]_vars

(* The connection has a read timeout and the engine awaits every event, so  *)
(* a round that can go on does; nobody has to cancel it.                    *)
FairSpec == Spec /\ WF_vars(Step)

-----------------------------------------------------------------------------
(* The tool calls of a successful round are those of the answer: each call  *)
(* the server made is there once, none is there that it did not make, and   *)
(* no error of the server was passed over - unless the server ended its     *)
(* answer early, which no adapter tells from a finished one.                *)
SuccessIsWhole == round = "ok" =>
  /\ said # "error"
  /\ said # "cut" => {heard[k].index : k \in DOMAIN heard} = Begun
  /\ \A k, l \in DOMAIN heard : heard[k].index = heard[l].index => k = l

(* A call the engine may execute has the arguments the server wrote.  The   *)
(* exception is the one the code has: the chat adapter yields a call whose  *)
(* arguments never arrived, with {}, when the answer is cut.                *)
NoHalfCall == \A k \in DOMAIN heard :
  \/ heard[k].args = size[heard[k].index]
  \/ kind = "chat" /\ said = "cut" /\ heard[k].args = 0

(* No answer reaches the tools in part, with calls missing, repeated or     *)
(* cut, under whichever protocol it was streamed.                           *)
CallsAreWhole == SuccessIsWhole /\ NoHalfCall

(* Retries are bounded and every answer ends, so every round of the engine  *)
(* does: providers/base.py _open_with_retries, engine/turns.py              *)
(* _provider_round.                                                         *)
RoundEnds == <>(round # "running")

(* docs/kernel/runtime.md: a stream is followed by exactly one completed or *)
(* failed event.                                                            *)
OneVerdict == verdicts <= 1
=============================================================================
