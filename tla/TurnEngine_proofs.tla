-------------------------- MODULE TurnEngine_proofs --------------------------
(* Proofs about TurnEngine for any turns, sessions and limits: types, the  *)
(* lease, what the record of an ended turn holds, consent, and the         *)
(* refinement of TurnContract.                                             *)
EXTENDS TurnEngine, TLAPS

(* A registered run that has not ended. *)
Core(r) ==
    /\ r \in Run
    /\ r.status \notin Terminal
    /\ r.kept = NoExchange
    /\ r.exchange.results \subseteq r.exchange.calls
    /\ \A k, i : <<k, i>> \in r.exchange.calls => k <= r.round
    /\ r.exchange.last = "none" => r.exchange = NoExchange /\ r.ran = {}
    /\ \A c \in r.ran \ r.consent : Authorized(r.mode, c)

(* Between the calls of two rounds: nothing is unanswered. *)
Quiet(r) ==
    /\ Core(r)
    /\ r.round <= MaxRounds
    /\ Unanswered(r.exchange) = {}
    /\ r.ran \subseteq r.exchange.results

(* In the for loop over the calls of a round: the calls before the current *)
(* one are answered, the current one and those after it are not.           *)
AtCall(r) ==
    /\ Core(r)
    /\ r.exchange.last # "none"
    /\ r.round <= MaxRounds
    /\ \E n \in 1..MaxCalls :
          /\ r.index <= n
          /\ \A k, i : <<k, i>> \in Unanswered(r.exchange)
                           <=> k = r.round /\ i \in r.index..n
          /\ \A i : <<r.round, i>> \in r.exchange.calls => i <= n

(* The invariant of one run, by where it is suspended. *)
RunInv(r) ==
    /\ r \in Run
    /\ r.pc \in {"idle", "refused", "aborted"} \cup Submitting =>
          /\ r.status = "none" /\ r.kept = NoExchange
          /\ r.exchange = NoExchange /\ r.ran = {} /\ r.round = 0
    /\ r.pc \in {"accepted", "streaming", "arrived"} => Quiet(r)
    /\ r.pc = "asking" =>
          \/ r.stage = "plan" /\ Quiet(r)
          \/ /\ r.stage = "tool" /\ AtCall(r)
             /\ r.ran \subseteq r.exchange.results
             /\ r.mode # "yolo"
             /\ r.answer \in {"approve", "enable"} => CurrentCall(r) \in r.consent
    /\ r.pc = "calling" => AtCall(r) /\ r.ran \subseteq r.exchange.results
    /\ r.pc \in {"running", "bumping"} =>
          AtCall(r) /\ r.ran \subseteq r.exchange.results \cup {CurrentCall(r)}
    /\ r.pc = "saving" =>
          /\ Core(r) /\ r.exchange.last # "none"
          /\ r.verdict = "succeeded" =>
                r.exchange.last = "assistant" /\ Unanswered(r.exchange) = {}
          /\ r.verdict # "failed" => r.ran \subseteq r.exchange.results
    /\ r.pc = "done" =>
          /\ r.status \in Terminal
          /\ \A c \in r.ran \ r.consent : Authorized(r.mode, c)
          /\ r.status = "succeeded" =>
                \/ ToolsMayRaise
                \/ /\ r.kept = r.exchange /\ r.kept.last = "assistant"
                   /\ Unanswered(r.kept) = {}
          /\ r.status = "succeeded" => ToolsMayRaise \/ r.ran \subseteq r.kept.results
          /\ r.status = "cancelled" => r.kept = r.exchange /\ r.ran \subseteq r.kept.results

(* What a step may do to a cancelled run: start the MCP tool it is at, or  *)
(* record the result of its call and leave the loop.                       *)
Halts(r, q) ==
    r.token =>
        /\ \/ q.ran = r.ran
           \/ q.ran = r.ran \cup {CurrentCall(r)} /\ CurrentCall(r) \in Mcp
        /\ q.exchange.results # r.exchange.results => q.pc = "saving"

(* A step of the engine takes the run r to q: on, or to an end, which is   *)
(* short of success unless a tool raised; a cancelled run halts.           *)
Leads(r, q) ==
    /\ RunInv(q)
    /\ q.pc \in Executing \cup {"done"}
    /\ q.pc # "done" => q.base = r.base
    /\ Halts(r, q)
    /\ q.pc = "done" /\ q.status = "succeeded" => ToolsMayRaise

LEMMA NewRunInv == RunInv(NewRun) /\ RunInv(Refused)
  <1>1. MaxRounds \in Nat /\ MaxCalls \in Nat  BY TurnAssumption
  <1>2. NoExchange \in Exchange  BY DEF NoExchange, Exchange
  <1>3. NewRun \in Run
    BY <1>1, <1>2 DEF NewRun, Run, Terminal, Status, Mode, Submitting, Executing, Live
  <1>4. Refused \in Run  BY <1>3 DEF Refused, Run
  <1>5. /\ NewRun.pc = "idle" /\ NewRun.status = "none" /\ NewRun.kept = NoExchange
        /\ NewRun.exchange = NoExchange /\ NewRun.ran = {} /\ NewRun.round = 0
    BY DEF NewRun
  <1>6. /\ Refused.pc = "refused" /\ Refused.status = "none" /\ Refused.kept = NoExchange
        /\ Refused.exchange = NoExchange /\ Refused.ran = {} /\ Refused.round = 0
    BY DEF Refused, NewRun
  <1> QED  BY <1>3, <1>4, <1>5, <1>6 DEF RunInv

(* Ending a run: what remains of it. *)
LEMMA FinishKeeps ==
    ASSUME NEW r \in Run, NEW v \in Terminal
    PROVE  /\ Finish(r, v) \in Run
           /\ Finish(r, v).pc = "done" /\ Finish(r, v).status = v
           /\ Finish(r, v).exchange = r.exchange /\ Finish(r, v).kept = r.kept
           /\ Finish(r, v).ran = r.ran /\ Finish(r, v).consent = r.consent
           /\ Finish(r, v).mode = r.mode
  <1>1. NewRun \in Run  BY NewRunInv DEF RunInv
  <1>2. v \in Status  BY DEF Status
  <1>3. Finish(r, v) \in Run  BY <1>1, <1>2 DEF Finish, Run
  <1> QED  BY <1>1, <1>3 DEF Finish, Run

LEMMA UnwindInv ==
    ASSUME NEW r, Core(r), NEW v \in Terminal,
           v = "succeeded" =>
               r.exchange.last = "assistant" /\ Unanswered(r.exchange) = {},
           v # "failed" => r.ran \subseteq r.exchange.results
    PROVE  /\ Leads(r, Unwind(r, v))
           /\ Unwind(r, v).ran = r.ran /\ Unwind(r, v).exchange = r.exchange
           /\ r.exchange.last # "none" => Unwind(r, v).pc = "saving"
  <1>0. r \in Run  BY DEF Core
  <1>1. CASE r.exchange.last = "none"
    <2>1. r.exchange = NoExchange /\ r.ran = {} /\ v # "succeeded" /\ r.kept = r.exchange
      BY <1>1 DEF Core
    <2>2. Unwind(r, v) = Finish(r, v)  BY <1>1 DEF Unwind
    <2>3. RunInv(Unwind(r, v))  BY <1>0, <2>1, <2>2, FinishKeeps DEF RunInv, Submitting
    <2> QED  BY <1>0, <1>1, <2>1, <2>2, <2>3, FinishKeeps DEF Leads, Halts
  <1>2. CASE r.exchange.last # "none"
    <2> DEFINE q == [r EXCEPT !.pc = "saving", !.verdict = v]
    <2>1. Unwind(r, v) = q  BY <1>2 DEF Unwind
    <2>2. q \in Run  BY <1>0, ZenonT(60) DEF Run, Live, Executing
    <2>3. /\ q.pc = "saving" /\ q.verdict = v /\ q.status = r.status /\ q.kept = r.kept
          /\ q.exchange = r.exchange /\ q.round = r.round /\ q.ran = r.ran
          /\ q.consent = r.consent /\ q.mode = r.mode /\ q.base = r.base
      BY <1>0 DEF Run
    <2> HIDE DEF q
    <2>4. Core(q)  BY <2>2, <2>3 DEF Core
    <2>5. RunInv(q)  BY <1>2, <2>2, <2>3, <2>4 DEF RunInv, Submitting
    <2> QED  BY <2>1, <2>3, <2>5 DEF Leads, Halts, Executing
  <1> QED  BY <1>1, <1>2

(* Suspending a quiet run in a stream. *)
LEMMA StreamInv ==
    ASSUME NEW r, Quiet(r), NEW st \in {"plan", "summary", "emergency", "chat"}
    PROVE  Leads(r, Stream(r, st))
  <1>0. r \in Run  BY DEF Quiet, Core
  <1> DEFINE q == Stream(r, st)
  <1>1. q \in Run  BY <1>0, ZenonT(60) DEF Run, Live, Executing, Stream
  <1>2. /\ q.pc = "streaming" /\ q.status = r.status /\ q.kept = r.kept
        /\ q.exchange = r.exchange /\ q.round = r.round /\ q.ran = r.ran
        /\ q.consent = r.consent /\ q.mode = r.mode /\ q.base = r.base
    BY <1>0 DEF Run, Stream
  <1> HIDE DEF q
  <1>3. Quiet(q)  BY <1>1, <1>2 DEF Quiet, Core
  <1>4. RunInv(q)  BY <1>1, <1>2, <1>3 DEF RunInv, Submitting
  <1>5. Leads(r, q)  BY <1>2, <1>4 DEF Leads, Halts, CurrentCall, Executing
  <1> QED  BY <1>5 DEF q

LEMMA LoopTopInv ==
    ASSUME NEW r, Quiet(r)
    PROVE  \A q \in LoopTop(r) : Leads(r, q)
  <1>1. CASE r.token
    <2>1. Leads(r, Unwind(r, "cancelled"))  BY UnwindInv DEF Quiet, Terminal
    <2> QED  BY <1>1, <2>1 DEF LoopTop
  <1>2. CASE ~r.token
    <2>1. Leads(r, Stream(r, "chat")) /\ Leads(r, Stream(r, "summary"))  BY StreamInv
    <2> QED  BY <1>2, <2>1 DEF LoopTop
  <1> QED  BY <1>1, <1>2

(* The user message changes the last message only. *)
LEMMA BeginChatInv ==
    ASSUME NEW r, Quiet(r)
    PROVE  \A q \in BeginChat(r) : Leads(r, q)
  <1>0. r \in Run  BY DEF Quiet, Core
  <1>1. CASE r.token
    <2>1. Leads(r, Unwind(r, "cancelled"))  BY UnwindInv DEF Quiet, Terminal
    <2> QED  BY <1>1, <2>1 DEF BeginChat
  <1>2. CASE ~r.token
    <2> DEFINE p == [r EXCEPT !.exchange.last = "user"]
    <2>1. p \in Run  BY <1>0 DEF Run, Exchange
    <2>2. /\ p.status = r.status /\ p.kept = r.kept /\ p.round = r.round
          /\ p.ran = r.ran /\ p.consent = r.consent /\ p.mode = r.mode
          /\ p.exchange.calls = r.exchange.calls
          /\ p.exchange.results = r.exchange.results /\ p.exchange.last = "user"
          /\ p.base = r.base /\ p.token = r.token
      BY <1>0 DEF Run, Exchange
    <2>3. BeginChat(r) = LoopTop(p)  BY <1>2 DEF BeginChat
    <2> HIDE DEF p
    <2>4. Quiet(p)  BY <2>1, <2>2 DEF Quiet, Core, Unanswered
    <2> QED  BY <1>2, <2>2, <2>3, <2>4, LoopTopInv DEF Leads, Halts
  <1> QED  BY <1>1, <1>2

(* A request for approval, or its refusal once the broker is closed. *)
LEMMA AskPlanInv ==
    ASSUME NEW r, Quiet(r)
    PROVE  Leads(r, Ask(r, "plan"))
  <1>0. r \in Run  BY DEF Quiet, Core
  <1>1. CASE closed
    <2>1. Leads(r, Unwind(r, "failed"))  BY UnwindInv DEF Quiet, Terminal
    <2> QED  BY <1>1, <2>1 DEF Ask
  <1>2. CASE ~closed
    <2> DEFINE q == [r EXCEPT !.pc = "asking", !.stage = "plan", !.answer = "none"]
    <2>1. Ask(r, "plan") = q  BY <1>2 DEF Ask
    <2>2. q \in Run  BY <1>0, ZenonT(60) DEF Run, Live, Executing
    <2>3. /\ q.pc = "asking" /\ q.stage = "plan" /\ q.status = r.status /\ q.kept = r.kept
          /\ q.exchange = r.exchange /\ q.round = r.round /\ q.ran = r.ran
          /\ q.consent = r.consent /\ q.mode = r.mode /\ q.base = r.base
      BY <1>0 DEF Run
    <2> HIDE DEF q
    <2>4. Quiet(q)  BY <2>2, <2>3 DEF Quiet, Core
    <2>5. RunInv(q)  BY <2>2, <2>3, <2>4 DEF RunInv, Submitting
    <2> QED  BY <2>1, <2>3, <2>5 DEF Leads, Halts, CurrentCall, Executing
  <1> QED  BY <1>1, <1>2

LEMMA AskToolInv ==
    ASSUME NEW r, AtCall(r), r.ran \subseteq r.exchange.results, r.mode # "yolo"
    PROVE  Leads(r, Ask(r, "tool"))
  <1>0. r \in Run /\ Core(r)  BY DEF AtCall, Core
  <1>1. CASE closed
    <2>1. Leads(r, Unwind(r, "failed"))  BY <1>0, UnwindInv DEF Terminal
    <2> QED  BY <1>1, <2>1 DEF Ask
  <1>2. CASE ~closed
    <2> DEFINE q == [r EXCEPT !.pc = "asking", !.stage = "tool", !.answer = "none"]
    <2>1. Ask(r, "tool") = q  BY <1>2 DEF Ask
    <2>2. q \in Run  BY <1>0, ZenonT(60) DEF Run, Live, Executing
    <2>3. /\ q.pc = "asking" /\ q.stage = "tool" /\ q.answer = "none"
          /\ q.status = r.status /\ q.kept = r.kept /\ q.exchange = r.exchange
          /\ q.round = r.round /\ q.index = r.index /\ q.ran = r.ran
          /\ q.consent = r.consent /\ q.mode = r.mode /\ q.base = r.base
      BY <1>0 DEF Run
    <2> HIDE DEF q
    <2>4. AtCall(q)  BY <2>2, <2>3 DEF AtCall, Core
    <2>5. RunInv(q)  BY <2>2, <2>3, <2>4 DEF RunInv, Submitting
    <2> QED  BY <2>1, <2>3, <2>5 DEF Leads, Halts, CurrentCall, Executing
  <1> QED  BY <1>1, <1>2

(* Starting the current call. *)
LEMMA RunToolInv ==
    ASSUME NEW r, AtCall(r), r.ran \subseteq r.exchange.results,
           Authorized(r.mode, CurrentCall(r)) \/ CurrentCall(r) \in r.consent
    PROVE  Leads(r, RunTool(r))
  <1>0. r \in Run /\ Core(r)  BY DEF AtCall, Core
  <1> DEFINE q == RunTool(r)
  <1>1. CurrentCall(r) \in Call
    <2>1. CurrentCall(r) \in Unanswered(r.exchange)
      BY <1>0 DEF AtCall, CurrentCall, Run
    <2> QED  BY <1>0, <2>1 DEF Unanswered, Run, Exchange
  <1>2. q \in Run  BY <1>0, <1>1, ZenonT(60) DEF RunTool, Run, Live, Executing
  <1>3. /\ q.pc = "running"
        /\ q.status = r.status /\ q.kept = r.kept /\ q.exchange = r.exchange
        /\ q.round = r.round /\ q.index = r.index
        /\ q.ran = r.ran \cup {c \in {CurrentCall(r)} : r.token => c \in Mcp}
        /\ q.consent = r.consent /\ q.mode = r.mode /\ q.base = r.base
    BY <1>0 DEF RunTool, Run
  <1>3a. /\ q.ran \subseteq r.ran \cup {CurrentCall(r)}
         /\ r.token => \/ q.ran = r.ran
                       \/ q.ran = r.ran \cup {CurrentCall(r)} /\ CurrentCall(r) \in Mcp
    BY <1>3
  <1>4. CurrentCall(q) = CurrentCall(r)  BY <1>3 DEF CurrentCall
  <1> HIDE DEF q
  <1>5. AtCall(q)  BY <1>2, <1>3, <1>3a, <1>0 DEF AtCall, Core
  <1>6. RunInv(q)  BY <1>2, <1>3, <1>3a, <1>4, <1>5 DEF RunInv, Submitting
  <1>7. Leads(r, q)  BY <1>3, <1>3a, <1>6 DEF Leads, Halts, Executing
  <1> QED  BY <1>7 DEF q

(* Recording the result of the current call. *)
LEMMA AddResultInv ==
    ASSUME NEW r, AtCall(r), r.ran \subseteq r.exchange.results \cup {CurrentCall(r)}
    PROVE  \A q \in AddResult(r) : Leads(r, q)
  <1>0. r \in Run /\ Core(r) /\ MaxCalls \in Nat /\ MaxRounds \in Nat
    BY TurnAssumption DEF AtCall, Core
  <1>1. PICK n \in 1..MaxCalls :
            /\ r.index <= n
            /\ \A k, i : <<k, i>> \in Unanswered(r.exchange)
                             <=> k = r.round /\ i \in r.index..n
            /\ \A i : <<r.round, i>> \in r.exchange.calls => i <= n
    BY DEF AtCall
  <1>2. r.index \in 1..MaxCalls /\ r.round \in 0..MaxRounds + 1  BY <1>0, <1>1 DEF Run
  <1>3. CurrentCall(r) \in Unanswered(r.exchange)  BY <1>1, <1>2 DEF CurrentCall
  <1>4. CurrentCall(r) \in r.exchange.calls /\ CurrentCall(r) \in Call
    BY <1>0, <1>3 DEF Unanswered, Run, Exchange
  <1> DEFINE q == [r EXCEPT !.exchange.results = @ \cup {CurrentCall(r)},
                            !.exchange.last = "tool", !.index = @ + 1]
  <1>5. q \in Run
    <2> DEFINE e == [r.exchange EXCEPT !.results = @ \cup {CurrentCall(r)}, !.last = "tool"]
    <2>1. e \in Exchange  BY <1>0, <1>4 DEF Run, Exchange
    <2>2. r.index + 1 \in 1..MaxCalls + 1  BY <1>0, <1>2
    <2>3. q = [r EXCEPT !.exchange = e, !.index = r.index + 1]
      BY <1>0 DEF Run, Exchange
    <2> HIDE DEF e, q
    <2> QED  BY <1>0, <2>1, <2>2, <2>3 DEF Run
  <1>6. /\ q.pc = r.pc /\ q.token = r.token /\ q.status = r.status /\ q.kept = r.kept
        /\ q.round = r.round /\ q.index = r.index + 1 /\ q.ran = r.ran
        /\ q.consent = r.consent /\ q.mode = r.mode
        /\ q.exchange.calls = r.exchange.calls
        /\ q.exchange.results = r.exchange.results \cup {CurrentCall(r)}
        /\ q.exchange.last = "tool" /\ q.base = r.base
    BY <1>0 DEF Run, Exchange
  <1>7. AddResult(r) = IF q.token THEN {Unwind(p, "cancelled") : p \in Stopped(q)}
                       ELSE IF CurrentCall(q) \in q.exchange.calls
                            THEN {[q EXCEPT !.pc = "calling"]}
                       ELSE LoopTop(q)
    BY DEF AddResult
  <1> HIDE DEF q
  <1>8. Core(q) /\ q.ran \subseteq q.exchange.results
    BY <1>0, <1>4, <1>5, <1>6 DEF Core
  <1>9. Unanswered(q.exchange) = Unanswered(r.exchange) \ {CurrentCall(r)}
    BY <1>6 DEF Unanswered
  <1>10. CASE q.token
    <2>1. ASSUME NEW p \in Stopped(q) PROVE Leads(r, Unwind(p, "cancelled"))
      <3>1. CASE p = q
        <4>1. Leads(q, Unwind(q, "cancelled")) /\ Unwind(q, "cancelled").ran = q.ran
              /\ Unwind(q, "cancelled").pc = "saving"
          BY <1>6, <1>8, UnwindInv DEF Terminal
        <4> QED  BY <3>1, <4>1, <1>6 DEF Leads, Halts
      <3>2. CASE p = [q EXCEPT !.exchange.last = "stopped"]
        <4>1. p \in Run  BY <3>2, <1>5 DEF Run, Exchange
        <4>2. /\ p.status = q.status /\ p.kept = q.kept /\ p.round = q.round
              /\ p.ran = q.ran /\ p.consent = q.consent /\ p.mode = q.mode
              /\ p.exchange.calls = q.exchange.calls
              /\ p.exchange.results = q.exchange.results
              /\ p.exchange.last = "stopped" /\ p.base = q.base /\ p.token = q.token
          BY <3>2, <1>5 DEF Run, Exchange
        <4>3. Core(p) /\ p.ran \subseteq p.exchange.results
          BY <4>1, <4>2, <1>8 DEF Core
        <4>4. Leads(p, Unwind(p, "cancelled")) /\ Unwind(p, "cancelled").ran = p.ran
              /\ Unwind(p, "cancelled").pc = "saving"
          BY <4>2, <4>3, UnwindInv DEF Terminal
        <4> QED  BY <1>6, <4>2, <4>4 DEF Leads, Halts
      <3> QED  BY <3>1, <3>2 DEF Stopped
    <2> QED  BY <1>7, <1>10, <2>1
  <1>11. CASE ~q.token /\ CurrentCall(q) \in q.exchange.calls
    <2> DEFINE p == [q EXCEPT !.pc = "calling"]
    <2>1. p \in Run  BY <1>5 DEF Run, Live, Executing
    <2>2. /\ p.pc = "calling" /\ p.status = q.status /\ p.kept = q.kept
          /\ p.exchange = q.exchange /\ p.round = q.round /\ p.index = q.index
          /\ p.ran = q.ran /\ p.consent = q.consent /\ p.mode = q.mode
          /\ p.base = q.base
      BY <1>5 DEF Run
    <2>3. AddResult(r) = {p}  BY <1>7, <1>11
    <2> HIDE DEF p
    <2>4. q.index <= n  BY <1>1, <1>6, <1>11 DEF CurrentCall
    <2>5. ASSUME NEW k, NEW i
          PROVE  <<k, i>> \in Unanswered(q.exchange)
                     <=> k = q.round /\ i \in q.index..n
      <3>1. <<k, i>> \in Unanswered(q.exchange)
                <=> (k = r.round /\ i \in r.index..n) /\ <<k, i>> # <<r.round, r.index>>
        BY <1>1, <1>9 DEF CurrentCall
      <3>2. <<k, i>> # <<r.round, r.index>> <=> ~(k = r.round /\ i = r.index)
        OBVIOUS
      <3>3. i \in r.index..n /\ i # r.index <=> i \in r.index + 1..n
        BY <1>1, <1>2
      <3> QED  BY <1>6, <3>1, <3>2, <3>3
    <2>6. AtCall(p)
      <3>1. Core(p)  BY <2>1, <2>2, <1>8 DEF Core
      <3>2. p.round <= MaxRounds  BY <1>6, <2>2 DEF AtCall
      <3>3. \A i : <<p.round, i>> \in p.exchange.calls => i <= n
        BY <1>1, <1>6, <2>2
      <3> QED  BY <1>1, <1>6, <2>2, <2>4, <2>5, <3>1, <3>2, <3>3 DEF AtCall
    <2>7. RunInv(p)  BY <1>8, <2>1, <2>2, <2>6 DEF RunInv, Submitting
    <2>8. Leads(r, p)  BY <1>6, <1>11, <2>2, <2>7 DEF Leads, Halts, Executing
    <2> QED  BY <2>3, <2>8
  <1>12. CASE ~q.token /\ CurrentCall(q) \notin q.exchange.calls
    <2>1. r.index = n
      <3>1. <<r.round, r.index + 1>> \notin Unanswered(r.exchange)
        BY <1>6, <1>12 DEF CurrentCall, Unanswered
      <3> QED  BY <1>1, <1>2, <3>1
    <2>2. Unanswered(r.exchange) \subseteq Call
      BY <1>0 DEF Unanswered, Run, Exchange
    <2>3. \A c \in Unanswered(r.exchange) : c = CurrentCall(r)
      BY <1>1, <1>2, <2>1, <2>2 DEF CurrentCall, Call
    <2>4. Unanswered(q.exchange) = {}  BY <1>9, <2>3
    <2>5. Quiet(q)  BY <1>6, <1>8, <2>4 DEF Quiet, AtCall
    <2> QED  BY <1>6, <1>7, <1>12, <2>5, LoopTopInv DEF Leads, Halts, CurrentCall
  <1> QED  BY <1>10, <1>11, <1>12

(* What depends on the history only survives any change of the rest. *)
Alike(r, q) ==
    /\ q \in Run /\ q.status \notin Terminal /\ q.kept = r.kept
    /\ q.exchange = r.exchange /\ q.round = r.round /\ q.index = r.index
    /\ q.ran = r.ran /\ r.consent \subseteq q.consent /\ q.mode = r.mode
    /\ q.base = r.base /\ (r.token => q.token)

LEMMA AlikeQuiet == ASSUME NEW r, NEW q, Quiet(r), Alike(r, q) PROVE Quiet(q)
  BY DEF Quiet, Core, Alike

LEMMA AlikeAtCall == ASSUME NEW r, NEW q, AtCall(r), Alike(r, q) PROVE AtCall(q)
  <1>1. Core(q)  BY DEF AtCall, Core, Alike
  <1> QED  BY <1>1 DEF AtCall, Alike

LEMMA CurrentCallType ==
    ASSUME NEW r, AtCall(r)
    PROVE  CurrentCall(r) \in Call /\ CurrentCall(r) \in Unanswered(r.exchange)
  <1>1. r \in Run  BY DEF AtCall, Core
  <1>2. CurrentCall(r) \in Unanswered(r.exchange)
    BY <1>1, TurnAssumption DEF AtCall, CurrentCall, Run
  <1> QED  BY <1>1, <1>2 DEF Unanswered, Run, Exchange

(* The first steps of _execute(). *)
LEMMA StartInv ==
    ASSUME NEW r, RunInv(r), r.pc = "accepted"
    PROVE  LET s == [r EXCEPT !.status = "running"]
           IN  Leads(r, Stream(s, "plan")) /\ \A q \in BeginChat(s) : Leads(r, q)
  <1> DEFINE s == [r EXCEPT !.status = "running"]
  <1>1. Quiet(r) /\ r \in Run  BY DEF RunInv
  <1>2. s \in Run /\ s.status = "running"  BY <1>1 DEF Run, Status
  <1>3. /\ s.kept = r.kept /\ s.exchange = r.exchange /\ s.round = r.round
        /\ s.index = r.index /\ s.ran = r.ran /\ s.consent = r.consent
        /\ s.mode = r.mode /\ s.base = r.base /\ s.token = r.token
    BY <1>1 DEF Run
  <1> HIDE DEF s
  <1>4. Quiet(s)  BY <1>1, <1>2, <1>3, AlikeQuiet DEF Alike, Terminal
  <1>5. Leads(r, Stream(s, "plan"))  BY <1>3, <1>4, StreamInv DEF Leads, Halts, CurrentCall
  <1>6. \A q \in BeginChat(s) : Leads(r, q)
    BY <1>3, <1>4, BeginChatInv DEF Leads, Halts, CurrentCall
  <1> QED  BY <1>5, <1>6 DEF s

(* A cancelled stream, with or without the message of the stopped turn. *)
LEMMA StreamCancelledInv ==
    ASSUME NEW r, Quiet(r), NEW q \in Stopped(r)
    PROVE  Leads(r, Unwind(q, "cancelled")) /\ Leads(r, Unwind(q, "failed"))
  <1>0. r \in Run  BY DEF Quiet, Core
  <1>1. CASE q = r  BY <1>1, UnwindInv DEF Quiet, Terminal
  <1>2. CASE q = [r EXCEPT !.exchange.last = "stopped"]
    <2>1. q \in Run  BY <1>0, <1>2 DEF Run, Exchange
    <2>2. /\ q.status = r.status /\ q.kept = r.kept /\ q.round = r.round
          /\ q.ran = r.ran /\ q.consent = r.consent /\ q.mode = r.mode
          /\ q.exchange.calls = r.exchange.calls
          /\ q.exchange.results = r.exchange.results
          /\ q.exchange.last = "stopped" /\ q.base = r.base /\ q.token = r.token
      BY <1>0, <1>2 DEF Run, Exchange
    <2>3. Core(q) /\ q.ran \subseteq q.exchange.results
      BY <2>1, <2>2 DEF Quiet, Core
    <2>4. \A v \in {"cancelled", "failed"} :
             Leads(q, Unwind(q, v)) /\ Unwind(q, v).ran = q.ran
                 /\ Unwind(q, v).exchange = q.exchange
      BY <2>3, UnwindInv DEF Terminal
    <2> QED  BY <2>2, <2>4 DEF Leads, Halts
  <1> QED  BY <1>1, <1>2 DEF Stopped

(* Trimming touches the earlier turns only. *)
LEMMA TrimInv ==
    ASSUME NEW r, Quiet(r), NEW cut \in SUBSET Earlier(r)
    PROVE  /\ \A q \in LoopTop([r EXCEPT !.rescued = TRUE, !.dropped = @ \cup cut]) :
                 Leads(r, q)
           /\ Leads(r, Unwind([r EXCEPT !.rescued = TRUE], "failed"))
           /\ Leads(r, Stream([r EXCEPT !.rescued = TRUE], "emergency"))
  <1> DEFINE p == [r EXCEPT !.rescued = TRUE, !.dropped = @ \cup cut]
  <1> DEFINE s == [r EXCEPT !.rescued = TRUE]
  <1>0. r \in Run /\ r.status \notin Terminal /\ cut \subseteq Turn
    BY DEF Quiet, Core, Earlier, Run
  <1>1. Alike(r, p)
    <2>1. p \in Run  BY <1>0 DEF Run
    <2> QED  BY <1>0, <2>1 DEF Alike, Run
  <1>2. Alike(r, s)
    <2>1. s \in Run  BY <1>0 DEF Run
    <2> QED  BY <1>0, <2>1 DEF Alike, Run
  <1> HIDE DEF p, s
  <1>3. Quiet(p) /\ Quiet(s)  BY <1>1, <1>2, AlikeQuiet
  <1>4. \A q \in LoopTop(p) : Leads(r, q)
    BY <1>1, <1>3, LoopTopInv DEF Leads, Halts, CurrentCall, Alike
  <1>5. Leads(r, Unwind(s, "failed"))
    BY <1>2, <1>3, UnwindInv DEF Leads, Halts, CurrentCall, Alike, Quiet, Terminal
  <1>6. Leads(r, Stream(s, "emergency"))
    BY <1>2, <1>3, StreamInv DEF Leads, Halts, CurrentCall, Alike
  <1> QED  BY <1>4, <1>5, <1>6 DEF p, s

(* The assistant message of a complete round, before anything else. *)
LEMMA AssistantInv ==
    ASSUME NEW r, Quiet(r)
    PROVE  LET s == [r EXCEPT !.exchange.last = "assistant"]
           IN  Leads(r, Unwind(s, "succeeded")) /\ Leads(r, Unwind(s, "failed"))
  <1> DEFINE s == [r EXCEPT !.exchange.last = "assistant"]
  <1>0. r \in Run  BY DEF Quiet, Core
  <1>1. s \in Run /\ s.exchange.last = "assistant" /\ r.status = s.status
    BY <1>0 DEF Run, Exchange
  <1>2. /\ s.kept = r.kept /\ s.round = r.round /\ s.ran = r.ran /\ s.base = r.base
        /\ s.consent = r.consent /\ s.mode = r.mode /\ s.token = r.token
        /\ s.exchange.calls = r.exchange.calls
        /\ s.exchange.results = r.exchange.results
    BY <1>0 DEF Run, Exchange
  <1> HIDE DEF s
  <1>3. Core(s) /\ Unanswered(s.exchange) = {} /\ s.ran \subseteq s.exchange.results
    BY <1>1, <1>2 DEF Quiet, Core, Unanswered
  <1>4. \A v \in {"succeeded", "failed"} :
           Leads(s, Unwind(s, v)) /\ Unwind(s, v).ran = s.ran
               /\ Unwind(s, v).exchange = s.exchange
    BY <1>1, <1>3, UnwindInv DEF Terminal
  <1>5. Leads(r, Unwind(s, "succeeded")) /\ Leads(r, Unwind(s, "failed"))
    BY <1>2, <1>4 DEF Leads, Halts
  <1> QED  BY <1>5 DEF s

(* A complete round: the end, or the calls of another tool round. *)
LEMMA RoundReadyInv ==
    ASSUME NEW r, Quiet(r), NEW n \in 1..MaxCalls
    PROVE  LET s == [r EXCEPT !.exchange.last = "assistant"]
               q == [s EXCEPT !.round = @ + 1, !.index = 1,
                              !.exchange.calls = @ \cup CallsOf(s, n)]
           IN  /\ Leads(r, Unwind(s, "succeeded"))
               /\ Leads(r, Unwind(q, "failed"))
               /\ q.round <= MaxRounds => Leads(r, [q EXCEPT !.pc = "calling"])
  <1> DEFINE s == [r EXCEPT !.exchange.last = "assistant"]
  <1> DEFINE e == [s.exchange EXCEPT !.calls = @ \cup CallsOf(s, n)]
  <1> DEFINE q == [s EXCEPT !.round = @ + 1, !.index = 1,
                            !.exchange.calls = @ \cup CallsOf(s, n)]
  <1> DEFINE p == [q EXCEPT !.pc = "calling"]
  <1>0. /\ r \in Run /\ MaxCalls \in Nat /\ MaxRounds \in Nat /\ r.round \in 0..MaxRounds
        /\ Core(r) /\ r.base \subseteq Turn
    BY TurnAssumption DEF Quiet, Core, Run
  <1>1. s \in Run  BY <1>0 DEF Run, Exchange
  <1>2. /\ s.pc = r.pc /\ s.status = r.status /\ s.kept = r.kept /\ s.round = r.round
        /\ s.ran = r.ran /\ s.consent = r.consent /\ s.mode = r.mode /\ s.base = r.base
        /\ s.exchange.calls = r.exchange.calls
        /\ s.exchange.results = r.exchange.results /\ s.exchange.last = "assistant"
        /\ s.token = r.token
    BY <1>0 DEF Run, Exchange
  <1>3. CallsOf(s, n) = {r.round + 1} \X (1..n)  BY <1>2 DEF CallsOf
  <1>4. CallsOf(s, n) \subseteq Call
    <2>1. r.round + 1 \in 1..MaxRounds + 1 /\ 1..n \subseteq 1..MaxCalls  BY <1>0
    <2> QED  BY <1>3, <2>1 DEF Call
  <1>5. /\ e \in Exchange /\ e.calls = s.exchange.calls \cup CallsOf(s, n)
        /\ e.results = s.exchange.results /\ e.last = "assistant"
    BY <1>1, <1>2, <1>4 DEF Run, Exchange
  <1>6. q = [s EXCEPT !.round = r.round + 1, !.index = 1, !.exchange = e]
    BY <1>1, <1>2 DEF Run, Exchange
  <1>7. q \in Run
    <2>1. r.round + 1 \in 0..MaxRounds + 1 /\ 1 \in 1..MaxCalls + 1  BY <1>0
    <2> HIDE DEF s, e, q
    <2> QED  BY <1>1, <1>5, <1>6, <2>1 DEF Run
  <1>8. /\ q.pc = r.pc /\ q.status = r.status /\ q.kept = r.kept /\ q.round = r.round + 1
        /\ q.index = 1 /\ q.ran = r.ran /\ q.consent = r.consent /\ q.mode = r.mode
        /\ q.base = r.base /\ q.token = r.token
        /\ q.exchange = e
    <2> HIDE DEF s, e, q
    <2> QED  BY <1>1, <1>2, <1>6 DEF Run
  <1>9. p \in Run
    <2> HIDE DEF q
    <2> QED  BY <1>7 DEF Run, Live, Executing
  <1>10. /\ p.pc = "calling" /\ p.status = q.status /\ p.kept = q.kept
         /\ p.exchange = q.exchange /\ p.round = q.round /\ p.index = q.index
         /\ p.ran = q.ran /\ p.consent = q.consent /\ p.mode = q.mode /\ p.base = q.base
    <2> HIDE DEF q
    <2> QED  BY <1>7 DEF Run
  <1> HIDE DEF s, e, q, p
  <1>11. Core(s) /\ Unanswered(s.exchange) = {} /\ s.ran \subseteq s.exchange.results
    BY <1>1, <1>2 DEF Quiet, Core, Unanswered
  <1>12. Leads(r, Unwind(s, "succeeded"))
    <2>1. Leads(s, Unwind(s, "succeeded")) /\ Unwind(s, "succeeded").ran = s.ran
          /\ Unwind(s, "succeeded").exchange = s.exchange
      BY <1>2, <1>11, UnwindInv DEF Terminal
    <2> QED  BY <1>2, <2>1 DEF Leads, Halts
  <1>13. \A k, i : <<k, i>> \in CallsOf(s, n) <=> k = r.round + 1 /\ i \in 1..n
    BY <1>3
  <1>14. \A k, i : <<k, i>> \in r.exchange.calls => k \in Nat /\ k <= r.round
    <2>1. r.exchange.calls \subseteq Call  BY <1>0 DEF Run, Exchange
    <2> QED  BY <1>0, <2>1 DEF Core, Call
  <1>15. Core(q)
    <2>1. \A k, i : <<k, i>> \in q.exchange.calls => k <= q.round
      BY <1>0, <1>2, <1>5, <1>8, <1>13, <1>14
    <2> QED  BY <1>2, <1>5, <1>7, <1>8, <1>11, <2>1 DEF Core
  <1>16. Leads(r, Unwind(q, "failed"))
    <2>1. Leads(q, Unwind(q, "failed")) /\ Unwind(q, "failed").ran = q.ran
          /\ Unwind(q, "failed").exchange = q.exchange
      BY <1>15, UnwindInv DEF Terminal
    <2> QED  BY <1>2, <1>5, <1>8, <2>1 DEF Leads, Halts
  <1>17. ASSUME q.round <= MaxRounds PROVE Leads(r, p)
    <2>1. Core(p)  BY <1>9, <1>10, <1>15 DEF Core
    <2>2. ASSUME NEW k, NEW i
          PROVE  <<k, i>> \in Unanswered(p.exchange) <=> k = p.round /\ i \in p.index..n
      <3>1. <<k, i>> \in Unanswered(p.exchange)
               <=> (<<k, i>> \in r.exchange.calls \/ <<k, i>> \in CallsOf(s, n))
                   /\ <<k, i>> \notin r.exchange.results
        BY <1>2, <1>5, <1>8, <1>10 DEF Unanswered
      <3>2. <<k, i>> \in r.exchange.calls => <<k, i>> \in r.exchange.results
        BY DEF Quiet, Unanswered
      <3>3. <<k, i>> \in CallsOf(s, n) => <<k, i>> \notin r.exchange.results
        BY <1>0, <1>13, <1>14 DEF Core
      <3>4. <<k, i>> \in Unanswered(p.exchange) <=> <<k, i>> \in CallsOf(s, n)
        BY <3>1, <3>2, <3>3
      <3> QED  BY <1>8, <1>10, <1>13, <3>4
    <2>3. \A i : <<p.round, i>> \in p.exchange.calls => i <= n
      BY <1>0, <1>2, <1>5, <1>8, <1>10, <1>13, <1>14
    <2>4. p.exchange.last # "none" /\ p.index <= n /\ p.round <= MaxRounds
      BY <1>5, <1>8, <1>10, <1>17
    <2>5. AtCall(p)  BY <2>1, <2>2, <2>3, <2>4 DEF AtCall
    <2>6. p.ran \subseteq p.exchange.results
      BY <1>2, <1>5, <1>8, <1>10 DEF Quiet
    <2>7. RunInv(p)  BY <1>9, <1>10, <2>1, <2>5, <2>6 DEF RunInv, Submitting
    <2> QED  BY <1>2, <1>5, <1>8, <1>10, <2>7 DEF Leads, Halts, Executing
  <1> QED  BY <1>12, <1>16, <1>17 DEF s, q, p

(* The answers of the user. *)
LEMMA AnsweredAlike ==
    ASSUME NEW r \in Run, r.status \notin Terminal
    PROVE  Alike(r, Answered(r))
  <1>1. Answered(r) \in Run  BY DEF Answered, Run
  <1> QED  BY <1>1 DEF Answered, Alike, Run

LEMMA PlanAnsweredInv ==
    ASSUME NEW r, RunInv(r), r.pc = "asking", r.stage = "plan"
    PROVE  /\ \A q \in BeginChat(Answered(r)) : Leads(r, q)
           /\ Leads(r, Unwind(r, "cancelled"))
  <1>1. Quiet(r) /\ r \in Run /\ r.status \notin Terminal
    BY DEF RunInv, AtCall, Quiet, Core
  <1>2. Alike(r, Answered(r))  BY <1>1, AnsweredAlike
  <1>3. \A q \in BeginChat(Answered(r)) : Leads(r, q)
    BY <1>1, <1>2, AlikeQuiet, BeginChatInv DEF Leads, Halts, CurrentCall, Alike
  <1>4. Leads(r, Unwind(r, "cancelled"))  BY <1>1, UnwindInv DEF Quiet, Terminal
  <1> QED  BY <1>3, <1>4

LEMMA ToolAllowedInv ==
    ASSUME NEW r, RunInv(r), r.pc = "asking", r.stage = "tool",
           Reply(r) \in {"approve", "enable"}
    PROVE  /\ Leads(r, RunTool(Answered(r)))
           /\ Leads(r, RunTool([Answered(r) EXCEPT !.mode = Broader(@)]))
           /\ Broader(r.mode) \in Mode
  <1> DEFINE a == Answered(r)
  <1> DEFINE w == [Answered(r) EXCEPT !.mode = Broader(@)]
  <1>1. /\ AtCall(r) /\ r \in Run /\ r.status \notin Terminal /\ r.mode # "yolo"
        /\ r.ran \subseteq r.exchange.results
        /\ r.answer \in {"approve", "enable"} => CurrentCall(r) \in r.consent
    BY DEF RunInv, AtCall, Core
  <1>2. CurrentCall(r) \in r.consent  BY <1>1 DEF Reply, SafeDefault
  <1>3. Alike(r, a)  BY <1>1, AnsweredAlike
  <1>4. AtCall(a) /\ CurrentCall(a) = CurrentCall(r) /\ a.pc = r.pc
    <2>1. a.pc = r.pc  BY <1>1 DEF Answered, Run
    <2> HIDE DEF a
    <2> QED  BY <1>1, <1>3, <2>1, AlikeAtCall DEF Alike, CurrentCall
  <1>5. Leads(r, RunTool(a))
    <2> HIDE DEF a
    <2> QED  BY <1>1, <1>2, <1>3, <1>4, RunToolInv DEF Alike, Leads, Halts, CurrentCall
  <1>6. w \in Run /\ Broader(r.mode) \in Mode  BY <1>3 DEF Alike, Run, Broader, Mode
  <1>7. /\ w.status = a.status /\ w.kept = a.kept /\ w.exchange = a.exchange
        /\ w.round = a.round /\ w.index = a.index /\ w.ran = a.ran
        /\ w.consent = a.consent /\ w.base = a.base /\ w.mode = Broader(a.mode)
        /\ w.token = a.token
    <2> HIDE DEF a
    <2> QED  BY <1>3 DEF Alike, Run, a
  <1> HIDE DEF a, w
  (* A broader mode covers whatever the narrower one does. *)
  <1>8. \A c : Authorized(a.mode, c) => Authorized(w.mode, c)
    BY <1>1, <1>3, <1>7 DEF Alike, Authorized, Broader
  <1>9. AtCall(w)
    <2>1. Core(w)  BY <1>4, <1>6, <1>7, <1>8 DEF AtCall, Core
    <2> QED  BY <1>4, <1>7, <2>1 DEF AtCall
  <1>10. CurrentCall(w) = CurrentCall(a)  BY <1>7 DEF CurrentCall
  <1>11. Leads(r, RunTool(w))
    BY <1>1, <1>2, <1>3, <1>4, <1>7, <1>9, <1>10, RunToolInv DEF Alike, Leads, Halts, CurrentCall
  <1> QED  BY <1>5, <1>6, <1>11 DEF a, w

LEMMA ToolDeniedInv ==
    ASSUME NEW r, RunInv(r), r.pc = "asking", r.stage = "tool"
    PROVE  /\ \A q \in AddResult(Answered(r)) : Leads(r, q)
           /\ Leads(r, Unwind([r EXCEPT !.token = TRUE], "cancelled"))
  <1> DEFINE a == Answered(r)
  <1> DEFINE s == [r EXCEPT !.token = TRUE]
  <1>1. /\ AtCall(r) /\ r \in Run /\ r.status \notin Terminal
        /\ r.ran \subseteq r.exchange.results
    BY DEF RunInv, AtCall, Core
  <1>2. Alike(r, a)  BY <1>1, AnsweredAlike
  <1>3. Alike(r, s)
    <2>1. s \in Run  BY <1>1 DEF Run
    <2> QED  BY <1>1, <2>1 DEF Alike, Run
  <1> HIDE DEF a, s
  <1>4. AtCall(a) /\ AtCall(s)  BY <1>1, <1>2, <1>3, AlikeAtCall
  <1>5. \A q \in AddResult(a) : Leads(r, q)
    BY <1>1, <1>2, <1>4, AddResultInv DEF Alike, Leads, Halts, CurrentCall
  <1>6. Leads(r, Unwind(s, "cancelled"))
    BY <1>1, <1>3, <1>4, UnwindInv DEF Alike, AtCall, Terminal, Leads, Halts, CurrentCall
  <1> QED  BY <1>5, <1>6 DEF a, s

(* After a tool: the revision, the result, or a CancelledError. *)
LEMMA ToolEndsInv ==
    ASSUME NEW r, RunInv(r), r.pc \in {"running", "bumping"}
    PROVE  /\ \A q \in AddResult(r) : Leads(r, q)
           /\ Leads(r, [r EXCEPT !.pc = "bumping"])
           /\ Leads(r, Unwind(r, "failed"))
           /\ ToolsMayRaise => Leads(r, Finish(r, "succeeded"))
  <1>1. /\ AtCall(r) /\ Core(r) /\ r \in Run
        /\ r.ran \subseteq r.exchange.results \cup {CurrentCall(r)}
    BY DEF RunInv, AtCall, Core
  <1>2. \A q \in AddResult(r) : Leads(r, q)  BY <1>1, AddResultInv
  <1>3. Leads(r, Unwind(r, "failed"))  BY <1>1, UnwindInv DEF Terminal
  <1>4. Leads(r, [r EXCEPT !.pc = "bumping"])
    <2> DEFINE q == [r EXCEPT !.pc = "bumping"]
    <2>1. q \in Run  BY <1>1, ZenonT(60) DEF Run, Live, Executing
    <2>2. q.pc = "bumping" /\ Alike(r, q)  BY <1>1, <2>1 DEF Alike, Core, Run
    <2> HIDE DEF q
    <2>3. AtCall(q) /\ CurrentCall(q) = CurrentCall(r)
      BY <1>1, <2>2, AlikeAtCall DEF Alike, CurrentCall
    <2>4. RunInv(q)  BY <1>1, <2>1, <2>2, <2>3 DEF Alike, RunInv, Submitting
    <2>5. Leads(r, q)  BY <2>2, <2>4 DEF Leads, Halts, CurrentCall, Alike, Executing
    <2> QED  BY <2>5 DEF q
  <1>5. ASSUME ToolsMayRaise PROVE Leads(r, Finish(r, "succeeded"))
    <2> DEFINE q == Finish(r, "succeeded")
    <2>1. /\ q \in Run /\ q.pc = "done" /\ q.status = "succeeded"
          /\ q.exchange = r.exchange /\ q.ran = r.ran /\ q.consent = r.consent /\ q.mode = r.mode
      BY <1>1, FinishKeeps DEF Terminal
    <2> HIDE DEF q
    <2>2. RunInv(q)  BY <1>1, <1>5, <2>1 DEF RunInv, Core, Submitting, Terminal
    <2>3. Leads(r, q)  BY <1>5, <2>1, <2>2 DEF Leads, Halts, CurrentCall
    <2> QED  BY <2>3 DEF q
  <1> QED  BY <1>2, <1>3, <1>4, <1>5

(* The user or the provider acts while the run waits. *)
LEMMA WaitingInv ==
    ASSUME NEW r, RunInv(r), r.pc \in Executing
    PROVE  /\ \A o \in {"ok", "failed", "context"} :
                 r.pc = "streaming" =>
                     Leads(r, [r EXCEPT !.pc = "arrived", !.outcome = o])
           /\ Leads(r, [r EXCEPT !.token = TRUE, !.status = "stopping"])
           /\ \A a \in Offered(r.stage) :
                 r.pc = "asking" =>
                     Leads(r, [r EXCEPT !.answer = a, !.consent = @ \cup ConsentOf(r, a)])
  <1>1. r \in Run /\ r.status \notin Terminal
    BY DEF RunInv, Executing, Quiet, AtCall, Core
  <1>2. ASSUME NEW o \in {"ok", "failed", "context"}, r.pc = "streaming"
        PROVE  Leads(r, [r EXCEPT !.pc = "arrived", !.outcome = o])
    <2> DEFINE q == [r EXCEPT !.pc = "arrived", !.outcome = o]
    <2>1. q \in Run  BY <1>1, ZenonT(60) DEF Run, Live, Executing
    <2>2. q.pc = "arrived" /\ Alike(r, q)  BY <1>1, <2>1 DEF Alike, Run
    <2> HIDE DEF q
    <2>3. Quiet(q)  BY <1>2, <2>2, AlikeQuiet DEF RunInv
    <2>4. RunInv(q)  BY <2>1, <2>2, <2>3 DEF RunInv, Submitting
    <2>5. Leads(r, q)  BY <2>2, <2>4 DEF Leads, Halts, CurrentCall, Alike, Executing
    <2> QED  BY <2>5 DEF q
  <1>3. Leads(r, [r EXCEPT !.token = TRUE, !.status = "stopping"])
    <2> DEFINE q == [r EXCEPT !.token = TRUE, !.status = "stopping"]
    <2>1. q \in Run /\ q.status = "stopping"  BY <1>1 DEF Run, Status
    <2>2. /\ q.pc = r.pc /\ q.stage = r.stage /\ q.answer = r.answer
          /\ q.verdict = r.verdict /\ q.consent = r.consent /\ q.kept = r.kept
          /\ q.exchange = r.exchange /\ q.ran = r.ran /\ q.mode = r.mode
          /\ q.base = r.base /\ q.round = r.round /\ q.index = r.index /\ q.token
      BY <1>1 DEF Run
    <2> HIDE DEF q
    <2>3. Alike(r, q)  BY <2>1, <2>2 DEF Alike, Terminal
    <2>4. CurrentCall(q) = CurrentCall(r)  BY <2>2 DEF CurrentCall
    <2>5. Core(r) => Core(q)  BY <2>3 DEF Core, Alike
    <2>6. Quiet(r) => Quiet(q)  BY <2>3, AlikeQuiet
    <2>7. AtCall(r) => AtCall(q)  BY <2>3, AlikeAtCall
    <2>8. RunInv(q)
      BY <2>1, <2>2, <2>4, <2>5, <2>6, <2>7 DEF RunInv, Submitting, Executing
    <2>9. Leads(r, q)  BY <2>2, <2>8 DEF Leads, Halts, CurrentCall, Executing
    <2> QED  BY <2>9 DEF q
  <1>4. ASSUME NEW a \in Offered(r.stage), r.pc = "asking"
        PROVE  Leads(r, [r EXCEPT !.answer = a, !.consent = @ \cup ConsentOf(r, a)])
    <2> DEFINE q == [r EXCEPT !.answer = a, !.consent = @ \cup ConsentOf(r, a)]
    <2>0. ConsentOf(r, a) \subseteq Call
      <3>1. CASE r.stage = "tool"
        <4>1. AtCall(r)  BY <1>4, <3>1 DEF RunInv
        <4> QED  BY <4>1, CurrentCallType DEF ConsentOf
      <3> QED  BY <3>1 DEF ConsentOf
    <2>1. q \in Run  BY <1>1, <2>0 DEF Run, Offered
    <2>2. /\ q.pc = "asking" /\ q.stage = r.stage /\ q.answer = a
          /\ q.consent = r.consent \cup ConsentOf(r, a) /\ Alike(r, q)
      BY <1>1, <1>4, <2>1 DEF Alike, Run
    <2> HIDE DEF q
    <2>3. CurrentCall(q) = CurrentCall(r)  BY <2>2 DEF CurrentCall, Alike
    <2>4. RunInv(q)
      <3>1. CASE r.stage = "plan" /\ Quiet(r)
        BY <2>1, <2>2, <3>1, AlikeQuiet DEF RunInv, Submitting
      <3>2. CASE r.stage = "tool" /\ AtCall(r) /\ r.ran \subseteq r.exchange.results
                 /\ r.mode # "yolo"
        <4>1. AtCall(q)  BY <2>2, <3>2, AlikeAtCall
        <4>2. q.answer \in {"approve", "enable"} => CurrentCall(q) \in q.consent
          BY <2>2, <2>3, <3>2 DEF ConsentOf
        <4> QED  BY <2>1, <2>2, <3>2, <4>1, <4>2 DEF RunInv, Submitting, Alike
      <3> QED  BY <1>4, <3>1, <3>2 DEF RunInv
    <2>5. Leads(r, q)  BY <2>2, <2>4 DEF Leads, Halts, CurrentCall, Alike, Executing
    <2> QED  BY <2>5 DEF q
  <1> QED  BY <1>2, <1>3, <1>4

(* The last commit. *)
LEMMA SaveInv ==
    ASSUME NEW r, RunInv(r), r.pc = "saving"
    PROVE  LET q == Finish([r EXCEPT !.kept = r.exchange], r.verdict)
           IN  RunInv(q) /\ q.pc = "done" /\ q.status \in Terminal
  <1> DEFINE k == [r EXCEPT !.kept = r.exchange]
  <1> DEFINE q == Finish(k, r.verdict)
  <1>1. r \in Run /\ r.verdict \in Terminal /\ Core(r)  BY DEF RunInv, Run
  <1>2. k \in Run  BY <1>1 DEF Run
  <1>3. /\ k.kept = r.exchange /\ k.exchange = r.exchange /\ k.ran = r.ran
        /\ k.consent = r.consent /\ k.mode = r.mode
    BY <1>1 DEF Run
  <1> HIDE DEF k
  <1>4. /\ q \in Run /\ q.pc = "done" /\ q.status = r.verdict
        /\ q.exchange = k.exchange /\ q.kept = k.kept /\ q.ran = k.ran
        /\ q.consent = k.consent /\ q.mode = k.mode
    BY <1>1, <1>2, FinishKeeps
  <1> HIDE DEF q
  <1>5. RunInv(q)
    BY <1>1, <1>3, <1>4 DEF RunInv, Core, Submitting, Unanswered, Terminal
  <1>6. q.pc = "done" /\ q.status \in Terminal  BY <1>1, <1>4
  <1> QED  BY <1>5, <1>6 DEF q, k

LEMMA SaveFailsInv ==
    ASSUME NEW r, RunInv(r), r.pc = "saving"
    PROVE  /\ r.verdict = "succeeded" => Leads(r, Unwind(r, "failed"))
           /\ Leads(r, Finish(r, "failed"))
  <1>1. r \in Run /\ Core(r)  BY DEF RunInv
  <1>2. Leads(r, Unwind(r, "failed"))  BY <1>1, UnwindInv DEF Terminal
  <1> DEFINE q == Finish(r, "failed")
  <1>3. /\ q \in Run /\ q.pc = "done" /\ q.status = "failed"
        /\ q.exchange = r.exchange /\ q.ran = r.ran /\ q.consent = r.consent /\ q.mode = r.mode
    BY <1>1, FinishKeeps DEF Terminal
  <1> HIDE DEF q
  <1>4. RunInv(q)  BY <1>1, <1>3 DEF RunInv, Core, Submitting, Terminal
  <1>5. Leads(r, q)  BY <1>3, <1>4 DEF Leads, Halts, CurrentCall
  <1> QED  BY <1>2, <1>5 DEF q

----------------------------------------------------------------------------
(* The inductive invariant of the engine.  The lease is what makes a run's *)
(* picture of the record stay true: nobody else writes it meanwhile.       *)
BaseIsStored ==
    \A t \in Turn :
        run[t].pc \in {"resolving"} \cup Executing => run[t].base \subseteq stored[SessionOf[t]]

EngineInv ==
    /\ TypeOK
    /\ \A t \in Turn : RunInv(run[t])
    /\ LeaseMeansTurn
    /\ BaseIsStored

(* One step of a registered run that is not a save. *)
EngineStep(t) ==
    /\ run[t].pc \in Executing
    /\ \E q \in Run : Leads(run[t], q) /\ Become(t, q)
    /\ UNCHANGED <<closing, closed, stored>>
    /\ prefMode' \in Mode

LEMMA InitEstablishes == Init => EngineInv
  <1> SUFFICES ASSUME Init PROVE EngineInv  OBVIOUS
  <1>1. NewRun \in Run /\ RunInv(NewRun)  BY NewRunInv DEF RunInv
  <1>2. \A t \in Turn : run[t] = NewRun  BY DEF Init
  <1>3. TypeOK  BY <1>1 DEF Init, TypeOK, Mode
  <1>4. \A t \in Turn : RunInv(run[t])  BY <1>1, <1>2
  <1>5. \A t \in Turn : run[t].pc = "idle"  BY <1>2 DEF NewRun
  <1>6. \A t \in Turn : active[SessionOf[t]] = NoTurn /\ NoTurn # t
    BY TurnAssumption DEF Init
  <1>7. LeaseMeansTurn  BY <1>5, <1>6 DEF LeaseMeansTurn, Live, Submitting, Executing
  <1>8. BaseIsStored  BY <1>5 DEF BaseIsStored, Executing
  <1> QED  BY <1>3, <1>4, <1>7, <1>8 DEF EngineInv

(* A turn that holds the lease moves on or ends; it alone may have written *)
(* the record of its session.                                              *)
LEMMA MoveKeeps ==
    ASSUME EngineInv, NEW t \in Turn, run[t].pc \in Live,
           NEW q \in Run, RunInv(q), q.pc \in Live \cup {"refused", "done"},
           q.pc \in {"resolving"} \cup Executing => q.base \subseteq stored'[SessionOf[t]],
           Become(t, q),
           stored' \in [Session -> SUBSET Turn],
           \A s \in Session : s # SessionOf[t] => stored'[s] = stored[s],
           closing' \in BOOLEAN, closed' \in BOOLEAN, prefMode' \in Mode
    PROVE  EngineInv'
  <1>0. /\ TypeOK /\ LeaseMeansTurn /\ BaseIsStored /\ \A u \in Turn : RunInv(run[u])
        /\ SessionOf \in [Turn -> Session] /\ NoTurn \notin Turn
    BY TurnAssumption DEF EngineInv
  <1>1. /\ run' \in [Turn -> Run] /\ run'[t] = q
        /\ \A u \in Turn : u # t => run'[u] = run[u]
    BY <1>0 DEF TypeOK, Become
  <1>2. /\ active' \in [Session -> Turn \cup {NoTurn}]
        /\ \A s \in Session : s # SessionOf[t] => active'[s] = active[s]
        /\ active'[SessionOf[t]] = IF q.pc \in {"refused", "done"} THEN NoTurn
                                   ELSE active[SessionOf[t]]
    BY <1>0 DEF TypeOK, Become
  <1>3. TypeOK'  BY <1>1, <1>2 DEF TypeOK
  <1>4. (\A u \in Turn : RunInv(run[u]))'  BY <1>0, <1>1
  <1>5. active[SessionOf[t]] = t  BY <1>0 DEF LeaseMeansTurn
  <1>6. \A u \in Turn : u # t /\ SessionOf[u] = SessionOf[t] =>
            run[u].pc \notin Live \cup {"aborted"}
    BY <1>0, <1>5 DEF LeaseMeansTurn
  <1>7. ASSUME NEW u \in Turn
        PROVE  active'[SessionOf[u]] = u <=> run'[u].pc \in Live \cup {"aborted"}
    <2>1. CASE u = t
      <3>1. q.pc \in {"refused", "done"} => q.pc \notin Live \cup {"aborted"}
        BY DEF Live, Submitting, Executing
      <3> QED  BY <1>0, <1>1, <1>2, <1>5, <2>1, <3>1
    <2>2. CASE u # t /\ SessionOf[u] = SessionOf[t]
      BY <1>0, <1>1, <1>2, <1>5, <1>6, <2>2
    <2>3. CASE u # t /\ SessionOf[u] # SessionOf[t]
      BY <1>0, <1>1, <1>2, <2>3 DEF LeaseMeansTurn
    <2> QED  BY <2>1, <2>2, <2>3
  <1>8. LeaseMeansTurn'  BY <1>7 DEF LeaseMeansTurn
  <1>9. ASSUME NEW u \in Turn, run'[u].pc \in {"resolving"} \cup Executing
        PROVE  run'[u].base \subseteq stored'[SessionOf[u]]
    <2>1. CASE u = t  BY <1>1, <1>9, <2>1
    <2>2. CASE u # t /\ SessionOf[u] = SessionOf[t]
      BY <1>1, <1>6, <1>9, <2>2 DEF Live, Submitting
    <2>3. CASE u # t /\ SessionOf[u] # SessionOf[t]
      BY <1>0, <1>1, <1>9, <2>3 DEF BaseIsStored
    <2> QED  BY <2>1, <2>2, <2>3
  <1>10. BaseIsStored'  BY <1>9 DEF BaseIsStored
  <1> QED  BY <1>3, <1>4, <1>8, <1>10 DEF EngineInv

LEMMA EngineStepKeeps ==
    ASSUME EngineInv, NEW t \in Turn, EngineStep(t)
    PROVE  EngineInv'
  <1>1. PICK q \in Run : Leads(run[t], q) /\ Become(t, q)  BY DEF EngineStep
  <1>2. run[t].pc \in Executing /\ run[t].pc \in Live  BY DEF EngineStep, Live
  <1>3. RunInv(q) /\ q.pc \in Live \cup {"refused", "done"}  BY <1>1 DEF Leads, Live
  <1>4. stored' = stored /\ closing' = closing /\ closed' = closed /\ prefMode' \in Mode
    BY DEF EngineStep
  <1>5. q.pc # "done" => q.base \subseteq stored[SessionOf[t]]
    BY <1>1, <1>2 DEF Leads, EngineInv, BaseIsStored
  <1>6. q.pc \in {"resolving"} \cup Executing => q.base \subseteq stored'[SessionOf[t]]
    BY <1>4, <1>5 DEF Executing
  <1>7. /\ stored' \in [Session -> SUBSET Turn]
        /\ \A s \in Session : s # SessionOf[t] => stored'[s] = stored[s]
        /\ closing' \in BOOLEAN /\ closed' \in BOOLEAN
    BY <1>4 DEF EngineInv, TypeOK
  <1> QED  BY <1>1, <1>2, <1>3, <1>4, <1>6, <1>7, MoveKeeps

(* Every step of a registered run but the save is an EngineStep. *)
LEMMA ResumesLead ==
    ASSUME EngineInv, NEW t \in Turn,
           \/ Start(t) \/ StreamCancelled(t) \/ RoundFails(t) \/ PlanReady(t)
           \/ SummaryReady(t) \/ RescueReady(t) \/ Rescue(t) \/ RoundReady(t)
           \/ Dispatch(t) \/ PlanAnswered(t) \/ ToolAllowed(t) \/ ToolDenied(t)
           \/ ToolEnds(t) \/ Bumped(t) \/ EmitRaises(t) \/ SaveFails(t)
    PROVE  EngineStep(t)
  <1> DEFINE r == run[t]
  <1>1. RunInv(r) /\ r \in Run /\ prefMode \in Mode /\ UNCHANGED <<closing, closed, stored>>
    BY DEF EngineInv, TypeOK, Start, StreamCancelled, RoundFails, PlanReady,
           SummaryReady, RescueReady, Rescue, RoundReady, Dispatch, PlanAnswered,
           ToolAllowed, ToolDenied, ToolEnds, Bumped, EmitRaises, SaveFails
  <1>2. ASSUME NEW q, Leads(r, q), Become(t, q), r.pc \in Executing, prefMode' \in Mode
        PROVE  EngineStep(t)
    BY <1>1, <1>2 DEF EngineStep, Leads, RunInv
  <1>3. r.pc \in {"streaming", "arrived"} => Quiet(r)  BY <1>1 DEF RunInv
  <1> HIDE DEF r
  <1>4. Quiet(r) => Leads(r, Unwind(r, "failed"))  BY UnwindInv DEF Quiet, Terminal
  <1>5. CASE Start(t)
    <2>1. r.pc = "accepted" /\ prefMode' = prefMode  BY <1>5 DEF Start, r
    <2> DEFINE s == [r EXCEPT !.status = "running"]
    <2>2. Become(t, Stream(s, "plan")) \/ \E q \in BeginChat(s) : Become(t, q)
      BY <1>5 DEF Start, r
    <2>3. Leads(r, Stream(s, "plan")) /\ \A q \in BeginChat(s) : Leads(r, q)
      BY <1>1, <2>1, StartInv
    <2> HIDE DEF s
    <2> QED  BY <1>1, <1>2, <2>1, <2>2, <2>3 DEF Executing
  <1>6. CASE StreamCancelled(t)
    <2>1. r.pc = "streaming" /\ prefMode' = prefMode  BY <1>6 DEF StreamCancelled, r
    <2>2. PICK q \in Stopped(r) :
              Become(t, Unwind(q, "cancelled")) \/ Become(t, Unwind(r, "failed"))
      BY <1>6 DEF StreamCancelled, Stopped, r
    <2>3. Leads(r, Unwind(q, "cancelled"))  BY <1>3, <2>1, StreamCancelledInv
    <2> QED  BY <1>1, <1>2, <1>3, <1>4, <2>1, <2>2, <2>3 DEF Executing
  <1>7. CASE RoundFails(t)
    <2>1. r.pc = "arrived" /\ prefMode' = prefMode /\ Become(t, Unwind(r, "failed"))
      BY <1>7 DEF RoundFails, r
    <2> QED  BY <1>1, <1>2, <1>3, <1>4, <2>1 DEF Executing
  <1>8. CASE PlanReady(t)
    <2>1. r.pc = "arrived" /\ prefMode' = prefMode
      BY <1>8 DEF PlanReady, r
    <2>2. Become(t, Unwind(r, "failed")) \/ Become(t, Ask(r, "plan"))
      BY <1>8 DEF PlanReady, r
    <2>3. Leads(r, Ask(r, "plan"))  BY <1>3, <2>1, AskPlanInv
    <2> QED  BY <1>1, <1>2, <1>3, <1>4, <2>1, <2>2, <2>3 DEF Executing
  <1>9. CASE SummaryReady(t)
    <2>1. r.pc = "arrived" /\ prefMode' = prefMode
      BY <1>9 DEF SummaryReady, r
    <2>2. Become(t, Unwind(r, "failed")) \/ Become(t, Stream(r, "chat"))
      BY <1>9 DEF SummaryReady, r
    <2>3. Leads(r, Stream(r, "chat"))  BY <1>3, <2>1, StreamInv
    <2> QED  BY <1>1, <1>2, <1>3, <1>4, <2>1, <2>2, <2>3 DEF Executing
  <1>10. ASSUME r.pc = "arrived", Trim(t), prefMode' = prefMode PROVE EngineStep(t)
    <2>1. PICK cut \in SUBSET Earlier(r) :
              \/ \E q \in LoopTop([r EXCEPT !.rescued = TRUE, !.dropped = @ \cup cut]) :
                    Become(t, q)
              \/ Become(t, Unwind([r EXCEPT !.rescued = TRUE], "failed"))
      BY <1>10 DEF Trim, r
    <2>2. /\ \A q \in LoopTop([r EXCEPT !.rescued = TRUE, !.dropped = @ \cup cut]) :
                Leads(r, q)
          /\ Leads(r, Unwind([r EXCEPT !.rescued = TRUE], "failed"))
      BY <1>3, <1>10, TrimInv
    <2> QED  BY <1>1, <1>2, <1>10, <2>1, <2>2 DEF Executing
  <1>11. CASE RescueReady(t)
    BY <1>10, <1>11 DEF RescueReady, r
  <1>12. CASE Rescue(t)
    <2>1. r.pc = "arrived" /\ prefMode' = prefMode
      BY <1>12 DEF Rescue, r
    <2>2. Become(t, Stream([r EXCEPT !.rescued = TRUE], "emergency")) \/ Trim(t)
      BY <1>12 DEF Rescue, r
    <2>3. Leads(r, Stream([r EXCEPT !.rescued = TRUE], "emergency"))
      BY <1>3, <2>1, TrimInv
    <2> QED  BY <1>1, <1>2, <1>10, <2>1, <2>2, <2>3 DEF Executing
  <1>13. CASE RoundReady(t)
    <2>1. r.pc = "arrived" /\ prefMode' = prefMode
      BY <1>13 DEF RoundReady, r
    <2> DEFINE s == [r EXCEPT !.exchange.last = "assistant"]
    <2> DEFINE q(n) == [s EXCEPT !.round = @ + 1, !.index = 1,
                                 !.exchange.calls = @ \cup CallsOf(s, n)]
    <2>2. \/ Become(t, Unwind(s, "succeeded"))
          \/ \E n \in 1..MaxCalls :
                Become(t, IF q(n).round > MaxRounds THEN Unwind(q(n), "failed")
                          ELSE [q(n) EXCEPT !.pc = "calling"])
      BY <1>13 DEF RoundReady, r
    <2>3. Leads(r, Unwind(s, "succeeded"))  BY <1>3, <2>1, AssistantInv
    <2>4. ASSUME NEW n \in 1..MaxCalls
          PROVE  /\ Leads(r, Unwind(q(n), "failed"))
                 /\ q(n).round <= MaxRounds => Leads(r, [q(n) EXCEPT !.pc = "calling"])
      BY <1>3, <2>1, RoundReadyInv
    <2>5. \A n \in 1..MaxCalls : q(n).round > MaxRounds \/ q(n).round <= MaxRounds
      <3>1. ASSUME NEW n \in 1..MaxCalls PROVE q(n).round \in Nat
        BY <1>1, TurnAssumption DEF Run, Exchange
      <3> HIDE DEF q
      <3> QED  BY <3>1, TurnAssumption
    <2> HIDE DEF s, q
    <2> QED  BY <1>1, <1>2, <2>1, <2>2, <2>3, <2>4, <2>5 DEF Executing
  <1>14. CASE Dispatch(t)
    <2>1. r.pc = "calling" /\ prefMode' = prefMode
      BY <1>14 DEF Dispatch, r
    <2>2. AtCall(r) /\ r.ran \subseteq r.exchange.results
      BY <1>1, <2>1 DEF RunInv
    <2>3. \/ \E q \in AddResult(r) : Become(t, q)
          \/ Become(t, Unwind(r, "failed"))
          \/ Authorized(r.mode, CurrentCall(r)) /\ Become(t, RunTool(r))
          \/ ~Authorized(r.mode, CurrentCall(r)) /\ Become(t, Ask(r, "tool"))
      BY <1>14 DEF Dispatch, r
    <2>4. \A q \in AddResult(r) : Leads(r, q)  BY <2>2, AddResultInv
    <2>5. Authorized(r.mode, CurrentCall(r)) => Leads(r, RunTool(r))
      BY <2>2, RunToolInv
    <2>6. ~Authorized(r.mode, CurrentCall(r)) => Leads(r, Ask(r, "tool"))
      BY <2>2, AskToolInv DEF Authorized
    <2>7. Leads(r, Unwind(r, "failed"))  BY <2>2, UnwindInv DEF AtCall, Terminal
    <2> QED  BY <1>1, <1>2, <2>1, <2>3, <2>4, <2>5, <2>6, <2>7 DEF Executing
  <1>15. CASE PlanAnswered(t)
    <2>1. r.pc = "asking" /\ r.stage = "plan" /\ prefMode' = prefMode
      BY <1>15 DEF PlanAnswered, r
    <2>2. \/ \E q \in BeginChat(Answered(r)) : Become(t, q)
          \/ Become(t, Unwind(r, "cancelled"))
      BY <1>15 DEF PlanAnswered, r
    <2>3. (\A q \in BeginChat(Answered(r)) : Leads(r, q)) /\ Leads(r, Unwind(r, "cancelled"))
      BY <1>1, <2>1, PlanAnsweredInv
    <2> QED  BY <1>1, <1>2, <2>1, <2>2, <2>3 DEF Executing
  <1>16. CASE ToolAllowed(t)
    <2>1. /\ r.pc = "asking" /\ r.stage = "tool" /\ Reply(r) \in {"approve", "enable"}
          /\ prefMode' \in {prefMode, Broader(r.mode)}
      BY <1>16 DEF ToolAllowed, r
    <2>2. \/ Become(t, RunTool(Answered(r)))
          \/ Become(t, RunTool([Answered(r) EXCEPT !.mode = Broader(@)]))
      BY <1>16 DEF ToolAllowed, r
    <2>3. /\ Leads(r, RunTool(Answered(r)))
          /\ Leads(r, RunTool([Answered(r) EXCEPT !.mode = Broader(@)]))
          /\ Broader(r.mode) \in Mode
      BY <1>1, <2>1, ToolAllowedInv
    <2>4. prefMode' \in Mode  BY <1>1, <2>1, <2>3
    <2> QED  BY <1>1, <1>2, <2>1, <2>2, <2>3, <2>4 DEF Executing
  <1>17. CASE ToolDenied(t)
    <2>1. r.pc = "asking" /\ r.stage = "tool" /\ prefMode' = prefMode
      BY <1>17 DEF ToolDenied, r
    <2>2. \/ \E q \in AddResult(Answered(r)) : Become(t, q)
          \/ Become(t, Unwind([r EXCEPT !.token = TRUE], "cancelled"))
      BY <1>17 DEF ToolDenied, r
    <2>3. /\ \A q \in AddResult(Answered(r)) : Leads(r, q)
          /\ Leads(r, Unwind([r EXCEPT !.token = TRUE], "cancelled"))
      BY <1>1, <2>1, ToolDeniedInv
    <2> QED  BY <1>1, <1>2, <2>1, <2>2, <2>3 DEF Executing
  <1>18. CASE ToolEnds(t)
    <2>1. r.pc = "running" /\ prefMode' = prefMode
      BY <1>18 DEF ToolEnds, r
    <2>2. \/ \E q \in AddResult(r) : Become(t, q)
          \/ Become(t, [r EXCEPT !.pc = "bumping"])
          \/ ToolsMayRaise /\ Become(t, Finish(r, "succeeded"))
      BY <1>18 DEF ToolEnds, r
    <2>3. /\ \A q \in AddResult(r) : Leads(r, q)
          /\ Leads(r, [r EXCEPT !.pc = "bumping"])
          /\ ToolsMayRaise => Leads(r, Finish(r, "succeeded"))
      BY <1>1, <2>1, ToolEndsInv
    <2> QED  BY <1>1, <1>2, <2>1, <2>2, <2>3 DEF Executing
  <1>19. CASE Bumped(t)
    <2>1. r.pc = "bumping" /\ prefMode' = prefMode
      BY <1>19 DEF Bumped, r
    <2>2. (\E q \in AddResult(r) : Become(t, q)) \/ Become(t, Unwind(r, "failed"))
      BY <1>19 DEF Bumped, r
    <2>3. (\A q \in AddResult(r) : Leads(r, q)) /\ Leads(r, Unwind(r, "failed"))
      BY <1>1, <2>1, ToolEndsInv
    <2> QED  BY <1>1, <1>2, <2>1, <2>2, <2>3 DEF Executing
  <1>20. CASE SaveFails(t)
    <2>1. r.pc = "saving" /\ prefMode' = prefMode
      BY <1>20 DEF SaveFails, r
    <2>2. Become(t, IF r.verdict = "succeeded" THEN Unwind(r, "failed")
                    ELSE Finish(r, "failed"))
      BY <1>20 DEF SaveFails, r
    <2>3. /\ r.verdict = "succeeded" => Leads(r, Unwind(r, "failed"))
          /\ Leads(r, Finish(r, "failed"))
      BY <1>1, <2>1, SaveFailsInv
    <2> QED  BY <1>1, <1>2, <2>1, <2>2, <2>3 DEF Executing
  <1>21. CASE EmitRaises(t)
    <2>1. r.pc \in Executing /\ prefMode' = prefMode
      BY <1>21 DEF EmitRaises, Executing, r
    <2> DEFINE s == [r EXCEPT !.exchange.last = "assistant"]
    <2> DEFINE q(n) == [s EXCEPT !.round = @ + 1, !.index = 1,
                                 !.exchange.calls = @ \cup CallsOf(s, n)]
    <2>2. \/ /\ r.pc \in {"accepted", "asking", "calling", "running", "arrived"}
             /\ Become(t, Unwind(r, "failed"))
          \/ r.pc = "arrived" /\ Become(t, Unwind(s, "failed"))
          \/ r.pc = "arrived" /\ \E n \in 1..MaxCalls : Become(t, Unwind(q(n), "failed"))
          \/ r.pc = "streaming" /\ \E p \in Stopped(r) : Become(t, Unwind(p, "failed"))
      BY <1>21 DEF EmitRaises, r
    <2>3. CASE /\ r.pc \in {"accepted", "asking", "calling", "running", "arrived"}
               /\ Become(t, Unwind(r, "failed"))
      <3>1. Core(r)  BY <1>1, <2>3 DEF RunInv, Quiet, AtCall
      <3>2. Leads(r, Unwind(r, "failed"))  BY <3>1, UnwindInv DEF Terminal
      <3> QED  BY <1>1, <1>2, <2>1, <2>3, <3>2
    <2>4. CASE r.pc = "arrived" /\ Become(t, Unwind(s, "failed"))
      <3>1. Leads(r, Unwind(s, "failed"))  BY <1>3, <2>4, AssistantInv
      <3> HIDE DEF s
      <3> QED  BY <1>1, <1>2, <2>1, <2>4, <3>1
    <2>5. CASE /\ r.pc = "arrived"
               /\ \E n \in 1..MaxCalls : Become(t, Unwind(q(n), "failed"))
      <3>1. \A n \in 1..MaxCalls : Leads(r, Unwind(q(n), "failed"))
        BY <1>3, <2>5, RoundReadyInv
      <3> HIDE DEF q, s
      <3> QED  BY <1>1, <1>2, <2>1, <2>5, <3>1
    <2>6. CASE /\ r.pc = "streaming"
               /\ \E p \in Stopped(r) : Become(t, Unwind(p, "failed"))
      <3>1. \A p \in Stopped(r) : Leads(r, Unwind(p, "failed"))
        BY <1>3, <2>6, StreamCancelledInv
      <3> QED  BY <1>1, <1>2, <2>1, <2>6, <3>1
    <2> HIDE DEF q, s
    <2> QED  BY <2>2, <2>3, <2>4, <2>5, <2>6
  <1> QED  BY <1>5, <1>6, <1>7, <1>8, <1>9, <1>11, <1>12, <1>13, <1>14, <1>15, <1>16,
              <1>17, <1>18, <1>19, <1>20, <1>21

LEMMA WaitingLeads ==
    ASSUME EngineInv, NEW t \in Turn, StreamEnds(t) \/ AnswerArrives(t) \/ Cancel(t)
    PROVE  EngineStep(t)
  <1> DEFINE r == run[t]
  <1>1. /\ RunInv(r) /\ r \in Run /\ prefMode \in Mode
        /\ UNCHANGED <<active, closing, closed, stored, prefMode>> /\ r.pc \in Executing
    BY DEF EngineInv, TypeOK, StreamEnds, AnswerArrives, Answer, Cancel, Executing
  <1>2. ASSUME NEW q, Leads(r, q), q.pc # "done", run' = [run EXCEPT ![t] = q]
        PROVE  EngineStep(t)
    <2>1. q.pc \notin {"refused", "done"}  BY <1>2 DEF Leads, Executing
    <2>2. Become(t, q)  BY <1>1, <1>2, <2>1 DEF Become
    <2> QED  BY <1>1, <1>2, <2>2 DEF EngineStep, Leads, RunInv
  <1>3. CASE StreamEnds(t)
    <2>1. PICK o \in {"ok", "failed", "context"} :
              run' = [run EXCEPT ![t] = [r EXCEPT !.pc = "arrived", !.outcome = o]]
      BY <1>3 DEF StreamEnds, EngineInv, TypeOK
    <2>2. r.pc = "streaming"  BY <1>3 DEF StreamEnds
    <2> DEFINE q == [r EXCEPT !.pc = "arrived", !.outcome = o]
    <2>3. Leads(r, q)  BY <1>1, <2>2, WaitingInv
    <2>4. q.pc = "arrived"  BY <1>1 DEF Run
    <2> HIDE DEF q, r
    <2> QED  BY <1>2, <2>1, <2>3, <2>4 DEF q
  <1>4. CASE AnswerArrives(t)
    <2>1. PICK a \in Offered(r.stage) :
              run' = [run EXCEPT ![t] =
                         [r EXCEPT !.answer = a, !.consent = @ \cup ConsentOf(r, a)]]
      BY <1>4 DEF AnswerArrives, Answer, EngineInv, TypeOK
    <2>2. r.pc = "asking"  BY <1>4 DEF AnswerArrives, Answer
    <2> DEFINE q == [r EXCEPT !.answer = a, !.consent = @ \cup ConsentOf(r, a)]
    <2>3. Leads(r, q)  BY <1>1, <2>2, WaitingInv
    <2>4. q.pc = "asking"  BY <1>1, <2>2 DEF Run
    <2> HIDE DEF q, r
    <2> QED  BY <1>2, <2>1, <2>3, <2>4 DEF q
  <1>5. CASE Cancel(t)
    <2> DEFINE q == [r EXCEPT !.token = TRUE, !.status = "stopping"]
    <2>1. run' = [run EXCEPT ![t] = q]  BY <1>5 DEF Cancel, EngineInv, TypeOK
    <2>2. Leads(r, q)  BY <1>1, WaitingInv
    <2>3. q.pc # "done"  BY <1>1 DEF Run, Executing
    <2> HIDE DEF q, r
    <2> QED  BY <1>2, <2>1, <2>2, <2>3
  <1> QED  BY <1>3, <1>4, <1>5

(* A submission goes on, is refused, or is aborted with the lease. *)
LEMMA SubmitsKeep ==
    ASSUME EngineInv, NEW t \in Turn, Admit(t) \/ Submits(t) \/ Abort(t)
    PROVE  EngineInv'
  <1> DEFINE r == run[t]
  <1>1. /\ TypeOK /\ LeaseMeansTurn /\ BaseIsStored /\ \A u \in Turn : RunInv(run[u])
        /\ SessionOf \in [Turn -> Session] /\ NoTurn \notin Turn /\ r \in Run
    BY TurnAssumption DEF EngineInv, TypeOK
  <1>2. UNCHANGED <<closing, closed, stored, prefMode>>
    BY DEF Admit, Submits, Load, Accept, Abort
  <1>3. /\ stored' \in [Session -> SUBSET Turn]
        /\ \A s \in Session : s # SessionOf[t] => stored'[s] = stored[s]
        /\ closing' \in BOOLEAN /\ closed' \in BOOLEAN /\ prefMode' \in Mode
    BY <1>1, <1>2 DEF TypeOK
  <1>4. Refused \in Run /\ RunInv(Refused) /\ Refused.pc = "refused"
    BY NewRunInv DEF RunInv, Refused, NewRun
  <1>5. ASSUME Become(t, Refused), r.pc \in Live PROVE EngineInv'
    BY <1>3, <1>4, <1>5, MoveKeeps DEF Executing
  <1>6. CASE Load(t)
    <2> DEFINE q == [r EXCEPT !.pc = "resolving", !.base = stored[SessionOf[t]]]
    <2>1. r.pc = "loading" /\ r.pc \in Live /\ (Become(t, q) \/ Become(t, Refused))
      BY <1>6 DEF Load, Live, Submitting
    <2>2. q \in Run /\ q.pc = "resolving" /\ q.base = stored[SessionOf[t]]
      BY <1>1 DEF TypeOK, Run, Live, Submitting
    <2>3. /\ q.status = r.status /\ q.kept = r.kept /\ q.exchange = r.exchange
          /\ q.ran = r.ran /\ q.round = r.round
      BY <1>1 DEF Run
    <2> HIDE DEF q
    <2>4. RunInv(q)  BY <1>1, <2>1, <2>2, <2>3 DEF RunInv, Submitting
    <2>5. Become(t, q) => EngineInv'
      BY <1>2, <1>3, <2>1, <2>2, <2>4, MoveKeeps DEF Live, Submitting
    <2> QED  BY <1>5, <2>1, <2>5
  <1>7. CASE Accept(t)
    <2> DEFINE q == [r EXCEPT !.pc = "accepted", !.status = "accepted", !.mode = prefMode]
    <2>1. r.pc = "resolving" /\ r.pc \in Live /\ (Become(t, q) \/ Become(t, Refused))
      BY <1>7 DEF Accept, Live, Submitting
    <2>2. q \in Run /\ q.pc = "accepted" /\ q.status = "accepted" /\ q.base = r.base
      BY <1>1 DEF TypeOK, Run, Live, Executing, Status
    <2>3. /\ q.kept = r.kept /\ q.exchange = r.exchange
          /\ q.ran = r.ran /\ q.round = r.round
      BY <1>1 DEF Run
    <2>4. /\ r.kept = NoExchange /\ r.exchange = NoExchange /\ r.ran = {} /\ r.round = 0
      BY <1>1, <2>1 DEF RunInv, Submitting
    <2> HIDE DEF q
    <2>5. Quiet(q)
      BY <2>2, <2>3, <2>4, TurnAssumption DEF Quiet, Core, NoExchange, Unanswered, Terminal
    <2>6. RunInv(q)  BY <2>2, <2>5 DEF RunInv, Submitting
    <2>7. q.base \subseteq stored'[SessionOf[t]]
      BY <1>1, <1>2, <2>1, <2>2 DEF BaseIsStored
    <2>8. q.pc \in Live  BY <2>2 DEF Live, Executing
    <2>9. Become(t, q) => EngineInv'
      BY <1>3, <2>1, <2>2, <2>6, <2>7, <2>8, MoveKeeps
    <2> QED  BY <1>5, <2>1, <2>9
  <1>8. CASE Admit(t)
    <2> DEFINE q == [r EXCEPT !.pc = "loading"]
    <2>1. /\ r.pc = "idle" /\ active[SessionOf[t]] = NoTurn
          /\ run' = [run EXCEPT ![t] = q]
          /\ active' = [active EXCEPT ![SessionOf[t]] = t]
      BY <1>1, <1>8 DEF Admit, TypeOK
    <2>2. q \in Run /\ q.pc = "loading"  BY <1>1 DEF Run, Live, Submitting
    <2>3. /\ q.status = r.status /\ q.kept = r.kept /\ q.exchange = r.exchange
          /\ q.ran = r.ran /\ q.round = r.round
      BY <1>1 DEF Run
    <2> HIDE DEF q
    <2>4. RunInv(q)  BY <1>1, <2>1, <2>2, <2>3 DEF RunInv, Submitting
    <2>5. run'[t] = q /\ \A u \in Turn : u # t => run'[u] = run[u]
      BY <1>1, <2>1 DEF TypeOK
    <2>6. TypeOK'  BY <1>1, <1>2, <2>1, <2>2 DEF TypeOK
    <2>7. (\A u \in Turn : RunInv(run[u]))'  BY <1>1, <2>4, <2>5
    <2>8. LeaseMeansTurn'
      <3>1. ASSUME NEW u \in Turn
            PROVE  active'[SessionOf[u]] = u <=> run'[u].pc \in Live \cup {"aborted"}
        <4>1. CASE u = t
          BY <1>1, <2>1, <2>2, <2>5, <4>1 DEF TypeOK, Live, Submitting
        <4>2. CASE u # t /\ SessionOf[u] = SessionOf[t]
          BY <1>1, <2>1, <2>5, <4>2 DEF TypeOK, LeaseMeansTurn
        <4>3. CASE u # t /\ SessionOf[u] # SessionOf[t]
          BY <1>1, <2>1, <2>5, <4>3 DEF TypeOK, LeaseMeansTurn
        <4> QED  BY <4>1, <4>2, <4>3
      <3> QED  BY <3>1 DEF LeaseMeansTurn
    <2>9. BaseIsStored'
      BY <1>1, <1>2, <2>2, <2>5 DEF BaseIsStored, Executing
    <2> QED  BY <2>6, <2>7, <2>8, <2>9 DEF EngineInv
  <1>9. CASE Abort(t)
    <2> DEFINE q == [r EXCEPT !.pc = "aborted"]
    <2>1. /\ r.pc \in Submitting /\ run' = [run EXCEPT ![t] = q] /\ active' = active
      BY <1>1, <1>9 DEF Abort, TypeOK
    <2>2. q \in Run /\ q.pc = "aborted"  BY <1>1 DEF Run
    <2>3. /\ q.status = r.status /\ q.kept = r.kept /\ q.exchange = r.exchange
          /\ q.ran = r.ran /\ q.round = r.round
      BY <1>1 DEF Run
    <2> HIDE DEF q
    <2>4. RunInv(q)  BY <1>1, <2>1, <2>2, <2>3 DEF RunInv, Submitting
    <2>5. run'[t] = q /\ \A u \in Turn : u # t => run'[u] = run[u]
      BY <1>1, <2>1 DEF TypeOK
    <2>6. TypeOK'  BY <1>1, <1>2, <2>1, <2>2 DEF TypeOK
    <2>7. (\A u \in Turn : RunInv(run[u]))'  BY <1>1, <2>4, <2>5
    <2>8. LeaseMeansTurn'
      BY <1>1, <2>1, <2>2, <2>5 DEF LeaseMeansTurn, Live
    <2>9. BaseIsStored'
      BY <1>1, <1>2, <2>2, <2>5 DEF BaseIsStored, Executing
    <2> QED  BY <2>6, <2>7, <2>8, <2>9 DEF EngineInv
  <1> QED  BY <1>6, <1>7, <1>8, <1>9 DEF Submits

LEMMA SaveKeeps == ASSUME EngineInv, NEW t \in Turn, Save(t) PROVE EngineInv'
  <1> DEFINE r == run[t]
  <1> DEFINE q == Finish([r EXCEPT !.kept = r.exchange], r.verdict)
  <1>1. /\ r.pc = "saving" /\ RunInv(r) /\ r.pc \in Live
        /\ Become(t, q) /\ UNCHANGED <<closing, closed, prefMode>>
        /\ stored' = [stored EXCEPT ![SessionOf[t]] = Earlier(r) \cup {t}]
    BY DEF Save, EngineInv, Live, Executing
  <1>2. Earlier(r) \cup {t} \subseteq Turn  BY <1>1 DEF Earlier, RunInv, Run
  <1>3. /\ stored' \in [Session -> SUBSET Turn]
        /\ \A s \in Session : s # SessionOf[t] => stored'[s] = stored[s]
        /\ closing' \in BOOLEAN /\ closed' \in BOOLEAN /\ prefMode' \in Mode
    BY <1>1, <1>2 DEF EngineInv, TypeOK
  <1>4. RunInv(q) /\ q.pc = "done"  BY <1>1, SaveInv
  <1> HIDE DEF r, q
  <1>5. q \in Run  BY <1>4 DEF RunInv
  <1>6. run[t].pc \in Live  BY <1>1 DEF r
  <1> QED  BY <1>1, <1>3, <1>4, <1>5, <1>6, MoveKeeps DEF Executing

LEMMA OthersKeep ==
    ASSUME EngineInv, CloseAdmission \/ CloseResources
                      \/ (\E mode \in UserModes : SetMode(mode)) \/ UNCHANGED vars
    PROVE  EngineInv'
  <1>1. UNCHANGED <<run, active, stored>>
    BY DEF CloseAdmission, CloseResources, SetMode, vars
  <1>2. closing' \in BOOLEAN /\ closed' \in BOOLEAN /\ prefMode' \in Mode
    BY TurnAssumption DEF EngineInv, TypeOK, CloseAdmission, CloseResources, SetMode, vars
  <1>3. TypeOK'  BY <1>1, <1>2 DEF EngineInv, TypeOK
  <1>4. (\A t \in Turn : RunInv(run[t]))'  BY <1>1 DEF EngineInv
  <1>5. LeaseMeansTurn'  BY <1>1 DEF EngineInv, LeaseMeansTurn
  <1>6. BaseIsStored'  BY <1>1 DEF EngineInv, BaseIsStored
  <1> QED  BY <1>3, <1>4, <1>5, <1>6 DEF EngineInv

(* What a step is, for whoever proves something about all of them. *)
LEMMA StepKinds ==
    ASSUME EngineInv, [Next]_vars
    PROVE  \/ \E t \in Turn : Admit(t) \/ Submits(t) \/ Abort(t) \/ Save(t) \/ EngineStep(t)
           \/ CloseAdmission \/ CloseResources
           \/ \E mode \in UserModes : SetMode(mode)
           \/ UNCHANGED vars
  <1>1. ASSUME NEW t \in Turn, Resumes(t) PROVE Save(t) \/ EngineStep(t)
    BY <1>1, ResumesLead DEF Resumes
  <1>2. ASSUME NEW t \in Turn, StreamEnds(t) \/ AnswerArrives(t) \/ Cancel(t)
        PROVE  EngineStep(t)
    BY <1>2, WaitingLeads
  <1> QED  BY <1>1, <1>2 DEF Next

LEMMA StepKeeps == EngineInv /\ [Next]_vars => EngineInv'
  <1> SUFFICES ASSUME EngineInv, [Next]_vars PROVE EngineInv'  OBVIOUS
  <1> QED  BY StepKinds, SubmitsKeep, SaveKeeps, EngineStepKeeps, OthersKeep

(* EngineInv is an invariant of the engine: the types, the lease, what the *)
(* record held when a turn was loaded, and the state of each run where it  *)
(* is suspended.                                                           *)
THEOREM EngineInvariant == Spec => []EngineInv
  BY InitEstablishes, StepKeeps, PTL DEF Spec

(* For any turns, sessions and limits: every variable has its type, and a  *)
(* session's lease is held by exactly the turn between its admission and   *)
(* its end.                                                                *)
THEOREM LeaseAlwaysMeansTurn == Spec => [](TypeOK /\ LeaseMeansTurn)
  <1>1. EngineInv => TypeOK /\ LeaseMeansTurn  BY DEF EngineInv
  <1> QED  BY <1>1, EngineInvariant, PTL

(* A tool never runs without consent or a mode that covers the call.       *)
THEOREM NeverRunsWithoutConsent == Spec => []NoConsentNoRun
  <1>1. EngineInv => NoConsentNoRun
    <2> SUFFICES ASSUME EngineInv, NEW t \in Turn, NEW c \in run[t].ran \ run[t].consent
                 PROVE  Authorized(run[t].mode, c)
      BY DEF NoConsentNoRun
    <2>1. RunInv(run[t])  BY DEF EngineInv
    <2>2. run[t].pc \in {"idle", "refused", "aborted", "done"} \cup Live  BY <2>1 DEF RunInv, Run
    <2> QED  BY <2>1, <2>2 DEF RunInv, Live, Submitting, Executing, Quiet, AtCall, Core
  <1> QED  BY <1>1, EngineInvariant, PTL

(* A turn that reports an end has ended.                                   *)
LEMMA ReportsWhenDone ==
    ASSUME EngineInv, NEW t \in Turn, run[t].status \in Terminal
    PROVE  RunInv(run[t]) /\ run[t].pc = "done"
  <1>1. RunInv(run[t])  BY DEF EngineInv
  <1>2. run[t].pc \in {"idle", "refused", "aborted", "done"} \cup Live  BY <1>1 DEF RunInv, Run
  <1> QED
    BY <1>1, <1>2 DEF RunInv, Live, Submitting, Executing, Quiet, AtCall, Core, Terminal

(* If no tool raises CancelledError, a turn that reports a success is in   *)
(* the record whole, and every call of it has its result.                  *)
THEOREM ReportedIsSaved == ASSUME ~ToolsMayRaise PROVE Spec => []SucceededIsSaved
  <1>1. EngineInv => SucceededIsSaved
    BY ReportsWhenDone DEF SucceededIsSaved, RunInv, Terminal
  <1> QED  BY <1>1, EngineInvariant, PTL

(* Whatever the tools raise, a cancelled turn keeps what it did: what it   *)
(* appended to the history, and a result for every effect of a tool.       *)
THEOREM CancelledKeepsItsWork ==
    Spec => [](/\ CancelledIsSaved
               /\ \A t \in Turn :
                     run[t].status = "cancelled" => run[t].ran \subseteq run[t].kept.results)
  <1>1. EngineInv =>
            /\ CancelledIsSaved
            /\ \A t \in Turn :
                  run[t].status = "cancelled" => run[t].ran \subseteq run[t].kept.results
    BY ReportsWhenDone DEF CancelledIsSaved, RunInv, Terminal
  <1> QED  BY <1>1, EngineInvariant, PTL

(* If no tool raises CancelledError, a success hides no effect either: each *)
(* has its result in the record.                                           *)
THEOREM NoEffectIsLost == ASSUME ~ToolsMayRaise PROVE Spec => []EffectsAreRecorded
  <1>1. EngineInv => EffectsAreRecorded
    BY ReportsWhenDone DEF EffectsAreRecorded, RunInv, Terminal
  <1> QED  BY <1>1, EngineInvariant, PTL

----------------------------------------------------------------------------
(* After a cancellation the run starts no tool but the MCP tool it is at,   *)
(* and the result of its call is the last, on whichever path it is: what    *)
(* ran and the results only change by a step of the engine, and each of     *)
(* them halts a cancelled run (Halts).                                      *)
THEOREM CancelHaltsTheRun == Spec => CancelStopsTheLoop
  <1> DEFINE Halted(t) ==
                 /\ run'[t].ran \ run[t].ran \subseteq {CurrentCall(run[t])} \cap Mcp
                 /\ run'[t].exchange.results # run[t].exchange.results =>
                       run'[t].pc = "saving"
  <1> DEFINE Same(t) == /\ run'[t].ran = run[t].ran
                        /\ run'[t].exchange.results = run[t].exchange.results
  <1>1. ASSUME EngineInv, [Next]_vars, NEW t \in Turn, run[t].token
        PROVE  Halted(t)
    <2>0. \A u \in Turn : run[u] \in Run  BY <1>1 DEF EngineInv, RunInv
    <2>1. ASSUME NEW u \in Turn, NEW q, run' = [run EXCEPT ![u] = q], u # t
          PROVE  Same(t)
      BY <1>1, <2>1 DEF EngineInv, TypeOK
    <2>2. ASSUME NEW u \in Turn, EngineStep(u) PROVE Halted(t)
      <3>1. PICK q \in Run : Leads(run[u], q) /\ run' = [run EXCEPT ![u] = q]
        BY <2>2 DEF EngineStep, Become
      <3>2. CASE u = t
        <4>1. run'[t] = q  BY <1>1, <3>1, <3>2 DEF EngineInv, TypeOK
        <4>2. Halts(run[t], q)  BY <3>1, <3>2 DEF Leads
        <4> QED  BY <1>1, <4>1, <4>2 DEF Halts
      <3>3. CASE u # t  BY <2>1, <3>1, <3>3
      <3> QED  BY <3>2, <3>3
    <2>3. ASSUME NEW u \in Turn, Save(u) PROVE Same(t)
      <3> DEFINE k == [run[u] EXCEPT !.kept = run[u].exchange]
      <3>1. /\ k \in Run /\ k.ran = run[u].ran /\ run[u].verdict \in Terminal
            /\ k.exchange = run[u].exchange
        BY <2>0 DEF Run
      <3>2. run' = [run EXCEPT ![u] = Finish(k, run[u].verdict)]
        BY <2>3 DEF Save, Become
      <3> HIDE DEF k
      <3>3. /\ Finish(k, run[u].verdict).ran = run[u].ran
            /\ Finish(k, run[u].verdict).exchange = run[u].exchange
        BY <3>1, FinishKeeps
      <3> QED  BY <1>1, <3>2, <3>3 DEF EngineInv, TypeOK
    <2>4. ASSUME NEW u \in Turn, Admit(u) \/ Submits(u) \/ Abort(u)
          PROVE  Same(t)
      <3> DEFINE r == run[u]
      <3>1. /\ r.ran = {} /\ Refused.ran = {} /\ r \in Run
            /\ r.exchange = NoExchange /\ Refused.exchange = NoExchange
        BY <1>1, <2>0, <2>4 DEF EngineInv, RunInv, Admit, Submits, Load, Accept, Abort,
                                Submitting, Refused, NewRun
      <3>2. PICK q \in {Refused, [r EXCEPT !.pc = "loading"], [r EXCEPT !.pc = "aborted"],
                        [r EXCEPT !.pc = "resolving", !.base = stored[SessionOf[u]]],
                        [r EXCEPT !.pc = "accepted", !.status = "accepted",
                                  !.mode = prefMode]} :
                    run' = [run EXCEPT ![u] = q]
        BY <1>1, <2>4 DEF EngineInv, TypeOK, Admit, Submits, Load, Accept, Abort, Become
      <3>3. q.ran = {} /\ q.exchange = NoExchange  BY <3>1 DEF Run
      <3> QED  BY <1>1, <3>1, <3>2, <3>3 DEF EngineInv, TypeOK
    <2>5. CloseAdmission \/ CloseResources \/ (\E mode \in UserModes : SetMode(mode))
             \/ UNCHANGED vars => Same(t)
      BY DEF CloseAdmission, CloseResources, SetMode, vars
    <2> QED  BY <1>1, <2>2, <2>3, <2>4, <2>5, StepKinds
  <1>2. EngineInv /\ [Next]_vars =>
            [\A t \in Turn : run[t].token => Halted(t)]_vars
    BY <1>1
  <1> QED  BY <1>2, EngineInvariant, PTL DEF Spec, CancelStopsTheLoop

----------------------------------------------------------------------------
(* The engine implements the contract. *)
LEMMA MapsPhase ==
    ASSUME TypeOK, NEW t \in Turn, NEW q, run' = [run EXCEPT ![t] = q]
    PROVE  phase' = [phase EXCEPT ![t] = PhaseOf(q)]
  <1>1. run'[t] = q /\ \A u \in Turn : u # t => run'[u] = run[u]  BY DEF TypeOK
  <1>2. phase' = [u \in Turn |-> PhaseOf(run'[u])]  BY DEF phase, PhaseOf
  <1>3. phase = [u \in Turn |-> PhaseOf(run[u])]  BY DEF phase
  <1>4. \A u \in Turn : phase'[u] = IF u = t THEN PhaseOf(q) ELSE phase[u]
    BY <1>1, <1>2, <1>3
  <1> QED  BY <1>2, <1>3, <1>4

LEMMA MapsOutcome ==
    ASSUME TypeOK, NEW t \in Turn, NEW q, run' = [run EXCEPT ![t] = q]
    PROVE  outcome' = [outcome EXCEPT ![t] = OutcomeOf(q)]
  <1>1. run'[t] = q /\ \A u \in Turn : u # t => run'[u] = run[u]  BY DEF TypeOK
  <1>2. outcome' = [u \in Turn |-> OutcomeOf(run'[u])]  BY DEF outcome, OutcomeOf
  <1>3. outcome = [u \in Turn |-> OutcomeOf(run[u])]  BY DEF outcome
  <1>4. \A u \in Turn : outcome'[u] = IF u = t THEN OutcomeOf(q) ELSE outcome[u]
    BY <1>1, <1>2, <1>3
  <1> QED  BY <1>2, <1>3, <1>4

LEMMA MapsNow ==
    ASSUME NEW t \in Turn
    PROVE  phase[t] = PhaseOf(run[t]) /\ outcome[t] = OutcomeOf(run[t])
  BY DEF phase, outcome

(* Functions on the turns that do not change at t do not change. *)
LEMMA SameAt ==
    ASSUME NEW t \in Turn, phase' = [phase EXCEPT ![t] = phase[t]]
    PROVE  phase' = phase
  <1>1. phase = [u \in Turn |-> phase[u]]  BY DEF phase
  <1> QED  BY <1>1

LEMMA SameOutcomeAt ==
    ASSUME NEW t \in Turn, outcome' = [outcome EXCEPT ![t] = outcome[t]]
    PROVE  outcome' = outcome
  <1>1. outcome = [u \in Turn |-> outcome[u]]  BY DEF outcome
  <1> QED  BY <1>1

LEMMA LiveMaps ==
    ASSUME NEW r, r.pc \in Live
    PROVE  PhaseOf(r) = "admitted" /\ OutcomeOf(r) = "none"
  BY DEF PhaseOf, OutcomeOf, Live, Submitting, Executing

(* Between admission and end the contract sees nothing. *)
LEMMA MovingStutters ==
    ASSUME EngineInv, NEW t \in Turn, run[t].pc \in Live,
           NEW q, q.pc \in Live, Become(t, q), UNCHANGED stored
    PROVE  UNCHANGED Contract!contractVars
  <1>1. TypeOK /\ run' = [run EXCEPT ![t] = q]  BY DEF EngineInv, Become
  <1>2. /\ PhaseOf(q) = "admitted" /\ OutcomeOf(q) = "none"
        /\ PhaseOf(run[t]) = "admitted" /\ OutcomeOf(run[t]) = "none"
    BY LiveMaps
  <1>3a. phase' = [phase EXCEPT ![t] = PhaseOf(q)]  BY <1>1, MapsPhase
  <1>3b. outcome' = [outcome EXCEPT ![t] = OutcomeOf(q)]  BY <1>1, MapsOutcome
  <1>3c. phase[t] = "admitted" /\ outcome[t] = "none"  BY <1>2, MapsNow
  <1>3. /\ phase' = [phase EXCEPT ![t] = phase[t]]
        /\ outcome' = [outcome EXCEPT ![t] = outcome[t]]
    BY <1>2, <1>3a, <1>3b, <1>3c
  <1>4. UNCHANGED <<phase, outcome>>  BY <1>3, SameAt, SameOutcomeAt
  <1>5. active' = active  BY DEF Become, Live, Submitting, Executing
  <1> QED  BY <1>4, <1>5 DEF Contract!contractVars

(* The end of a turn, for the contract. *)
LEMMA EndingMaps ==
    ASSUME EngineInv, NEW t \in Turn, run[t].pc \in Live,
           NEW q, q.pc \in {"refused", "done"}, Become(t, q)
    PROVE  Contract!EndTurn(t, IF q.pc = "refused" THEN "refused" ELSE q.status)
  <1>1. TypeOK /\ run' = [run EXCEPT ![t] = q]  BY DEF EngineInv, Become
  <1>2. PhaseOf(run[t]) = "admitted"  BY LiveMaps
  <1>3. /\ PhaseOf(q) = "ended"
        /\ OutcomeOf(q) = IF q.pc = "refused" THEN "refused" ELSE q.status
    BY DEF PhaseOf, OutcomeOf
  <1>4. active[SessionOf[t]] = t  BY DEF EngineInv, LeaseMeansTurn
  <1>5. active' = [active EXCEPT ![SessionOf[t]] = NoTurn]  BY DEF Become
  <1> DEFINE v == IF q.pc = "refused" THEN "refused" ELSE q.status
  <1>6. phase' = [phase EXCEPT ![t] = "ended"] /\ outcome' = [outcome EXCEPT ![t] = v]
    <2>1. PhaseOf(q) = "ended" /\ OutcomeOf(q) = v  BY <1>3
    <2> HIDE DEF v
    <2>2. phase' = [phase EXCEPT ![t] = PhaseOf(q)]  BY <1>1, MapsPhase
    <2>3. outcome' = [outcome EXCEPT ![t] = OutcomeOf(q)]  BY <1>1, MapsOutcome
    <2> QED  BY <2>1, <2>2, <2>3
  <1>7. phase[t] = "admitted"  BY <1>2, MapsNow
  <1> HIDE DEF v
  <1>8. Contract!EndTurn(t, v)  BY <1>4, <1>5, <1>6, <1>7 DEF Contract!EndTurn
  <1> QED  BY <1>8 DEF v

LEMMA StepImplements ==
    ASSUME ~ToolsMayRaise, EngineInv, [Next]_vars
    PROVE  [Contract!ContractNext]_(Contract!contractVars)
  <1>0. TypeOK  BY DEF EngineInv
  <1>1. ASSUME NEW t \in Turn, Admit(t) PROVE Contract!AdmitTurn(t)
    <2> DEFINE q == [run[t] EXCEPT !.pc = "loading"]
    <2>1. /\ run' = [run EXCEPT ![t] = q] /\ run[t].pc = "idle"
          /\ active[SessionOf[t]] = NoTurn
          /\ active' = [active EXCEPT ![SessionOf[t]] = t] /\ stored' = stored
      BY <1>0, <1>1 DEF Admit, TypeOK
    <2>2. q.pc = "loading"  BY <1>0 DEF TypeOK, Run
    <2> HIDE DEF q
    <2>3. PhaseOf(q) = "admitted" /\ OutcomeOf(q) = "none"
      BY <2>2, LiveMaps DEF Live, Submitting
    <2>4. phase[t] = "idle" /\ outcome[t] = "none"
      BY <2>1, MapsNow DEF PhaseOf, OutcomeOf
    <2>5a. phase' = [phase EXCEPT ![t] = PhaseOf(q)]  BY <1>0, <2>1, MapsPhase
    <2>5b. outcome' = [outcome EXCEPT ![t] = OutcomeOf(q)]  BY <1>0, <2>1, MapsOutcome
    <2>5. /\ phase' = [phase EXCEPT ![t] = "admitted"]
          /\ outcome' = [outcome EXCEPT ![t] = "none"]
      BY <2>3, <2>5a, <2>5b
    <2>7. outcome' = outcome  BY <2>4, <2>5, SameOutcomeAt
    <2> QED  BY <2>1, <2>4, <2>5, <2>7 DEF Contract!AdmitTurn
  <1>2. ASSUME NEW t \in Turn, Submits(t)
        PROVE  UNCHANGED Contract!contractVars \/ Contract!EndUnsaved(t)
    <2>1. run[t].pc \in Live /\ stored' = stored /\ run[t] \in Run
      BY <1>0, <1>2 DEF Submits, Load, Accept, Live, Submitting, TypeOK
    <2>2. PICK q : Become(t, q) /\ q.pc \in {"resolving", "accepted", "refused"}
      <3>1. Refused.pc = "refused"  BY DEF Refused, NewRun
      <3>2. [run[t] EXCEPT !.pc = "resolving", !.base = stored[SessionOf[t]]].pc
                = "resolving"
        BY <2>1 DEF Run
      <3>3. [run[t] EXCEPT !.pc = "accepted", !.status = "accepted",
                           !.mode = prefMode].pc = "accepted"
        BY <2>1 DEF Run
      <3> QED  BY <1>2, <3>1, <3>2, <3>3 DEF Submits, Load, Accept
    <2>3. CASE q.pc = "refused"
      <3>1. Contract!EndTurn(t, "refused")  BY <2>1, <2>2, <2>3, EndingMaps
      <3> QED  BY <2>1, <3>1 DEF Contract!EndUnsaved
    <2>4. CASE q.pc # "refused"
      <3>1. q.pc \in Live  BY <2>2, <2>4 DEF Live, Submitting, Executing
      <3> QED  BY <2>1, <2>2, <3>1, MovingStutters
    <2> QED  BY <2>3, <2>4
  <1>3. ASSUME NEW t \in Turn, Abort(t) PROVE UNCHANGED Contract!contractVars
    <2> DEFINE q == [run[t] EXCEPT !.pc = "aborted"]
    <2>1. /\ run' = [run EXCEPT ![t] = q] /\ run[t].pc \in Live
          /\ UNCHANGED <<active, stored>>
      BY <1>0, <1>3 DEF Abort, TypeOK, Live
    <2>2. q.pc = "aborted"  BY <1>0 DEF TypeOK, Run
    <2> HIDE DEF q
    <2>3. PhaseOf(q) = "admitted" /\ OutcomeOf(q) = "none"
      BY <2>2 DEF PhaseOf, OutcomeOf
    <2>4. phase[t] = "admitted" /\ outcome[t] = "none"  BY <2>1, MapsNow, LiveMaps
    <2>5a. phase' = [phase EXCEPT ![t] = PhaseOf(q)]  BY <1>0, <2>1, MapsPhase
    <2>5b. outcome' = [outcome EXCEPT ![t] = OutcomeOf(q)]  BY <1>0, <2>1, MapsOutcome
    <2>5. /\ phase' = [phase EXCEPT ![t] = "admitted"]
          /\ outcome' = [outcome EXCEPT ![t] = "none"]
      BY <2>3, <2>5a, <2>5b
    <2>7. UNCHANGED <<phase, outcome>>  BY <2>4, <2>5, SameAt, SameOutcomeAt
    <2> QED  BY <2>1, <2>7 DEF Contract!contractVars
  <1>4. ASSUME NEW t \in Turn, Save(t) PROVE Contract!EndSaved(t)
    <2> DEFINE r == run[t]
    <2> DEFINE q == Finish([r EXCEPT !.kept = r.exchange], r.verdict)
    <2>1. /\ r.pc = "saving" /\ RunInv(r) /\ Become(t, q) /\ r.base \subseteq stored[SessionOf[t]]
          /\ stored' = [stored EXCEPT ![SessionOf[t]] = Earlier(r) \cup {t}]
      BY <1>4 DEF Save, EngineInv, BaseIsStored, Executing
    <2>2. q.pc = "done" /\ q.status \in Terminal  BY <2>1, SaveInv
    <2>3. run[t].pc \in Live  BY <2>1 DEF Live, Executing
    <2>4. Earlier(r) \in SUBSET stored[SessionOf[t]]  BY <2>1 DEF Earlier
    <2> HIDE DEF q, r
    <2>5. Contract!EndTurn(t, q.status)  BY <2>1, <2>2, <2>3, EndingMaps
    <2> QED  BY <2>1, <2>2, <2>4, <2>5 DEF Contract!EndSaved, Terminal
  <1>5. ASSUME NEW t \in Turn, EngineStep(t)
        PROVE  UNCHANGED Contract!contractVars \/ Contract!EndUnsaved(t)
    <2>1. PICK q \in Run : Leads(run[t], q) /\ Become(t, q)  BY <1>5 DEF EngineStep
    <2>2. run[t].pc \in Live /\ stored' = stored  BY <1>5 DEF EngineStep, Live
    <2>3. CASE q.pc = "done"
      <3>1. q.status \in {"cancelled", "failed"}
        BY <2>1, <2>3 DEF Leads, RunInv, Terminal
      <3>2. Contract!EndTurn(t, q.status)  BY <2>1, <2>2, <2>3, EndingMaps
      <3> QED  BY <2>2, <3>1, <3>2 DEF Contract!EndUnsaved
    <2>4. CASE q.pc # "done"
      <3>1. q.pc \in Live  BY <2>1, <2>4 DEF Leads, Live
      <3> QED  BY <2>1, <2>2, <3>1, MovingStutters
    <2> QED  BY <2>3, <2>4
  <1>6. ASSUME \/ CloseAdmission \/ CloseResources
               \/ (\E mode \in UserModes : SetMode(mode)) \/ UNCHANGED vars
        PROVE  UNCHANGED Contract!contractVars
    <2>1. UNCHANGED <<run, active, stored>>
      BY <1>6 DEF CloseAdmission, CloseResources, SetMode, vars
    <2> QED  BY <2>1 DEF Contract!contractVars, phase, outcome, PhaseOf, OutcomeOf
  <1> QED
    BY <1>1, <1>2, <1>3, <1>4, <1>5, <1>6, StepKinds DEF Contract!ContractNext, Contract!End

LEMMA InitImplements == Init => Contract!ContractInit
  <1> SUFFICES ASSUME Init PROVE Contract!ContractInit  OBVIOUS
  <1>1. \A t \in Turn : run[t].pc = "idle"  BY DEF Init, NewRun
  <1>2. \A t \in Turn : PhaseOf(run[t]) = "idle" /\ OutcomeOf(run[t]) = "none"
    BY <1>1 DEF PhaseOf, OutcomeOf
  <1> QED  BY <1>2 DEF Init, Contract!ContractInit, phase, outcome

(* The engine implements TurnContract for any turns, sessions and limits,  *)
(* if no tool raises CancelledError: one turn per session, one end of a    *)
(* turn, and a record that only its owner writes.                          *)
THEOREM EngineImplementsContract ==
    ASSUME ~ToolsMayRaise PROVE Spec => ImplementsContract
  <1>1. EngineInv /\ [Next]_vars => [Contract!ContractNext]_(Contract!contractVars)
    BY StepImplements
  <1> QED
    BY <1>1, InitImplements, EngineInvariant, PTL
       DEF Spec, ImplementsContract, Contract!ContractSpec
=============================================================================
