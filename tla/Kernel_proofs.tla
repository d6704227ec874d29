---------------------------- MODULE Kernel_proofs ----------------------------
(* Proofs about the components the suite "kernel" explores beside the      *)
(* workspace leases, each for any values of its constants.  They share     *)
(* nothing, so each is an instance of its own.                             *)
EXTENDS KernelParts, Selections_proofs

----------------------------------------------------------------------------
(* The threaded runtime: the worker that runs is the active turn's, a      *)
(* mutation has the mutex while there is none, and only a turn that is     *)
(* about to end has started a tool since it was cancelled.                 *)
Calls(w) ==   \* a worker on the way through a call has one left
    w.at \in {"call", "tool"} \/ (w.at \in {"asking", "answered"} /\ w.about = "tool")
       => w.left >= 1
LateOK(n, c, w) ==   \* n tools were started late by the worker w, c: it is cancelled
    n \in 0..1 /\ (n = 1 => c /\ w.at \in {"tool", "final", "gone"})

InCharge(a) == api[a] \in {"closes", "joins", "shut"}   \* of the shutdown
Charged ==   \* a runtime that is closing has a shutdown in charge
    /\ down.closing <=> \E a \in Api : InCharge(a)
    /\ \A a \in Api : api[a] = "dismissed" => down.closing

RuntimeInv ==
    /\ Legacy!RuntimeTypeOK
    /\ \A t \in Legacy!Running : current = t
    /\ mutex # None => current = None
    /\ \A a \in Api : api[a] = "mutates" <=> mutex = a
    /\ Charged
    /\ Legacy!ShutdownIsHonest
    /\ \A t \in Turn : Calls(worker[t])
    /\ \A t \in Turn : LateOK(late[t], t \in cancelled, worker[t])

LEMMA RuntimeInvInit ==
    ASSUME None \notin Turn, None \notin Api, MaxCalls \in Nat
    PROVE  Legacy!Init => RuntimeInv
  <1> SUFFICES ASSUME Legacy!Init  PROVE RuntimeInv  OBVIOUS
  <1>1. \A t \in Turn : worker[t] = [at |-> "new", about |-> "tool", left |-> 0]
    BY DEF Legacy!Init
  <1>2. Legacy!RuntimeTypeOK
    BY <1>1 DEF Legacy!Init, Legacy!RuntimeTypeOK, Legacy!Worker, Legacy!Choices
  <1>3. Legacy!Running = {}  BY <1>1 DEF Legacy!Running
  <1>4. \A t \in Turn : Calls(worker[t]) /\ LateOK(late[t], t \in cancelled, worker[t])
    BY <1>1 DEF Calls, LateOK, Legacy!Init
  <1>5. \A a \in Api : api[a] = "idle" /\ mutex # a  BY DEF Legacy!Init
  <1>6. Charged /\ Legacy!ShutdownIsHonest
    BY <1>5 DEF Charged, InCharge, Legacy!Init, Legacy!ShutdownIsHonest
  <1> QED  BY <1>2, <1>3, <1>4, <1>5, <1>6 DEF RuntimeInv, Legacy!Init

(* A running worker goes on to w; turn, mutex and shutdown stay.           *)
LEMMA WorkerMoves ==
    ASSUME RuntimeInv, None \notin Turn, NEW t \in Turn, NEW w \in Legacy!Worker,
           NEW n \in 0..1,
           worker[t].at \notin {"new", "gone"}, w.at \notin {"new", "gone"},
           worker' = [worker EXCEPT ![t] = w], late' = [late EXCEPT ![t] = n],
           Calls(w), LateOK(n, t \in cancelled, w),
           choice' \in Legacy!Choices \cup {None}, level' \in 0..2, feed' \in Turn \cup {None},
           UNCHANGED <<current, cancelled, mutex, api, down>>
    PROVE  RuntimeInv'
  <1>1. /\ worker' \in [Turn -> Legacy!Worker] /\ worker'[t] = w
        /\ \A u \in Turn : u # t => worker'[u] = worker[u]
    BY DEF RuntimeInv, Legacy!RuntimeTypeOK
  <1>2. /\ late' \in [Turn -> 0..2] /\ late'[t] = n
        /\ \A u \in Turn : u # t => late'[u] = late[u]
    BY DEF RuntimeInv, Legacy!RuntimeTypeOK
  <1>3. Legacy!RuntimeTypeOK'  BY <1>1, <1>2 DEF RuntimeInv, Legacy!RuntimeTypeOK
  <1>4. Legacy!Running' = Legacy!Running
    <2>1. \A u \in Turn : worker'[u].at \notin {"new", "gone"} <=> worker[u].at \notin {"new", "gone"}
      <3> TAKE u \in Turn
      <3> QED  BY <1>1
    <2> QED  BY <2>1 DEF Legacy!Running
  <1>5. \A u \in Turn : Calls(worker'[u])
    BY <1>1 DEF RuntimeInv
  <1>6. \A u \in Turn : LateOK(late'[u], u \in cancelled', worker'[u])
    <2> TAKE u \in Turn
    <2>1. CASE u = t  BY <1>1, <1>2, <2>1
    <2>2. CASE u # t  BY <1>1, <1>2, <2>2 DEF RuntimeInv
    <2> QED  BY <2>1, <2>2
  <1>7. Legacy!ShutdownIsHonest'  BY <1>4 DEF RuntimeInv, Legacy!ShutdownIsHonest
  <1>8. Charged'  BY DEF RuntimeInv, Charged, InCharge
  <1> QED
    BY <1>3, <1>4, <1>5, <1>6, <1>7, <1>8 DEF RuntimeInv, Calls, LateOK

(* The same, when no tool is started.                                      *)
LEMMA WorkerWaits ==
    ASSUME RuntimeInv, None \notin Turn, NEW t \in Turn, NEW w \in Legacy!Worker,
           worker[t].at \notin {"new", "gone"}, w.at \notin {"new", "gone"},
           worker' = [worker EXCEPT ![t] = w],
           Calls(w), worker[t].at = "tool" => (t \in cancelled => w.at = "final"),
           worker[t].at = "final" => w.at = "final",
           choice' \in Legacy!Choices \cup {None}, level' \in 0..2, feed' \in Turn \cup {None},
           UNCHANGED <<current, cancelled, mutex, api, down, late>>
    PROVE  RuntimeInv'
  <1>1. LateOK(late[t], t \in cancelled, worker[t])  BY DEF RuntimeInv
  <1>2. late[t] \in 0..1 /\ late' = [late EXCEPT ![t] = late[t]]
    BY <1>1 DEF LateOK, RuntimeInv, Legacy!RuntimeTypeOK
  <1>3. LateOK(late[t], t \in cancelled, w)  BY <1>1 DEF LateOK
  <1>4. PICK n \in 0..1 : n = late[t]  BY <1>2
  <1> QED  BY <1>2, <1>3, <1>4, WorkerMoves

LEMMA WorkerFacts ==
    ASSUME RuntimeInv, NEW t \in Turn
    PROVE  /\ worker[t] \in Legacy!Worker
           /\ worker[t].about \in {"plan", "tool"} /\ worker[t].left \in 0..MaxCalls
           /\ worker[t] = [at |-> worker[t].at, about |-> worker[t].about, left |-> worker[t].left]
           /\ Calls(worker[t]) /\ LateOK(late[t], t \in cancelled, worker[t])
           /\ choice \in Legacy!Choices \cup {None} /\ level \in 0..2 /\ feed \in Turn \cup {None}
  BY DEF RuntimeInv, Legacy!RuntimeTypeOK, Legacy!Worker

(* A worker moves on without a call, with a question at most.              *)
LEMMA MovesOn ==
    ASSUME RuntimeInv, None \notin Turn, NEW t \in Turn,
           NEW to \in {"plan", "loop", "stream", "answered", "final"},
           worker[t].at \notin {"new", "gone", "tool"},
           worker[t].at = "final" => to = "final",
           to = "answered" => worker[t].at = "asking",
           Legacy!Moves(t, to),
           choice' \in Legacy!Choices \cup {None}, level' \in 0..2, feed' \in Turn \cup {None},
           UNCHANGED <<current, cancelled, mutex, api, down, late>>
    PROVE  RuntimeInv'
  <1>1. PICK w : w = [worker[t] EXCEPT !.at = to]  OBVIOUS
  <1>2. /\ w \in Legacy!Worker /\ w.at = to /\ w.about = worker[t].about
        /\ w.left = worker[t].left
    BY <1>1, WorkerFacts DEF Legacy!Worker
  <1>3. Calls(w)  BY <1>2, WorkerFacts DEF Calls
  <1>4. worker' = [worker EXCEPT ![t] = w]  BY <1>1 DEF Legacy!Moves
  <1> QED  BY <1>2, <1>3, <1>4, WorkerWaits

LEMMA AsksStep ==
    ASSUME RuntimeInv, None \notin Turn, NEW t \in Turn, NEW about \in {"plan", "tool"},
           (worker[t].at = "plan" /\ about = "plan") \/ worker[t].at = "call",
           Legacy!Asks(t, about),
           UNCHANGED <<current, cancelled, level, mutex, api, down, feed, late>>
    PROVE  RuntimeInv'
  <1>1. PICK w : w = [worker[t] EXCEPT !.at = "asking", !.about = about]  OBVIOUS
  <1>2. /\ w \in Legacy!Worker /\ w.at = "asking" /\ w.about = about
        /\ w.left = worker[t].left
    BY <1>1, WorkerFacts DEF Legacy!Worker
  <1>3. Calls(w)  BY <1>2, WorkerFacts DEF Calls
  <1>4. worker' = [worker EXCEPT ![t] = w] /\ choice' = None
    BY <1>1, WorkerFacts DEF Legacy!Asks, RuntimeInv, Legacy!RuntimeTypeOK
  <1>5. level' \in 0..2 /\ feed' \in Turn \cup {None}  BY WorkerFacts
  <1> QED  BY <1>2, <1>3, <1>4, <1>5, WorkerWaits

(* A tool starts: none was started late before.                            *)
LEMMA RunsStep ==
    ASSUME RuntimeInv, None \notin Turn, NEW t \in Turn, Legacy!Runs(t),
           worker[t].at = "call" \/ (worker[t].at = "answered" /\ worker[t].about = "tool"),
           choice' \in Legacy!Choices \cup {None}, level' \in 0..2,
           UNCHANGED <<current, cancelled, mutex, api, down, feed>>
    PROVE  RuntimeInv'
  <1>1. PICK w : w = [worker[t] EXCEPT !.at = "tool"]  OBVIOUS
  <1>2. /\ w \in Legacy!Worker /\ w.at = "tool" /\ w.about = worker[t].about
        /\ w.left = worker[t].left
    BY <1>1, WorkerFacts DEF Legacy!Worker
  <1>3. Calls(w)  BY <1>2, WorkerFacts DEF Calls
  <1>4. worker' = [worker EXCEPT ![t] = w]  BY <1>1 DEF Legacy!Runs, Legacy!Moves
  <1>9. LateOK(late[t], t \in cancelled, worker[t])  BY WorkerFacts
  <1>5. late[t] = 0  BY <1>9 DEF LateOK
  <1>6. PICK n \in 0..1 : n = IF t \in cancelled THEN 1 ELSE 0  OBVIOUS
  <1>7. late' = [late EXCEPT ![t] = n]
    BY <1>5, <1>6 DEF Legacy!Runs, RuntimeInv, Legacy!RuntimeTypeOK
  <1>8. LateOK(n, t \in cancelled, w)  BY <1>2, <1>6 DEF LateOK
  <1>10. feed' \in Turn \cup {None}  BY WorkerFacts
  <1> QED  BY <1>2, <1>3, <1>4, <1>7, <1>8, <1>10, WorkerMoves

(* A call is over: a cancelled turn ends.                                  *)
LEMMA AfterCallStep ==
    ASSUME RuntimeInv, None \notin Turn, MaxCalls \in Nat, NEW t \in Turn, Legacy!AfterCall(t),
           worker[t].at = "tool" \/ (worker[t].at = "answered" /\ worker[t].about = "tool"),
           choice' \in Legacy!Choices \cup {None},
           UNCHANGED <<current, cancelled, level, mutex, api, down, feed, late>>
    PROVE  RuntimeInv'
  <1> DEFINE l == worker[t].left
  <1>0. Calls(worker[t]) /\ l \in 0..MaxCalls  BY WorkerFacts
  <1>1. l \in 1..MaxCalls /\ l - 1 \in 0..MaxCalls  BY <1>0 DEF Calls
  <1>2. PICK to \in {"call", "loop", "final"} :
           /\ worker' = [worker EXCEPT ![t].left = l - 1, ![t].at = to]
           /\ t \in cancelled => to = "final"
           /\ to = "call" => l > 1
    BY DEF Legacy!AfterCall
  <1>3. PICK w : w = [worker[t] EXCEPT !.left = l - 1, !.at = to]  OBVIOUS
  <1>4. w \in Legacy!Worker /\ w.at = to /\ w.about = worker[t].about /\ w.left = l - 1
    <2> DEFINE k == l - 1
    <2>1. worker[t] \in Legacy!Worker /\ k \in 0..MaxCalls  BY <1>1, WorkerFacts
    <2>2. w = [worker[t] EXCEPT !.left = k, !.at = to]  BY <1>3
    <2> HIDE DEF k
    <2>3. w \in Legacy!Worker /\ w.at = to /\ w.about = worker[t].about /\ w.left = k
      BY <2>1, <2>2 DEF Legacy!Worker
    <2> QED  BY <2>3 DEF k
  <1>5. Calls(w)  BY <1>1, <1>2, <1>4 DEF Calls
  <1>6. worker' = [worker EXCEPT ![t] = w]
    BY <1>2, <1>3, WorkerFacts DEF RuntimeInv, Legacy!RuntimeTypeOK, Legacy!Worker
  <1>7. level' \in 0..2 /\ feed' \in Turn \cup {None}  BY WorkerFacts
  <1> QED  BY <1>2, <1>4, <1>5, <1>6, <1>7, WorkerWaits
LEMMA WorkerStep ==
    ASSUME RuntimeInv, None \notin Turn, MaxCalls \in Nat, NEW t \in Turn, Legacy!WorkerSteps(t)
    PROVE  RuntimeInv'
  <1>0. /\ choice \in Legacy!Choices \cup {None} /\ level \in 0..2
        /\ feed \in Turn \cup {None}
    BY WorkerFacts
  <1>1. CASE Legacy!Starts(t)
    <2>1. PICK to \in {"plan", "loop"} : Legacy!Moves(t, to)  BY <1>1 DEF Legacy!Starts
    <2> QED  BY <1>0, <1>1, <2>1, MovesOn DEF Legacy!Starts
  <1>2. CASE Legacy!PlanEnds(t)
    <2>1. CASE Legacy!Asks(t, "plan")  BY <1>2, <2>1, AsksStep DEF Legacy!PlanEnds
    <2>2. CASE Legacy!Moves(t, "final") /\ UNCHANGED choice
      BY <1>0, <1>2, <2>2, MovesOn DEF Legacy!PlanEnds
    <2> QED  BY <1>2, <2>1, <2>2 DEF Legacy!PlanEnds
  <1>3. CASE Legacy!LoopTop(t)
    <2>1. PICK to \in {"stream", "final"} : Legacy!Moves(t, to)  BY <1>3 DEF Legacy!LoopTop
    <2> QED  BY <1>0, <1>3, <2>1, MovesOn DEF Legacy!LoopTop
  <1>4. CASE Legacy!StreamEnds(t)
    <2>1. CASE Legacy!Moves(t, "final")  BY <1>0, <1>4, <2>1, MovesOn DEF Legacy!StreamEnds
    <2>2. CASE \E n \in 1..MaxCalls : worker' = [worker EXCEPT ![t].at = "call", ![t].left = n]
      <3>1. PICK n \in 1..MaxCalls : worker' = [worker EXCEPT ![t].at = "call", ![t].left = n]
        BY <2>2
      <3>2. PICK w : w = [worker[t] EXCEPT !.at = "call", !.left = n]  OBVIOUS
      <3>7. n \in 0..MaxCalls  OBVIOUS
      <3>6. worker[t] \in Legacy!Worker  BY WorkerFacts
      <3>3. w \in Legacy!Worker /\ w.at = "call" /\ w.left = n
        BY <3>2, <3>6, <3>7 DEF Legacy!Worker
      <3>4. Calls(w)  BY <3>1, <3>3 DEF Calls
      <3>5. worker' = [worker EXCEPT ![t] = w]
        BY <3>1, <3>2, WorkerFacts DEF RuntimeInv, Legacy!RuntimeTypeOK, Legacy!Worker
      <3> QED  BY <1>0, <1>4, <3>3, <3>4, <3>5, WorkerWaits DEF Legacy!StreamEnds
    <2> QED  BY <1>4, <2>1, <2>2 DEF Legacy!StreamEnds
  <1>5. CASE Legacy!NextCall(t)
    <2>1. CASE Legacy!Runs(t) /\ UNCHANGED choice
      BY <1>0, <1>5, <2>1, RunsStep DEF Legacy!NextCall
    <2>2. CASE Legacy!Asks(t, "tool") /\ UNCHANGED late
      BY <1>5, <2>2, AsksStep DEF Legacy!NextCall
    <2> QED  BY <1>5, <2>1, <2>2 DEF Legacy!NextCall
  <1>6. CASE Legacy!Answered(t) \/ Legacy!TimesOut(t)
    <2>1. choice' \in Legacy!Choices \cup {None}
      BY <1>0, <1>6 DEF Legacy!Answered, Legacy!TimesOut, Legacy!Choices
    <2> QED  BY <1>0, <1>6, <2>1, MovesOn DEF Legacy!Answered, Legacy!TimesOut
  <1>7. CASE Legacy!TakesChoice(t)
    <2>1. /\ worker[t].at = "answered" /\ choice' = None
          /\ UNCHANGED <<current, cancelled, mutex, api, down, feed>>
      BY <1>7 DEF Legacy!TakesChoice
    <2>2. CASE worker[t].about = "plan"
      <3>2. /\ Legacy!Moves(t, IF choice = "skip" THEN "final" ELSE "loop")
            /\ UNCHANGED <<level, late>>
        BY <1>7, <2>2 DEF Legacy!TakesChoice, Legacy!Moves
      <3>1. PICK to \in {"final", "loop"} : Legacy!Moves(t, to) /\ UNCHANGED <<level, late>>
        BY <3>2 DEF Legacy!Moves
      <3> QED  BY <1>0, <2>1, <3>1, MovesOn
    <2>3. CASE worker[t].about = "tool"
      <3>1. level' \in 0..2
        BY <1>0, <1>7, <2>3 DEF Legacy!TakesChoice
      <3>2. \/ Legacy!Runs(t)
            \/ Legacy!AfterCall(t) /\ UNCHANGED <<level, late>>
            \/ Legacy!Moves(t, "final") /\ UNCHANGED late
        BY <1>7, <2>3 DEF Legacy!TakesChoice
      <3>3. CASE Legacy!Runs(t)  BY <1>0, <2>1, <2>3, <3>1, <3>3, RunsStep
      <3>4. CASE Legacy!AfterCall(t) /\ UNCHANGED <<level, late>>
        BY <1>0, <2>1, <2>3, <3>4, AfterCallStep
      <3>5. CASE Legacy!Moves(t, "final") /\ UNCHANGED late
        BY <1>0, <2>1, <3>1, <3>5, MovesOn
      <3> QED  BY <3>2, <3>3, <3>4, <3>5
    <2> QED  BY <2>2, <2>3, WorkerFacts
  <1>8. CASE Legacy!ToolEnds(t)  BY <1>0, <1>8, AfterCallStep DEF Legacy!ToolEnds
  <1>9. CASE Legacy!Finishes(t)
    <2>1. PICK w : w = [worker[t] EXCEPT !.at = "gone"]  OBVIOUS
    <2>2. w \in Legacy!Worker /\ w.at = "gone"  BY <2>1, WorkerFacts DEF Legacy!Worker
    <2>3. /\ worker' = [worker EXCEPT ![t] = w] /\ worker[t].at = "final" /\ feed' = None
          /\ current' = IF current = t THEN None ELSE current
          /\ UNCHANGED <<cancelled, choice, level, mutex, api, down, late>>
      BY <1>9, <2>1 DEF Legacy!Finishes, Legacy!Moves
    <2>4. /\ worker' \in [Turn -> Legacy!Worker] /\ worker'[t] = w
          /\ \A u \in Turn : u # t => worker'[u] = worker[u]
      BY <2>2, <2>3 DEF RuntimeInv, Legacy!RuntimeTypeOK
    <2>5. current = t /\ Legacy!Running = {t}
      BY <2>3 DEF RuntimeInv, Legacy!Running
    <2>6. Legacy!Running' = {}
      <3> SUFFICES ASSUME NEW u \in Turn  PROVE worker'[u].at \in {"new", "gone"}
        BY DEF Legacy!Running
      <3>1. CASE u = t  BY <2>2, <2>4, <3>1
      <3>2. CASE u # t  BY <2>4, <2>5, <3>2 DEF Legacy!Running
      <3> QED  BY <3>1, <3>2
    <2>7. Legacy!RuntimeTypeOK'  BY <1>0, <2>3, <2>4 DEF RuntimeInv, Legacy!RuntimeTypeOK
    <2>8. \A u \in Turn : Calls(worker'[u])  BY <2>2, <2>4 DEF RuntimeInv, Calls
    <2>9. \A u \in Turn : LateOK(late'[u], u \in cancelled', worker'[u])
      <3> TAKE u \in Turn
      <3>1. LateOK(late[u], u \in cancelled, worker[u])  BY DEF RuntimeInv
      <3> QED  BY <2>2, <2>3, <2>4, <3>1 DEF LateOK
    <2>10. Charged'  BY <2>3 DEF RuntimeInv, Charged, InCharge
    <2>11. Legacy!ShutdownIsHonest'  BY <2>3, <2>6 DEF RuntimeInv, Legacy!ShutdownIsHonest
    <2> QED
      BY <2>3, <2>6, <2>7, <2>8, <2>9, <2>10, <2>11 DEF RuntimeInv, Calls, LateOK
  <1> QED
    BY <1>1, <1>2, <1>3, <1>4, <1>5, <1>6, <1>7, <1>8, <1>9 DEF Legacy!WorkerSteps, Legacy!Proceeds

(* A thread of the interface moves; no worker does.                        *)
LEMMA ApiMoves ==
    ASSUME RuntimeInv, None \notin Turn, None \notin Api, NEW a \in Api,
           NEW to \in {"idle", "mutates", "stops", "closes", "joins", "shut", "dismissed"},
           api' = [api EXCEPT ![a] = to],
           UNCHANGED <<current, worker, feed, late>>,
           cancelled \subseteq cancelled', cancelled' \subseteq Turn,
           choice' \in Legacy!Choices \cup {None}, level' \in 0..2,
           down' \in [closing : BOOLEAN, degraded : BOOLEAN],
           down.closing => down'.closing, down.degraded => down'.degraded,
           mutex' = IF to = "mutates" THEN a ELSE IF api[a] = "mutates" THEN None ELSE mutex,
           to = "mutates" => mutex = None /\ current = None,
           to \in {"closes", "joins", "shut", "dismissed"} => down'.closing,
           InCharge(a) => to \in {"joins", "shut"},
           down'.closing => down.closing \/ to = "closes",
           to = "shut" => Legacy!Running = {} \/ down'.degraded
    PROVE  RuntimeInv'
  <1>1. /\ api' \in [Api -> {"idle", "mutates", "stops", "closes", "joins", "shut",
                            "dismissed"}]
        /\ api'[a] = to /\ \A b \in Api : b # a => api'[b] = api[b]
    BY DEF RuntimeInv, Legacy!RuntimeTypeOK
  <1>2. mutex' \in Api \cup {None}  BY DEF RuntimeInv, Legacy!RuntimeTypeOK
  <1>3. Legacy!RuntimeTypeOK'  BY <1>1, <1>2 DEF RuntimeInv, Legacy!RuntimeTypeOK
  <1>4. Legacy!Running' = Legacy!Running  BY DEF Legacy!Running
  <1>5. \A b \in Api : api'[b] = "mutates" <=> mutex' = b
    <2> TAKE b \in Api
    <2>1. api[a] = "mutates" <=> mutex = a  BY DEF RuntimeInv
    <2>2. api[b] = "mutates" <=> mutex = b  BY DEF RuntimeInv
    <2>3. CASE b = a  BY <1>1, <2>1, <2>3
    <2>4. CASE b # a  BY <1>1, <2>1, <2>2, <2>4
    <2> QED  BY <2>3, <2>4
  <1>6. mutex' # None => current' = None  BY DEF RuntimeInv
  <1>7. Charged'
    <2>1. ASSUME NEW b \in Api, InCharge(b)' \/ api'[b] = "dismissed"  PROVE down'.closing
      <3>1. CASE b = a  BY <1>1, <2>1, <3>1 DEF InCharge
      <3>2. CASE b # a  BY <1>1, <2>1, <3>2 DEF RuntimeInv, Charged, InCharge
      <3> QED  BY <3>1, <3>2
    <2>2. ASSUME down'.closing  PROVE \E b \in Api : InCharge(b)'
      <3>1. CASE to = "closes"  BY <1>1, <3>1 DEF InCharge
      <3>2. CASE down.closing
        <4>1. PICK b \in Api : InCharge(b)  BY <3>2 DEF RuntimeInv, Charged
        <4>2. CASE b = a  BY <1>1, <4>1, <4>2 DEF InCharge
        <4>3. CASE b # a  BY <1>1, <4>1, <4>3 DEF InCharge
        <4> QED  BY <4>2, <4>3
      <3> QED  BY <2>2, <3>1, <3>2
    <2> QED  BY <2>1, <2>2 DEF Charged
  <1>8. Legacy!ShutdownIsHonest'
    <2>1. ASSUME NEW b \in Api, api'[b] = "shut"
          PROVE  Legacy!Running = {} \/ down'.degraded
      <3>1. CASE b = a  BY <1>1, <2>1, <3>1
      <3>2. CASE b # a  BY <1>1, <2>1, <3>2 DEF RuntimeInv, Legacy!ShutdownIsHonest
      <3> QED  BY <3>1, <3>2
    <2>2. (\E b \in Api : api'[b] = "dismissed") => \E b \in Api : InCharge(b)'
      BY <1>7 DEF Charged
    <2> QED  BY <1>4, <2>1, <2>2 DEF Legacy!ShutdownIsHonest, InCharge
  <1>9. \A t \in Turn : Calls(worker'[t])  BY DEF RuntimeInv
  <1>10. \A t \in Turn : LateOK(late'[t], t \in cancelled', worker'[t])
    BY DEF RuntimeInv, LateOK
  <1> QED
    BY <1>3, <1>4, <1>5, <1>6, <1>7, <1>8, <1>9, <1>10 DEF RuntimeInv, Calls, LateOK

LEMMA RuntimeInvStep ==
    ASSUME None \notin Turn, None \notin Api, MaxCalls \in Nat
    PROVE  RuntimeInv /\ [Legacy!Next]_(Legacy!runtimeVars) => RuntimeInv'
  <1> SUFFICES ASSUME RuntimeInv, [Legacy!Next]_(Legacy!runtimeVars)  PROVE RuntimeInv'
    OBVIOUS
  <1>0. /\ choice \in Legacy!Choices \cup {None} /\ level \in 0..2
        /\ feed \in Turn \cup {None} /\ cancelled \subseteq Turn
        /\ down \in [closing : BOOLEAN, degraded : BOOLEAN] /\ current \in Turn \cup {None}
        /\ \A a \in Api : api[a] = "mutates" <=> mutex = a
        /\ \A a \in Api : InCharge(a) => down.closing
    BY DEF RuntimeInv, Legacy!RuntimeTypeOK, Charged
  <1>1. ASSUME UNCHANGED <<current, cancelled, worker, level, mutex, api, down, feed, late>>,
               choice' \in Legacy!Choices \cup {None}
        PROVE  RuntimeInv'
    BY <1>1 DEF RuntimeInv, Legacy!RuntimeTypeOK, Legacy!Running, Legacy!ShutdownIsHonest,
                Charged, InCharge, Calls, LateOK
  <1>2. CASE UNCHANGED Legacy!runtimeVars  BY <1>0, <1>1, <1>2 DEF Legacy!runtimeVars
  <1>3. CASE Legacy!Resolve  BY <1>1, <1>3 DEF Legacy!Resolve
  <1>4. ASSUME NEW t \in Turn, Legacy!Submit(t)  PROVE RuntimeInv'
    <2>1. PICK w : w = [worker[t] EXCEPT !.at = "born"]  OBVIOUS
    <2>2. w \in Legacy!Worker /\ w.at = "born"  BY <2>1, WorkerFacts DEF Legacy!Worker
    <2>3. /\ worker' = [worker EXCEPT ![t] = w] /\ current' = t /\ current = None
          /\ mutex = None /\ ~down.closing /\ worker[t].at = "new"
          /\ UNCHANGED <<cancelled, choice, level, mutex, api, down, feed, late>>
      BY <1>4, <2>1 DEF Legacy!Submit, Legacy!Blocked
    <2>4. /\ worker' \in [Turn -> Legacy!Worker] /\ worker'[t] = w
          /\ \A u \in Turn : u # t => worker'[u] = worker[u]
      BY <2>2, <2>3 DEF RuntimeInv, Legacy!RuntimeTypeOK
    <2>5. Legacy!Running = {}  BY <2>3 DEF RuntimeInv, Legacy!Running
    <2>6. \A u \in Legacy!Running' : current' = u
      <3> SUFFICES ASSUME NEW u \in Turn, u # t  PROVE worker'[u].at \in {"new", "gone"}
        BY <2>3 DEF Legacy!Running
      <3> QED  BY <2>4, <2>5 DEF Legacy!Running
    <2>7. Legacy!RuntimeTypeOK'  BY <2>3, <2>4 DEF RuntimeInv, Legacy!RuntimeTypeOK
    <2>8. Legacy!ShutdownIsHonest'
      <3>1. \A a \in Api : api'[a] \notin {"shut", "dismissed"}
        BY <1>0, <2>3 DEF RuntimeInv, Charged, InCharge
      <3> QED  BY <3>1 DEF Legacy!ShutdownIsHonest
    <2>9. \A u \in Turn : Calls(worker'[u])  BY <2>2, <2>4 DEF RuntimeInv, Calls
    <2>10. \A u \in Turn : LateOK(late'[u], u \in cancelled', worker'[u])
      <3> TAKE u \in Turn
      <3>1. LateOK(late[u], u \in cancelled, worker[u])  BY DEF RuntimeInv
      <3> QED  BY <2>3, <2>4, <3>1 DEF LateOK
    <2>11. Charged'  BY <2>3 DEF RuntimeInv, Charged, InCharge
    <2> QED
      BY <1>0, <2>3, <2>6, <2>7, <2>8, <2>9, <2>10, <2>11 DEF RuntimeInv, Calls, LateOK
  <1>5. ASSUME NEW a \in Api, Legacy!BeginMutation(a)  PROVE RuntimeInv'
    BY <1>0, <1>5, ApiMoves DEF Legacy!BeginMutation, Legacy!Blocked, InCharge
  <1>6. ASSUME NEW a \in Api, Legacy!EndMutation(a)  PROVE RuntimeInv'
    <2>1. PICK bad \in BOOLEAN : down' = [down EXCEPT !.degraded = down.degraded \/ bad]
      BY <1>6 DEF Legacy!EndMutation
    <2>2. /\ down' \in [closing : BOOLEAN, degraded : BOOLEAN]
          /\ (down.closing => down'.closing) /\ (down.degraded => down'.degraded)
      BY <1>0, <2>1
    <2> QED  BY <1>0, <1>6, <2>1, <2>2, ApiMoves DEF Legacy!EndMutation, InCharge
  <1>7. ASSUME NEW a \in Api, Legacy!Stop(a)  PROVE RuntimeInv'
    <2>1. cancelled \subseteq cancelled' /\ cancelled' \subseteq Turn
      BY <1>0, <1>7 DEF Legacy!Stop, Legacy!Flag
    <2> QED  BY <1>0, <1>7, <2>1, ApiMoves DEF Legacy!Stop, Legacy!Flag, InCharge
  <1>8. ASSUME NEW a \in Api, Legacy!Sweep(a)  PROVE RuntimeInv'
    <2>1. choice' \in Legacy!Choices \cup {None}
      BY <1>0, <1>8 DEF Legacy!Sweep, Legacy!StopChoice, Legacy!Choices
    <2>2. PICK to \in {"idle", "joins"} :
            api' = [api EXCEPT ![a] = to] /\ to = IF api[a] = "stops" THEN "idle" ELSE "joins"
      BY <1>8 DEF Legacy!Sweep
    <2> QED  BY <1>0, <1>8, <2>1, <2>2, ApiMoves DEF Legacy!Sweep, InCharge
  <1>9. ASSUME NEW a \in Api, Legacy!Shutdown(a)  PROVE RuntimeInv'
    <2>0. ~InCharge(a) /\ api[a] # "mutates"  BY <1>9 DEF Legacy!Shutdown, InCharge
    <2>1. CASE ~down.closing
      <3>1. cancelled \subseteq cancelled' /\ cancelled' \subseteq Turn
            /\ api' = [api EXCEPT ![a] = "closes"]
        BY <1>0, <1>9, <2>1 DEF Legacy!Shutdown, Legacy!Flag
      <3>2. /\ down' \in [closing : BOOLEAN, degraded : BOOLEAN] /\ down'.closing
            /\ (down.degraded => down'.degraded)
        BY <1>0, <1>9, <2>1 DEF Legacy!Shutdown
      <3> QED  BY <1>0, <1>9, <2>0, <3>1, <3>2, ApiMoves DEF Legacy!Shutdown
    <2>2. CASE down.closing
      <3>1. api' = [api EXCEPT ![a] = "dismissed"] /\ UNCHANGED <<down, cancelled>>
        BY <1>9, <2>2 DEF Legacy!Shutdown
      <3> QED  BY <1>0, <1>9, <2>0, <2>2, <3>1, ApiMoves DEF Legacy!Shutdown
    <2> QED  BY <1>0, <2>1, <2>2
  <1>10. ASSUME NEW a \in Api, Legacy!Join(a)  PROVE RuntimeInv'
    <2>1. down' = [down EXCEPT !.degraded = down.degraded \/ Legacy!Running # {}]
      BY <1>10 DEF Legacy!Join
    <2>2. /\ down' \in [closing : BOOLEAN, degraded : BOOLEAN]
          /\ (down.closing => down'.closing) /\ (down.degraded => down'.degraded)
          /\ (Legacy!Running = {} \/ down'.degraded)
      BY <1>0, <2>1
    <2>3. down.closing  BY <1>0, <1>10 DEF Legacy!Join, InCharge
    <2> QED  BY <1>0, <1>10, <2>1, <2>2, <2>3, ApiMoves DEF Legacy!Join, InCharge
  <1> QED
    BY <1>2, <1>3, <1>4, <1>5, <1>6, <1>7, <1>8, <1>9, <1>10, WorkerStep DEF Legacy!Next

THEOREM RuntimeInvariant ==
    ASSUME None \notin Turn, None \notin Api, MaxCalls \in Nat
    PROVE  Legacy!Spec => []RuntimeInv
  <1> QED  BY RuntimeInvInit, RuntimeInvStep, PTL DEF Legacy!Spec

(* A callback of run_mutation() never runs beside a turn's worker, and at  *)
(* most one worker runs, for any number of turns and interface threads     *)
(* (agent/runtime.py:run_mutation, submit_message).                        *)
THEOREM MutationsAreAlone ==
    ASSUME None \notin Turn, None \notin Api, MaxCalls \in Nat
    PROVE  Legacy!Spec => []MutationsRunAlone
  <1>1. RuntimeInv => Legacy!MutationsRunAlone
    <2> SUFFICES ASSUME RuntimeInv  PROVE Legacy!MutationsRunAlone  OBVIOUS
    <2>1. Legacy!Running # {} => current \in Turn  BY DEF RuntimeInv, Legacy!Running
    <2>2. Legacy!Running # {} => mutex = None  BY <2>1 DEF RuntimeInv
    <2>3. \A t, u \in Legacy!Running : t = u  BY DEF RuntimeInv
    <2> QED  BY <2>2, <2>3 DEF Legacy!MutationsRunAlone
  <1> QED  BY <1>1, RuntimeInvariant, PTL DEF MutationsRunAlone

(* After a stop at most one more tool starts; the shutdown in charge, once *)
(* it has returned, left no worker behind or says so; and one that returns *)
(* at once leaves another in charge: however stops, shutdowns, approvals   *)
(* and tools race (agent/runtime.py:stop_current_task, shutdown).          *)
THEOREM StopsHold ==
    ASSUME None \notin Turn, None \notin Api, MaxCalls \in Nat
    PROVE  Legacy!Spec => []StopsAreKept
  <1>1. RuntimeInv => Legacy!StopsAreKept
    BY DEF RuntimeInv, Legacy!StopsAreKept, Legacy!AtMostOneMore, LateOK
  <1> QED  BY <1>1, RuntimeInvariant, PTL DEF StopsAreKept

----------------------------------------------------------------------------
(* The lifecycle: whoever is inside a hook is at the head of the lock and   *)
(* the state is that hook's; the shutdown that has the gate is the only one *)
(* that may report; what a hook has closed stays closed; and while nobody   *)
(* owes the bus an event, the last one tells the state.                     *)
HookPc == {"admission", "drain", "broker", "leases", "database"}
Starts(o) == op[o].kind = "start" /\ op[o].pc = "hook"
Stops(o) == op[o].kind = "shutdown" /\ op[o].pc \in HookPc
Reports(o) == op[o].kind = "shutdown" /\ op[o].pc = "report"
Owes(o) ==   \* o is to announce a state when it is through
    \/ op[o].kind = "start" /\ op[o].pc \in {"queued", "hook"} /\ op[o].created
    \/ op[o].kind = "shutdown" /\ op[o].pc \in {"queued", "report"} \cup HookPc
Past(o, pcs) == Stops(o) /\ op[o].pc \in pcs

OpShape(r) ==
    /\ r = [kind |-> r.kind, pc |-> r.pc, created |-> r.created]
    /\ r.pc \in {"restoring", "hook"} => r.created
CallShape(r) ==
    /\ r = [kind |-> r.kind, pc |-> r.pc, done |-> r.done]
    /\ r.done => r.pc \in {"telling", "ok"}
Shapes ==
    /\ op = [o \in Op |-> op[o]] /\ \A o \in Op : OpShape(op[o])
    /\ call = [c \in Call |-> call[c]] /\ \A c \in Call : CallShape(call[c])
    /\ lock \in Seq(Op \cup Call) /\ gate \in Seq(Op)
    /\ state \in {"created", "starting", "running", "degraded", "stopping", "stopped"}

Exclusion ==
    \A o \in Op :
        /\ Starts(o) => Kernel!Holds(o) /\ state = "starting"
        /\ Stops(o) => Kernel!Holds(o) /\ state = "stopping"
        /\ Reports(o) => state = "stopped"
        /\ op[o].kind = "shutdown" /\ op[o].pc \in {"queued", "report"} \cup HookPc
             => gate # <<>> /\ Head(gate) = o /\ ~report

Closed ==
    /\ \A o \in Op :
          /\ Past(o, HookPc \ {"admission"}) => closing
          /\ Past(o, {"broker", "leases", "database"}) => warned \/ active = {}
          /\ Past(o, {"leases", "database"}) => "broker" \notin open
          /\ Past(o, {"database"}) => "leases" \notin open
    /\ state = "stopped" => /\ closing /\ (warned \/ active = {})
                            /\ "broker" \notin open /\ "leases" \notin open
    /\ report => state = "stopped" /\ announced = "stopped"
    /\ "bus" \in open <=> ~report

Announced ==
    /\ \A o \in Op : op[o].kind = "start" /\ op[o].pc = "queued" /\ ~op[o].created
                        => state # "created"
    /\ state = "starting" => cut \/ \E o \in Op : Starts(o)
    /\ state = "stopping" => cut \/ \E o \in Op : Stops(o)
    /\ state = "stopped" => cut \/ report \/ \E o \in Op : Reports(o)
    /\ cut \/ announced = state \/ \E o \in Op : Owes(o)

LifecycleInv == Shapes /\ Exclusion /\ Closed /\ Announced

LEMMA LifecycleInvInit ==
    Kernel!Init => LifecycleInv
  <1> SUFFICES ASSUME Kernel!Init  PROVE LifecycleInv  OBVIOUS
  <1>1. \A o \in Op : /\ op[o] = [kind |-> "none", pc |-> "idle", created |-> FALSE]
                      /\ op[o].kind = "none" /\ op[o].pc = "idle" /\ op[o].created = FALSE
    BY DEF Kernel!Init
  <1>2. \A c \in Call : call[c].pc = "idle" /\ call[c].done = FALSE
                         /\ call[c] = [kind |-> call[c].kind, pc |-> "idle", done |-> FALSE]
    BY DEF Kernel!Init
  <1>3. Shapes
    <2>1. op = [o \in Op |-> op[o]] /\ call = [c \in Call |-> call[c]]
      BY DEF Kernel!Init
    <2>2. lock = <<>> /\ gate = <<>>  BY DEF Kernel!Init
    <2>3. \A o \in Op : OpShape(op[o])  BY <1>1 DEF OpShape
    <2>4. \A c \in Call : CallShape(call[c])  BY <1>2 DEF CallShape
    <2>5. lock \in Seq(Op \cup Call) /\ gate \in Seq(Op)  BY <2>2
    <2> QED  BY <2>1, <2>3, <2>4, <2>5 DEF Shapes, Kernel!Init
  <1>4. Exclusion  BY <1>1 DEF Exclusion, Starts, Stops, Reports
  <1>5. Closed  BY <1>1 DEF Closed, Past, Stops, Kernel!Init
  <1>6. Announced  BY <1>1 DEF Announced, Kernel!Init
  <1> QED  BY <1>3, <1>4, <1>5, <1>6 DEF LifecycleInv

(* A call of a facade that asks nothing of the lifecycle.                  *)
LEMMA CallOnly ==
    ASSUME LifecycleInv, Kernel!Quiet,
           call' = [c \in Call |-> call'[c]], \A c \in Call : CallShape(call'[c]),
           active' \subseteq active \/ ~closing,
           open' = open \/ open' = open \cup {"database"}
    PROVE  LifecycleInv'
  <1>1. UNCHANGED <<state, lock, gate, op, closing, warned, report, announced, cut>>
    BY DEF Kernel!Quiet
  <1>2. Shapes'  BY <1>1 DEF LifecycleInv, Shapes
  <1>3. Exclusion'
    BY <1>1 DEF LifecycleInv, Exclusion, Starts, Stops, Reports, Kernel!Holds
  <1>4. Closed'
    <2>1. \A r \in {"bus", "broker", "leases"} : r \in open' <=> r \in open  OBVIOUS
    <2>2. closing => (active = {} => active' = {})  OBVIOUS
    <2> QED  BY <1>1, <2>1, <2>2 DEF LifecycleInv, Closed, Past, Stops, HookPc
  <1>5. Announced'
    BY <1>1 DEF LifecycleInv, Announced, Starts, Stops, Reports, Owes
  <1> QED  BY <1>2, <1>3, <1>4, <1>5 DEF LifecycleInv

(* One call goes on; the others stay where they are.                       *)
LEMMA CallGoes ==
    ASSUME LifecycleInv, NEW c \in Call, NEW pc, Kernel!CallGo(c, pc),
           call[c].done => pc \in {"telling", "ok"}
    PROVE  call' = [d \in Call |-> call'[d]] /\ \A d \in Call : CallShape(call'[d])
  <1>1. CallShape(call[c])  BY DEF LifecycleInv, Shapes
  <1>2. PICK k : k = IF pc \in Kernel!Over THEN Kernel!Unchecked("memory") ELSE call[c].kind
    OBVIOUS
  <1>3. call' = [call EXCEPT ![c] = [kind |-> k, pc |-> pc, done |-> call[c].done]]
    <2>1. call' = [call EXCEPT ![c].pc = pc, ![c].kind = k]
      BY <1>2 DEF Kernel!CallGo
    <2>2. [[call[c] EXCEPT !.pc = pc] EXCEPT !.kind = k]
            = [kind |-> k, pc |-> pc, done |-> call[c].done]
      <3>1. PICK x, y, z : call[c] = [kind |-> x, pc |-> y, done |-> z]
        BY <1>1 DEF CallShape
      <3>2. PICK r : r = [call[c] EXCEPT !.pc = pc]  OBVIOUS
      <3>3. r = [kind |-> x, pc |-> pc, done |-> z]  BY <3>1, <3>2
      <3>4. [r EXCEPT !.kind = k] = [kind |-> k, pc |-> pc, done |-> z]  BY <3>3
      <3> QED  BY <3>1, <3>2, <3>4
    <2>3. call = [d \in Call |-> call[d]]  BY DEF LifecycleInv, Shapes
    <2> QED  BY <2>1, <2>2, <2>3
  <1>4. PICK r : r = [kind |-> k, pc |-> pc, done |-> call[c].done]  OBVIOUS
  <1>5. CallShape(r)  BY <1>4 DEF CallShape
  <1>6. call' = [d \in Call |-> IF d = c THEN r ELSE call[d]]
    BY <1>3, <1>4 DEF LifecycleInv, Shapes
  <1> QED  BY <1>5, <1>6 DEF LifecycleInv, Shapes

LEMMA EnterStep ==
    ASSUME LifecycleInv, NEW c \in Call, NEW k, Kernel!Enter(c, k)
    PROVE  LifecycleInv'
  <1>1. PICK pc : call' = [call EXCEPT ![c] =
                     [kind |-> IF pc \in Kernel!Over THEN Kernel!Unchecked("memory")
                               ELSE [k EXCEPT !.gate = "none"],
                      pc |-> pc, done |-> FALSE]]
    BY DEF Kernel!Enter
  <1>2. PICK r : r = [kind |-> IF pc \in Kernel!Over THEN Kernel!Unchecked("memory")
                               ELSE [k EXCEPT !.gate = "none"],
                      pc |-> pc, done |-> FALSE]
    OBVIOUS
  <1>3. CallShape(r)  BY <1>2 DEF CallShape
  <1>4. call' = [d \in Call |-> IF d = c THEN r ELSE call[d]]
    BY <1>1, <1>2 DEF LifecycleInv, Shapes
  <1>5. call' = [d \in Call |-> call'[d]] /\ \A d \in Call : CallShape(call'[d])
    BY <1>3, <1>4 DEF LifecycleInv, Shapes
  <1> QED  BY <1>5, CallOnly DEF Kernel!Enter

LEMMA AnswerStep ==
    ASSUME LifecycleInv, NEW c \in Call, Kernel!Answer(c)
    PROVE  LifecycleInv'
  <1>1. ~call[c].done
    <2>1. CallShape(call[c])  BY DEF LifecycleInv, Shapes
    <2> QED  BY <2>1 DEF CallShape, Kernel!Answer, Kernel!CallAt
  <1>2. PICK pc \in {"serving", "refused"} : Kernel!CallGo(c, pc)  BY DEF Kernel!Answer
  <1> QED  BY <1>1, <1>2, CallGoes, CallOnly DEF Kernel!Answer

LEMMA ServeStep ==
    ASSUME LifecycleInv, NEW c \in Call, Kernel!Serve(c)
    PROVE  LifecycleInv'
  <1>1. ~call[c].done
    <2>1. CallShape(call[c])  BY DEF LifecycleInv, Shapes
    <2> QED  BY <2>1 DEF CallShape, Kernel!Serve, Kernel!CallAt
  <1>2. call' = [d \in Call |-> call'[d]] /\ \A d \in Call : CallShape(call'[d])
    <2>1. CASE \E pc \in {"refused", "undoing"} : Kernel!CallGo(c, pc)
      BY <1>1, <2>1, CallGoes
    <2>2. CASE call' = [call EXCEPT ![c] =
                 [kind |-> Kernel!Unchecked("memory"), done |-> call[c].kind.tells,
                  pc |-> IF call[c].kind.tells THEN "telling" ELSE "ok"]]
      <3>1. PICK r : r = [kind |-> Kernel!Unchecked("memory"), done |-> call[c].kind.tells,
                          pc |-> IF call[c].kind.tells THEN "telling" ELSE "ok"]
        OBVIOUS
      <3>2. CallShape(r)  BY <3>1 DEF CallShape
      <3>3. call' = [d \in Call |-> IF d = c THEN r ELSE call[d]]
        BY <2>2, <3>1 DEF LifecycleInv, Shapes
      <3> QED  BY <3>2, <3>3 DEF LifecycleInv, Shapes
    <2>3. \/ \E pc \in {"refused", "undoing"} : Kernel!CallGo(c, pc)
          \/ call' = [call EXCEPT ![c] =
                 [kind |-> Kernel!Unchecked("memory"), done |-> call[c].kind.tells,
                  pc |-> IF call[c].kind.tells THEN "telling" ELSE "ok"]]
      BY Zenon DEF Kernel!Serve
    <2> QED  BY <2>1, <2>2, <2>3
  <1>3. open' = open \/ open' = open \cup {"database"}  BY DEF Kernel!Serve
  <1> QED  BY <1>2, <1>3, CallOnly DEF Kernel!Serve

LEMMA TellStep ==
    ASSUME LifecycleInv, NEW c \in Call, Kernel!Tell(c)
    PROVE  LifecycleInv'
  BY CallGoes, CallOnly DEF Kernel!Tell

LEMMA AdmitStep ==
    ASSUME LifecycleInv, NEW c \in Call, Kernel!Admit(c)
    PROVE  LifecycleInv'
  <1>1. ~call[c].done
    <2>1. CallShape(call[c])  BY DEF LifecycleInv, Shapes
    <2> QED  BY <2>1 DEF CallShape, Kernel!Admit, Kernel!CallAt
  <1>2. PICK pc \in {"refused", "ok"} : Kernel!CallGo(c, pc)  BY DEF Kernel!Admit
  <1>3. active' = active \/ ~closing  BY DEF Kernel!Admit
  <1> QED  BY <1>1, <1>2, <1>3, CallGoes, CallOnly DEF Kernel!Admit

LEMMA TurnEndsStep ==
    ASSUME LifecycleInv, NEW c \in Call, Kernel!TurnEnds(c)
    PROVE  LifecycleInv'
  <1>1. call' = [d \in Call |-> call'[d]] /\ \A d \in Call : CallShape(call'[d])
    BY DEF LifecycleInv, Shapes, Kernel!TurnEnds
  <1> QED  BY <1>1, CallOnly DEF Kernel!TurnEnds

LEMMA WaitStep ==
    ASSUME LifecycleInv, NEW c \in Call, Kernel!Wait(c)
    PROVE  LifecycleInv'
  <1>1. PICK pc \in {"waiting", "timed"} :
            call' = [call EXCEPT ![c] =
                       [kind |-> Kernel!Unchecked("memory"), pc |-> pc, done |-> FALSE]]
    BY DEF Kernel!Wait
  <1>2. PICK r : r = [kind |-> Kernel!Unchecked("memory"), pc |-> pc, done |-> FALSE]
    OBVIOUS
  <1>3. CallShape(r)  BY <1>2 DEF CallShape
  <1>4. call' = [d \in Call |-> IF d = c THEN r ELSE call[d]]
    BY <1>1, <1>2 DEF LifecycleInv, Shapes
  <1>5. call' = [d \in Call |-> call'[d]] /\ \A d \in Call : CallShape(call'[d])
    BY <1>3, <1>4 DEF LifecycleInv, Shapes
  <1> QED  BY <1>5, CallOnly DEF Kernel!Wait

LEMMA WaitEndsStep ==
    ASSUME LifecycleInv, NEW c \in Call, Kernel!WaitEnds(c)
    PROVE  LifecycleInv'
  <1>1. ~call[c].done
    <2>1. CallShape(call[c])  BY DEF LifecycleInv, Shapes
    <2> QED  BY <2>1 DEF CallShape, Kernel!WaitEnds, Kernel!CallAt
  <1>2. PICK pc \in {"refused", "ok"} : Kernel!CallGo(c, pc)  BY DEF Kernel!WaitEnds
  <1> QED  BY <1>1, <1>2, CallGoes, CallOnly DEF Kernel!WaitEnds

(* What appending to a queue, taking its head and leaving it do.           *)
LEMMA QueueHeads ==
    ASSUME NEW S, NEW q \in Seq(S), NEW x \in S
    PROVE  /\ Append(q, x) \in Seq(S) /\ Append(q, x) # <<>>
           /\ q # <<>> => Head(Append(q, x)) = Head(q)
           /\ q # <<>> => Tail(q) \in Seq(S)
  <1>1. Append(q, x) \in Seq(S) /\ Append(q, x) # <<>>  BY AppendProperties
  <1>2. ASSUME q # <<>>  PROVE Head(Append(q, x)) = Head(q)
    BY <1>2, HeadTailAppend
  <1>3. ASSUME q # <<>>  PROVE Tail(q) \in Seq(S)  BY <1>3, HeadTailProperties
  <1> QED  BY <1>1, <1>2, <1>3

LEMMA WithoutHead ==
    ASSUME NEW S, NEW q \in Seq(S), NEW x
    PROVE  /\ Kernel!Without(q, x) \in Seq(S)
           /\ q # <<>> /\ Head(q) # x
                => Kernel!Without(q, x) # <<>> /\ Head(Kernel!Without(q, x)) = Head(q)
  <1>1. CASE x \notin Kernel!Range(q)  BY <1>1 DEF Kernel!Without
  <1>2. CASE x \in Kernel!Range(q)
    <2> DEFINE i == CHOOSE j \in DOMAIN q : q[j] = x
    <2>1. i \in DOMAIN q /\ q[i] = x  BY <1>2 DEF Kernel!Range
    <2>2. Kernel!Without(q, x) = SubSeq(q, 1, i - 1) \o SubSeq(q, i + 1, Len(q))
      BY <1>2 DEF Kernel!Without
    <2> HIDE DEF i
    <2>3. i \in 1..Len(q)  BY <2>1
    <2>4. SubSeq(q, 1, i - 1) \in Seq(S) /\ SubSeq(q, i + 1, Len(q)) \in Seq(S)
      BY <2>3
    <2>5. Head(q) # x => Len(SubSeq(q, 1, i - 1)) >= 1 /\ SubSeq(q, 1, i - 1)[1] = q[1]
      BY <2>1, <2>3
    <2>6. PICK a, b \in Seq(S) :
            a = SubSeq(q, 1, i - 1) /\ b = SubSeq(q, i + 1, Len(q))
      BY <2>4
    <2>7. Kernel!Without(q, x) = a \o b /\ a \o b \in Seq(S)  BY <2>2, <2>6
    <2>8. ASSUME Head(q) # x
          PROVE  Kernel!Without(q, x) # <<>> /\ Head(Kernel!Without(q, x)) = Head(q)
      <3>1. Len(a) >= 1 /\ a[1] = q[1]  BY <2>5, <2>6, <2>8
      <3>2. Len(a \o b) >= 1 /\ (a \o b)[1] = a[1]  BY <3>1
      <3>3. a \o b # <<>> /\ Head(a \o b) = (a \o b)[1]  BY <2>7, <3>2
      <3>4. Head(q) = q[1]  BY <2>3
      <3> QED  BY <2>7, <3>1, <3>2, <3>3, <3>4
    <2> QED  BY <2>7, <2>8
  <1> QED  BY <1>1, <1>2

(* Of the queues: what a step may do to one, and who is still at its head. *)
Queued(q, r) ==   \* the queue r comes of q, and no head but one that left is new
    q # <<>> => r # <<>> /\ Head(r) = Head(q)

(* One call of the lifecycle goes on.                                      *)
LEMMA OpGoes ==
    ASSUME LifecycleInv, NEW o \in Op, NEW pc, Kernel!Go(o, pc)
    PROVE  /\ op' = [p \in Op |-> op'[p]]
           /\ op'[o] = [kind |-> op[o].kind, pc |-> pc, created |-> op[o].created]
           /\ op'[o].kind = op[o].kind /\ op'[o].pc = pc /\ op'[o].created = op[o].created
           /\ \A p \in Op : p # o => op'[p] = op[p]
  <1>1. OpShape(op[o]) /\ op = [p \in Op |-> op[p]]  BY DEF LifecycleInv, Shapes
  <1>2. PICK x, y, z : op[o] = [kind |-> x, pc |-> y, created |-> z]
    BY <1>1 DEF OpShape
  <1>3. [op[o] EXCEPT !.pc = pc] = [kind |-> op[o].kind, pc |-> pc, created |-> op[o].created]
    BY <1>2
  <1>4. op' = [op EXCEPT ![o] = [kind |-> op[o].kind, pc |-> pc, created |-> op[o].created]]
    BY <1>3 DEF Kernel!Go
  <1> QED  BY <1>1, <1>4

LEMMA KindGoes ==
    ASSUME LifecycleInv, NEW o \in Op, NEW k, NEW pc, Kernel!Go(o, pc), op[o].kind = k
    PROVE  /\ op' = [p \in Op |-> op'[p]]
           /\ op'[o] = [kind |-> k, pc |-> pc, created |-> op[o].created]
           /\ op'[o].kind = k /\ op'[o].pc = pc /\ op'[o].created = op[o].created
           /\ \A p \in Op : p # o => op'[p] = op[p]
  BY OpGoes

LEMMA OpIs ==
    ASSUME LifecycleInv, NEW o \in Op, NEW r, op' = [op EXCEPT ![o] = r]
    PROVE  /\ op' = [p \in Op |-> op'[p]] /\ op'[o] = r
           /\ \A p \in Op : p # o => op'[p] = op[p]
  BY DEF LifecycleInv, Shapes

(* A call leaves the lifecycle, or moves before it has anything to do      *)
(* there: the others are as they were, and those at a head still are.      *)
LEMMA Leaves ==
    ASSUME LifecycleInv, NEW o \in Op,
           op' = [p \in Op |-> op'[p]], OpShape(op'[o]),
           \A p \in Op : p # o => op'[p] = op[p],
           ~Starts(o)', ~Stops(o)', ~Reports(o)',
           ~(op'[o].kind = "shutdown" /\ op'[o].pc = "queued"),
           lock' \in Seq(Op \cup Call), Kernel!Holds(o) \/ Queued(lock, lock'),
           gate' \in Seq(Op), (gate # <<>> /\ Head(gate) = o) \/ Queued(gate, gate'),
           UNCHANGED <<state, closing, active, open, warned, report, call>>,
           announced' = announced \/ (announced' = "stopped") \/ ~report,
           op'[o].kind = "start" /\ op'[o].pc = "queued" /\ ~op'[o].created
                        => state # "created",
           \/ cut'
           \/ /\ ~Starts(o) /\ ~Stops(o) /\ ~Reports(o) /\ (cut => cut')
              /\ announced' = state \/ Owes(o)' \/ (announced' = announced /\ ~Owes(o))
    PROVE  LifecycleInv'
  <1>1. Shapes'  BY DEF LifecycleInv, Shapes
  <1>2. \A p \in Op : p # o => (Kernel!Holds(p) => Kernel!Holds(p)')
    BY DEF Kernel!Holds, Queued
  <1>3. \A p \in Op : p # o /\ gate # <<>> /\ Head(gate) = p => gate' # <<>> /\ Head(gate') = p
    BY DEF Queued
  <1>4. Exclusion'
    BY <1>2, <1>3 DEF LifecycleInv, Exclusion, Starts, Stops, Reports
  <1>5. Closed'  BY DEF LifecycleInv, Closed, Past, Stops
  <1>6. Announced'
    <2>1. \A p \in Op : p # o => /\ Starts(p)' = Starts(p) /\ Stops(p)' = Stops(p)
                                 /\ Reports(p)' = Reports(p) /\ Owes(p)' = Owes(p)
      BY DEF Starts, Stops, Reports, Owes
    <2> QED  BY <2>1 DEF LifecycleInv, Announced
  <1> QED  BY <1>1, <1>4, <1>5, <1>6 DEF LifecycleInv

(* What the others are in does not change, and none of them is in a hook   *)
(* while o is at the head of the lock.                                     *)
LEMMA Others ==
    ASSUME LifecycleInv, NEW o \in Op, \A p \in Op : p # o => op'[p] = op[p]
    PROVE  /\ \A p \in Op : p # o => /\ Starts(p)' = Starts(p) /\ Stops(p)' = Stops(p)
                                     /\ Reports(p)' = Reports(p) /\ Owes(p)' = Owes(p)
           /\ Kernel!Holds(o) => \A p \in Op : p # o => ~Starts(p) /\ ~Stops(p)
  <1>1. \A p \in Op : p # o => /\ Starts(p)' = Starts(p) /\ Stops(p)' = Stops(p)
                               /\ Reports(p)' = Reports(p) /\ Owes(p)' = Owes(p)
    BY DEF Starts, Stops, Reports, Owes
  <1>2. Kernel!Holds(o) => \A p \in Op : p # o => ~Starts(p) /\ ~Stops(p)
    BY DEF LifecycleInv, Exclusion, Kernel!Holds
  <1> QED  BY <1>1, <1>2

LEMMA CallStartStep ==
    ASSUME LifecycleInv, NEW o \in Op, Kernel!CallStart(o)
    PROVE  LifecycleInv'
  <1> DEFINE r(pc) == [kind |-> "start", pc |-> pc, created |-> state = "created"]
  <1>0. lock \in Seq(Op \cup Call) /\ gate \in Seq(Op) /\ op[o].pc = "idle"
    BY DEF LifecycleInv, Shapes, Kernel!CallStart
  <1>1. /\ ~Starts(o) /\ ~Stops(o) /\ ~Reports(o) /\ ~Owes(o)
    BY <1>0 DEF Starts, Stops, Reports, Owes, HookPc
  <1>2. CASE state = "created" /\ op' = [op EXCEPT ![o] = r("restoring")] /\ UNCHANGED <<lock, announced>>
    <2>1. OpShape(r("restoring"))  BY <1>2 DEF OpShape
    <2>2. PICK x : x = r("restoring")  OBVIOUS
    <2>3. /\ op' = [p \in Op |-> op'[p]] /\ op'[o] = x
          /\ \A p \in Op : p # o => op'[p] = op[p]
      BY <1>2, <2>2, OpIs
    <2>4. ~Starts(o)' /\ ~Stops(o)' /\ ~Reports(o)'
      BY <2>2, <2>3 DEF Starts, Stops, Reports, HookPc
    <2>5. op'[o].kind = "start" /\ op'[o].pc = "restoring"  BY <2>2, <2>3
    <2> QED  BY <1>0, <1>1, <1>2, <2>1, <2>2, <2>3, <2>4, <2>5, Leaves DEF Kernel!CallStart, Queued
  <1>3. CASE /\ op' = [op EXCEPT ![o] = r("queued")] /\ lock' = Append(lock, o)
             /\ IF state = "created" THEN Kernel!Announce("starting") ELSE UNCHANGED announced
    <2>1. OpShape(r("queued"))  BY DEF OpShape
    <2>2. PICK x : x = r("queued")  OBVIOUS
    <2>3. /\ op' = [p \in Op |-> op'[p]] /\ op'[o] = x
          /\ \A p \in Op : p # o => op'[p] = op[p]
      BY <1>3, <2>2, OpIs
    <2>4. ~Starts(o)' /\ ~Stops(o)' /\ ~Reports(o)'
      BY <2>2, <2>3 DEF Starts, Stops, Reports, HookPc
    <2>5. op'[o].kind = "start" /\ op'[o].pc = "queued" /\ op'[o].created = (state = "created")
      BY <2>2, <2>3
    <2>6. lock' \in Seq(Op \cup Call) /\ Queued(lock, lock') /\ Queued(gate, gate)
      BY <1>0, <1>3, QueueHeads DEF Queued
    <2>7. (state = "created" => Owes(o)') /\ (state # "created" => announced' = announced)
      BY <1>3, <2>5 DEF Owes
    <2>8. announced' = announced \/ ~report
      BY <1>3 DEF Kernel!Announce, LifecycleInv, Closed
    <2> QED
      BY <1>0, <1>1, <2>1, <2>2, <2>3, <2>4, <2>5, <2>6, <2>7, <2>8, Leaves DEF Kernel!CallStart
  <1> QED  BY <1>2, <1>3 DEF Kernel!CallStart

LEMMA RestoreDoneStep ==
    ASSUME LifecycleInv, NEW o \in Op, Kernel!RestoreDone(o)
    PROVE  LifecycleInv'
  <1>0. /\ lock \in Seq(Op \cup Call) /\ gate \in Seq(Op)
        /\ op[o].kind = "start" /\ op[o].pc = "restoring" /\ op[o].created
    BY DEF LifecycleInv, Shapes, OpShape, Kernel!RestoreDone, Kernel!At
  <1>1. /\ ~Starts(o) /\ ~Stops(o) /\ ~Reports(o) /\ ~Owes(o)
    BY <1>0 DEF Starts, Stops, Reports, Owes, HookPc
  <1>2. CASE \E pc \in {"refused", "raised"} : Kernel!Go(o, pc) /\ UNCHANGED <<lock, announced>>
    <2>1. PICK pc \in {"refused", "raised"} : Kernel!Go(o, pc) /\ UNCHANGED <<lock, announced>>
      BY <1>2
    <2>2. ~Starts(o)' /\ ~Stops(o)' /\ ~Reports(o)' /\ OpShape(op'[o])
      BY ZenonT(40), <1>0, <2>1, OpGoes DEF Starts, Stops, Reports, HookPc, OpShape
    <2> QED  BY <1>0, <1>1, <2>1, <2>2, OpGoes, Leaves DEF Kernel!RestoreDone, Queued
  <1>3. CASE Kernel!Go(o, "queued") /\ lock' = Append(lock, o) /\ Kernel!Announce("starting")
    <2>5. Kernel!Go(o, "queued") /\ op[o].kind = "start"  BY <1>0, <1>3
    <2>1. /\ op'[o] = [kind |-> "start", pc |-> "queued", created |-> op[o].created]
          /\ op'[o].kind = "start" /\ op'[o].pc = "queued" /\ op'[o].created = op[o].created
          /\ op' = [p \in Op |-> op'[p]] /\ \A p \in Op : p # o => op'[p] = op[p]
      BY <2>5, KindGoes
    <2>2. ~Starts(o)' /\ ~Stops(o)' /\ ~Reports(o)' /\ OpShape(op'[o]) /\ Owes(o)'
      BY <1>0, <2>1 DEF Starts, Stops, Reports, HookPc, OpShape, Owes
    <2>3. lock' \in Seq(Op \cup Call) /\ Queued(lock, lock') /\ Queued(gate, gate)
      BY <1>0, <1>3, QueueHeads DEF Queued
    <2>4. announced' = announced \/ ~report
      BY <1>3 DEF Kernel!Announce, LifecycleInv, Closed
    <2> QED  BY <1>0, <1>1, <1>3, <2>1, <2>2, <2>3, <2>4, Leaves DEF Kernel!RestoreDone
  <1> QED  BY <1>2, <1>3 DEF Kernel!RestoreDone

LEMMA StartEntersStep ==
    ASSUME LifecycleInv, NEW o \in Op, Kernel!StartEnters(o)
    PROVE  LifecycleInv'
  <1>0. /\ lock \in Seq(Op \cup Call) /\ gate \in Seq(Op) /\ Kernel!Holds(o)
        /\ op[o].kind = "start" /\ op[o].pc = "queued"
        /\ ~op[o].created => state # "created"
        /\ ~Starts(o) /\ ~Stops(o) /\ ~Reports(o)
    BY DEF LifecycleInv, Shapes, Announced, Kernel!StartEnters, Kernel!At,
           Starts, Stops, Reports, HookPc
  <1>1. CASE state = "created" /\ state' = "starting" /\ Kernel!Go(o, "hook")
             /\ UNCHANGED <<lock, announced>>
    <2>1. /\ op'[o] = [kind |-> "start", pc |-> "hook", created |-> op[o].created]
          /\ op'[o].kind = "start" /\ op'[o].pc = "hook" /\ op'[o].created
          /\ op' = [p \in Op |-> op'[p]] /\ \A p \in Op : p # o => op'[p] = op[p]
      BY <1>0, <1>1, KindGoes
    <2>2. Starts(o)' /\ ~Stops(o)' /\ ~Reports(o)' /\ OpShape(op'[o]) /\ Owes(o)'
      BY <2>1 DEF Starts, Stops, Reports, HookPc, OpShape, Owes
    <2>3. UNCHANGED <<lock, gate, closing, active, open, warned, report, announced, cut, call>>
      BY <1>1 DEF Kernel!StartEnters
    <2>4. Shapes'  BY <1>1, <2>1, <2>2, <2>3 DEF LifecycleInv, Shapes
    <2>5. Exclusion'
      <3>1. \A p \in Op : p # o => ~Starts(p)' /\ ~Stops(p)' /\ ~Reports(p)'
        BY <1>0, <1>1, <2>1, Others DEF LifecycleInv, Exclusion
      <3>2. Kernel!Holds(o)'  BY <1>0, <2>3 DEF Kernel!Holds
      <3> QED
        BY <1>1, <2>1, <2>2, <2>3, <3>1, <3>2 DEF LifecycleInv, Exclusion, Starts, Stops, Reports
    <2>6. Closed'
      <3>1. \A p \in Op : ~Stops(p)'  BY <1>0, <1>1, <2>1, <2>2, Others
      <3> QED  BY <1>1, <2>3, <3>1 DEF LifecycleInv, Closed, Past
    <2>7. Announced'
      BY <1>1, <2>1, <2>2 DEF LifecycleInv, Announced
    <2> QED  BY <2>4, <2>5, <2>6, <2>7 DEF LifecycleInv
  <1>2. CASE /\ state # "created" /\ UNCHANGED state /\ lock' = Tail(lock)
             /\ \E pc \in {"ok", "refused"} : Kernel!Go(o, pc)
             /\ IF op[o].created /\ state = "running" THEN Kernel!Announce("running")
                ELSE IF state = "degraded" THEN Kernel!Announce("degraded")
                ELSE UNCHANGED announced
    <2>0. PICK pc \in {"ok", "refused"} : Kernel!Go(o, pc)  BY <1>2
    <2>1. /\ op'[o] = [kind |-> "start", pc |-> pc, created |-> op[o].created]
          /\ op'[o].kind = "start" /\ op'[o].pc = pc
          /\ op' = [p \in Op |-> op'[p]] /\ \A p \in Op : p # o => op'[p] = op[p]
      BY <1>0, <2>0, KindGoes
    <2>2. ~Starts(o)' /\ ~Stops(o)' /\ ~Reports(o)' /\ OpShape(op'[o]) /\ ~Owes(o)'
      BY <2>1 DEF Starts, Stops, Reports, HookPc, OpShape, Owes
    <2>3. UNCHANGED <<gate, closing, active, open, warned, report, cut, call>>
      BY DEF Kernel!StartEnters
    <2>4. lock' \in Seq(Op \cup Call)
      BY <1>0, <1>2, QueueHeads, HeadTailProperties DEF Kernel!Holds
    <2>5. Shapes'  BY <1>2, <2>1, <2>2, <2>3, <2>4 DEF LifecycleInv, Shapes
    <2>6. Exclusion'
      BY <1>0, <1>2, <2>1, <2>2, <2>3, Others
         DEF LifecycleInv, Exclusion, Starts, Stops, Reports
    <2>7. announced' = announced \/ (~report /\ announced' = state /\ state # "stopped")
      BY <1>2 DEF Kernel!Announce, LifecycleInv, Closed
    <2>8. Closed'
      BY <1>2, <2>1, <2>2, <2>3, <2>7 DEF LifecycleInv, Closed, Past, Stops
    <2>9. Announced'
      <3>1. \A p \in Op : p # o => /\ Starts(p)' = Starts(p) /\ Stops(p)' = Stops(p)
                                   /\ Reports(p)' = Reports(p) /\ Owes(p)' = Owes(p)
        BY <2>1, Others
      <3>2. cut \/ announced' = state \/ \E p \in Op : Owes(p)'
        <4>1. CASE ~op[o].created /\ state # "degraded"
          <5>1. announced' = announced /\ ~Owes(o)  BY <1>0, <1>2, <4>1 DEF Owes, HookPc
          <5> QED  BY <3>1, <5>1 DEF LifecycleInv, Announced
        <4>2. CASE state \in {"running", "degraded"} /\ (op[o].created \/ state = "degraded")
          BY <1>2, <4>2 DEF Kernel!Announce, LifecycleInv, Closed
        <4>3. CASE state = "starting"
          <5>1. \A p \in Op : Starts(p) => Owes(p)
            BY DEF LifecycleInv, Shapes, OpShape, Starts, Owes
          <5> QED  BY <1>0, <3>1, <4>3, <5>1 DEF LifecycleInv, Announced
        <4>4. CASE state = "stopping"
          BY <1>0, <3>1, <4>4 DEF LifecycleInv, Announced, Stops, Owes
        <4>5. CASE state = "stopped"
          BY <1>0, <1>2, <3>1, <4>5 DEF LifecycleInv, Announced, Closed, Reports, Owes
        <4>6. state \in {"created", "starting", "running", "degraded", "stopping", "stopped"}
          BY DEF LifecycleInv, Shapes
        <4> QED  BY <1>2, <4>1, <4>2, <4>3, <4>4, <4>5, <4>6
      <3> QED  BY <1>0, <1>2, <2>1, <2>2, <2>3, <3>1, <3>2 DEF LifecycleInv, Announced
    <2> QED  BY <2>5, <2>6, <2>8, <2>9 DEF LifecycleInv
  <1> QED  BY <1>1, <1>2 DEF Kernel!StartEnters

LEMMA StartHookEndsStep ==
    ASSUME LifecycleInv, NEW o \in Op, Kernel!StartHookEnds(o)
    PROVE  LifecycleInv'
  <1>0. /\ lock \in Seq(Op \cup Call) /\ gate \in Seq(Op) /\ Starts(o)
        /\ Kernel!Holds(o) /\ state = "starting" /\ op[o].created /\ ~report /\ "bus" \in open
    BY DEF LifecycleInv, Shapes, OpShape, Exclusion, Closed, Kernel!StartHookEnds, Kernel!At,
           Starts
  <1>1. PICK pc \in {"ok", "refused"} : Kernel!Go(o, pc)  BY DEF Kernel!StartHookEnds
  <1>2. op[o].kind = "start"  BY <1>0 DEF Starts
  <1>3. /\ op'[o] = [kind |-> "start", pc |-> pc, created |-> op[o].created]
        /\ op'[o].kind = "start" /\ op'[o].pc = pc
        /\ op' = [p \in Op |-> op'[p]] /\ \A p \in Op : p # o => op'[p] = op[p]
    BY <1>1, <1>2, KindGoes
  <1>4. ~Starts(o)' /\ ~Stops(o)' /\ ~Reports(o)' /\ OpShape(op'[o])
    BY <1>3 DEF Starts, Stops, Reports, HookPc, OpShape
  <1>5. state' \in {"running", "degraded"} /\ announced' = state'
    BY <1>0 DEF Kernel!StartHookEnds, Kernel!Announce
  <1>6. /\ UNCHANGED <<gate, closing, active, warned, report, cut, call>>
        /\ open' = open \/ open' = open \cup {"database"}
    BY DEF Kernel!StartHookEnds
  <1>7. lock' \in Seq(Op \cup Call)
    BY <1>0, HeadTailProperties DEF Kernel!Holds, Kernel!StartHookEnds
  <1>8. Shapes'  BY <1>3, <1>4, <1>5, <1>6, <1>7 DEF LifecycleInv, Shapes
  <1>9. \A p \in Op : ~Starts(p)' /\ ~Stops(p)' /\ ~Reports(p)'
    BY <1>0, <1>3, <1>4, Others DEF LifecycleInv, Exclusion
  <1>10. Exclusion'
    BY <1>3, <1>6, <1>9 DEF LifecycleInv, Exclusion, Reports, Stops
  <1>11. Closed'  BY <1>0, <1>5, <1>6, <1>9 DEF LifecycleInv, Closed, Past
  <1>12. Announced'  BY <1>3, <1>5 DEF LifecycleInv, Announced
  <1> QED  BY <1>8, <1>10, <1>11, <1>12 DEF LifecycleInv

LEMMA CallDegradeStep ==
    ASSUME LifecycleInv, NEW o \in Op, Kernel!CallDegrade(o)
    PROVE  LifecycleInv'
  <1>0. lock \in Seq(Op \cup Call) /\ gate \in Seq(Op) /\ op[o].pc = "idle"
    BY DEF LifecycleInv, Shapes, Kernel!CallDegrade
  <1>1. /\ ~Starts(o) /\ ~Stops(o) /\ ~Reports(o) /\ ~Owes(o)
    BY <1>0 DEF Starts, Stops, Reports, Owes, HookPc
  <1>2. PICK x : x = [kind |-> "degrade", pc |-> "queued", created |-> FALSE]  OBVIOUS
  <1>3. /\ op' = [p \in Op |-> op'[p]] /\ op'[o] = x
        /\ \A p \in Op : p # o => op'[p] = op[p]
    BY <1>2, OpIs DEF Kernel!CallDegrade
  <1>4. OpShape(op'[o]) /\ op'[o].kind = "degrade"  BY <1>2, <1>3 DEF OpShape
  <1>5. ~Starts(o)' /\ ~Stops(o)' /\ ~Reports(o)'  BY <1>4 DEF Starts, Stops, Reports
  <1>6. lock' \in Seq(Op \cup Call) /\ Queued(lock, lock') /\ Queued(gate, gate)
    BY <1>0, QueueHeads DEF Queued, Kernel!CallDegrade
  <1> QED  BY <1>0, <1>1, <1>3, <1>4, <1>5, <1>6, Leaves DEF Kernel!CallDegrade

(* mark_degraded by the head of the lock, an operation or a call.          *)
LEMMA MarkStep ==
    ASSUME LifecycleInv, NEW x, lock # <<>>, Head(lock) = x, Kernel!MarkDegraded,
           op' = [p \in Op |-> op'[p]], \A p \in Op : OpShape(op'[p]),
           \A p \in Op : p # x => op'[p] = op[p],
           \A p \in Op : p = x => op[p].kind = "degrade" /\ op'[p].kind = "degrade",
           call' = [c \in Call |-> call'[c]], \A c \in Call : CallShape(call'[c])
    PROVE  LifecycleInv'
  <1>1. /\ UNCHANGED <<gate, closing, active, open, warned, report, cut>>
        /\ lock' = Tail(lock)
    BY DEF Kernel!MarkDegraded
  <1>2. \/ state = "stopped" /\ UNCHANGED <<state, announced>>
        \/ /\ state # "stopped" /\ state' = "degraded" /\ ~report /\ announced' = "degraded"
    BY DEF Kernel!MarkDegraded, Kernel!Announce, LifecycleInv, Closed
  <1>3. \A p \in Op : /\ Starts(p)' = Starts(p) /\ Stops(p)' = Stops(p)
                      /\ Reports(p)' = Reports(p) /\ Owes(p)' = Owes(p)
    BY DEF Starts, Stops, Reports, Owes
  <1>4. \A p \in Op : ~Starts(p) /\ ~Stops(p)
    BY DEF LifecycleInv, Exclusion, Kernel!Holds, Starts, Stops
  <1>5. Shapes'
    <2>1. lock' \in Seq(Op \cup Call)  BY <1>1, HeadTailProperties DEF LifecycleInv, Shapes
    <2> QED  BY <1>1, <1>2, <2>1 DEF LifecycleInv, Shapes
  <1>6. Exclusion'
    BY <1>1, <1>2, <1>3, <1>4 DEF LifecycleInv, Exclusion, Reports
  <1>7. Closed'  BY <1>1, <1>2, <1>3, <1>4 DEF LifecycleInv, Closed, Past
  <1>8. Announced'
    BY <1>1, <1>2, <1>3, <1>4 DEF LifecycleInv, Announced
  <1> QED  BY <1>5, <1>6, <1>7, <1>8 DEF LifecycleInv

LEMMA DegradeStep ==
    ASSUME LifecycleInv, NEW o \in Op, Kernel!Degrade(o)
    PROVE  LifecycleInv'
  <1>0. op[o].kind = "degrade" /\ lock # <<>> /\ Head(lock) = o /\ Kernel!Go(o, "ok")
        /\ Kernel!MarkDegraded /\ call' = call
    BY DEF Kernel!Degrade, Kernel!At, Kernel!Holds
  <1>1. /\ op'[o] = [kind |-> "degrade", pc |-> "ok", created |-> op[o].created]
        /\ op'[o].kind = "degrade" /\ op'[o].pc = "ok"
        /\ op' = [p \in Op |-> op'[p]] /\ \A p \in Op : p # o => op'[p] = op[p]
    BY <1>0, KindGoes
  <1>2. OpShape(op'[o])  BY <1>1 DEF OpShape
  <1>3. \A p \in Op : OpShape(op'[p])  BY <1>1, <1>2 DEF LifecycleInv, Shapes
  <1>4. call' = [c \in Call |-> call'[c]] /\ \A c \in Call : CallShape(call'[c])
    BY <1>0 DEF LifecycleInv, Shapes
  <1> QED  BY <1>0, <1>1, <1>3, <1>4, MarkStep

LEMMA UndoDegradesStep ==
    ASSUME LifecycleInv, Op \cap Call = {}, NEW c \in Call, Kernel!UndoDegrades(c)
    PROVE  LifecycleInv'
  <1>0. lock # <<>> /\ Head(lock) = c /\ Kernel!CallGo(c, "refused") /\ Kernel!MarkDegraded
        /\ op' = op /\ call[c].pc = "degrading"
    BY DEF Kernel!UndoDegrades, Kernel!CallAt, Kernel!Holds
  <1>1. ~call[c].done
    <2>1. CallShape(call[c])  BY DEF LifecycleInv, Shapes
    <2> QED  BY <1>0, <2>1 DEF CallShape
  <1>2. call' = [d \in Call |-> call'[d]] /\ \A d \in Call : CallShape(call'[d])
    BY <1>0, <1>1, CallGoes
  <1>3. op' = [p \in Op |-> op'[p]] /\ \A p \in Op : OpShape(op'[p]) /\ p # c
    BY <1>0 DEF LifecycleInv, Shapes
  <1> QED  BY <1>0, <1>2, <1>3, MarkStep

LEMMA UndoFailsStep ==
    ASSUME LifecycleInv, NEW c \in Call, Kernel!UndoFails(c)
    PROVE  LifecycleInv'
  <1>0. /\ Kernel!CallGo(c, "degrading") /\ call[c].pc = "undoing" /\ lock' = Append(lock, c)
        /\ UNCHANGED <<state, gate, op, closing, active, open, warned, report, announced, cut>>
    BY DEF Kernel!UndoFails, Kernel!CallAt
  <1>1. ~call[c].done
    <2>1. CallShape(call[c])  BY DEF LifecycleInv, Shapes
    <2> QED  BY <1>0, <2>1 DEF CallShape
  <1>2. call' = [d \in Call |-> call'[d]] /\ \A d \in Call : CallShape(call'[d])
    BY <1>0, <1>1, CallGoes
  <1>3. lock \in Seq(Op \cup Call) /\ c \in Op \cup Call  BY DEF LifecycleInv, Shapes
  <1>4. lock' \in Seq(Op \cup Call) /\ Queued(lock, lock')
    BY <1>0, <1>3, QueueHeads DEF Queued
  <1>5. Shapes'  BY <1>0, <1>2, <1>4 DEF LifecycleInv, Shapes
  <1>6. Exclusion'
    BY <1>0, <1>4 DEF LifecycleInv, Exclusion, Starts, Stops, Reports, Kernel!Holds, Queued
  <1>7. Closed'  BY <1>0 DEF LifecycleInv, Closed, Past, Stops
  <1>8. Announced'  BY <1>0 DEF LifecycleInv, Announced, Starts, Stops, Reports, Owes
  <1> QED  BY <1>5, <1>6, <1>7, <1>8 DEF LifecycleInv

LEMMA CallShutdownStep ==
    ASSUME LifecycleInv, NEW o \in Op, Kernel!CallShutdown(o)
    PROVE  LifecycleInv'
  <1>0. lock \in Seq(Op \cup Call) /\ gate \in Seq(Op) /\ op[o].pc = "idle"
    BY DEF LifecycleInv, Shapes, Kernel!CallShutdown
  <1>1. /\ ~Starts(o) /\ ~Stops(o) /\ ~Reports(o) /\ ~Owes(o)
    BY <1>0 DEF Starts, Stops, Reports, Owes, HookPc
  <1>2. PICK x : x = [kind |-> "shutdown", pc |-> "gate", created |-> FALSE]  OBVIOUS
  <1>3. /\ op' = [p \in Op |-> op'[p]] /\ op'[o] = x
        /\ \A p \in Op : p # o => op'[p] = op[p]
    BY <1>2, OpIs DEF Kernel!CallShutdown
  <1>4. OpShape(op'[o]) /\ op'[o].kind = "shutdown" /\ op'[o].pc = "gate"
    BY <1>2, <1>3 DEF OpShape
  <1>5. ~Starts(o)' /\ ~Stops(o)' /\ ~Reports(o)'  BY <1>4 DEF Starts, Stops, Reports, HookPc
  <1>6. gate' \in Seq(Op) /\ Queued(lock, lock) /\ Queued(gate, gate')
    BY <1>0, QueueHeads DEF Queued, Kernel!CallShutdown
  <1> QED  BY <1>0, <1>1, <1>3, <1>4, <1>5, <1>6, Leaves DEF Kernel!CallShutdown

LEMMA ShutdownEntersStep ==
    ASSUME LifecycleInv, NEW o \in Op, Kernel!ShutdownEnters(o)
    PROVE  LifecycleInv'
  <1>0. /\ lock \in Seq(Op \cup Call) /\ gate \in Seq(Op) /\ gate # <<>> /\ Head(gate) = o
        /\ op[o].kind = "shutdown" /\ op[o].pc = "gate"
    BY DEF LifecycleInv, Shapes, Kernel!ShutdownEnters, Kernel!At
  <1>1. ~Starts(o) /\ ~Stops(o) /\ ~Reports(o) /\ ~Owes(o)
    BY <1>0 DEF Starts, Stops, Reports, Owes, HookPc
  <1>2. CASE report
    <2>1. Kernel!Go(o, "ok") /\ gate' = Tail(gate) /\ UNCHANGED <<lock, announced>>
      BY <1>2 DEF Kernel!ShutdownEnters
    <2>2. /\ op'[o] = [kind |-> "shutdown", pc |-> "ok", created |-> op[o].created]
          /\ op'[o].kind = "shutdown" /\ op'[o].pc = "ok"
          /\ op' = [p \in Op |-> op'[p]] /\ \A p \in Op : p # o => op'[p] = op[p]
      BY <1>0, <2>1, KindGoes
    <2>3. OpShape(op'[o]) /\ ~Starts(o)' /\ ~Stops(o)' /\ ~Reports(o)'
      BY <2>2 DEF OpShape, Starts, Stops, Reports, HookPc
    <2>4. gate' \in Seq(Op) /\ Queued(lock, lock)  BY <1>0, <2>1, HeadTailProperties DEF Queued
    <2> QED
      BY <1>0, <1>1, <2>1, <2>2, <2>3, <2>4, Leaves DEF Kernel!ShutdownEnters
  <1>3. CASE ~report
    <2>1. /\ Kernel!Go(o, "queued") /\ lock' = Append(lock, o)
          /\ UNCHANGED <<state, gate, closing, active, open, warned, report, cut, call>>
          /\ announced' = announced \/ announced' = "stopping"
      BY <1>3 DEF Kernel!ShutdownEnters, Kernel!Announce
    <2>2. /\ op'[o] = [kind |-> "shutdown", pc |-> "queued", created |-> op[o].created]
          /\ op'[o].kind = "shutdown" /\ op'[o].pc = "queued"
          /\ op' = [p \in Op |-> op'[p]] /\ \A p \in Op : p # o => op'[p] = op[p]
      BY <1>0, <2>1, KindGoes
    <2>3. OpShape(op'[o]) /\ ~Starts(o)' /\ ~Stops(o)' /\ ~Reports(o)' /\ Owes(o)'
      BY <2>2 DEF OpShape, Starts, Stops, Reports, HookPc, Owes
    <2>4. lock' \in Seq(Op \cup Call) /\ Queued(lock, lock')
      BY <1>0, <2>1, QueueHeads DEF Queued
    <2>5. Shapes'  BY <2>1, <2>2, <2>3, <2>4 DEF LifecycleInv, Shapes
    <2>6. \A p \in Op : p # o => /\ Starts(p)' = Starts(p) /\ Stops(p)' = Stops(p)
                                 /\ Reports(p)' = Reports(p) /\ Owes(p)' = Owes(p)
      BY <2>2, Others
    <2>7. Exclusion'
      BY <1>0, <1>3, <2>1, <2>2, <2>3, <2>4, <2>6
         DEF LifecycleInv, Exclusion, Kernel!Holds, Queued
    <2>8. Closed'  BY <1>3, <2>1, <2>2, <2>3 DEF LifecycleInv, Closed, Past, Stops
    <2>9. Announced'
      BY <1>1, <2>1, <2>2, <2>3, <2>6 DEF LifecycleInv, Announced
    <2> QED  BY <2>5, <2>7, <2>8, <2>9 DEF LifecycleInv
  <1> QED  BY <1>2, <1>3

LEMMA StopBeginsStep ==
    ASSUME LifecycleInv, NEW o \in Op, Kernel!StopBegins(o)
    PROVE  LifecycleInv'
  <1>0. /\ lock \in Seq(Op \cup Call) /\ gate \in Seq(Op) /\ gate # <<>> /\ Head(gate) = o
        /\ op[o].kind = "shutdown" /\ op[o].pc = "queued" /\ Kernel!Holds(o) /\ ~report
    BY DEF LifecycleInv, Shapes, Exclusion, Kernel!StopBegins, Kernel!At
  <1>1. ~Starts(o) /\ ~Stops(o) /\ ~Reports(o) /\ Owes(o)
    BY <1>0 DEF Starts, Stops, Reports, Owes, HookPc
  <1>2. UNCHANGED <<closing, active, open, warned, report, announced, cut, call>>
    BY DEF Kernel!StopBegins
  <1>3. Tail(lock) \in Seq(Op \cup Call) /\ Tail(gate) \in Seq(Op)
    BY <1>0, HeadTailProperties DEF Kernel!Holds
  <1>4. CASE /\ state = "stopped" /\ Kernel!Go(o, "report") /\ lock' = Tail(lock)
             /\ UNCHANGED <<state, gate>>
    <2>2. /\ op'[o] = [kind |-> "shutdown", pc |-> "report", created |-> op[o].created]
          /\ op'[o].kind = "shutdown" /\ op'[o].pc = "report"
          /\ op' = [p \in Op |-> op'[p]] /\ \A p \in Op : p # o => op'[p] = op[p]
      BY <1>0, <1>4, KindGoes
    <2>3. OpShape(op'[o]) /\ ~Starts(o)' /\ ~Stops(o)' /\ Reports(o)' /\ Owes(o)'
      BY <2>2 DEF OpShape, Starts, Stops, Reports, HookPc, Owes
    <2>5. Shapes'  BY <1>2, <1>3, <1>4, <2>2, <2>3 DEF LifecycleInv, Shapes
    <2>6. \A p \in Op : p # o => /\ Starts(p)' = Starts(p) /\ Stops(p)' = Stops(p)
                                 /\ Reports(p)' = Reports(p) /\ Owes(p)' = Owes(p)
      BY <2>2, Others
    <2>7. \A p \in Op : ~Starts(p)' /\ ~Stops(p)'
      BY <1>0, <2>2, <2>3, <2>6, Others
    <2>8. Exclusion'
      BY <1>0, <1>2, <1>4, <2>2, <2>6, <2>7 DEF LifecycleInv, Exclusion
    <2>9. Closed'  BY <1>2, <1>4, <2>7 DEF LifecycleInv, Closed, Past
    <2>10. Announced'
      BY <1>2, <1>4, <2>2, <2>3 DEF LifecycleInv, Announced
    <2> QED  BY <2>5, <2>8, <2>9, <2>10 DEF LifecycleInv
  <1>5. CASE /\ state = "stopping" /\ Kernel!Go(o, "refused")
             /\ lock' = Tail(lock) /\ gate' = Tail(gate) /\ UNCHANGED state
    <2>2. /\ op'[o] = [kind |-> "shutdown", pc |-> "refused", created |-> op[o].created]
          /\ op'[o].kind = "shutdown" /\ op'[o].pc = "refused"
          /\ op' = [p \in Op |-> op'[p]] /\ \A p \in Op : p # o => op'[p] = op[p]
      BY <1>0, <1>5, KindGoes
    <2>3. OpShape(op'[o]) /\ ~Starts(o)' /\ ~Stops(o)' /\ ~Reports(o)'
      BY <2>2 DEF OpShape, Starts, Stops, Reports, HookPc
    <2>4. cut  BY <1>0, <1>1, <1>5, <2>2, Others DEF LifecycleInv, Announced
    <2> QED  BY <1>0, <1>2, <1>3, <1>5, <2>2, <2>3, <2>4, Leaves
  <1>6. CASE /\ state \notin {"stopped", "stopping"} /\ state' = "stopping"
             /\ Kernel!Go(o, "admission") /\ UNCHANGED <<lock, gate>>
    <2>2. /\ op'[o] = [kind |-> "shutdown", pc |-> "admission", created |-> op[o].created]
          /\ op'[o].kind = "shutdown" /\ op'[o].pc = "admission"
          /\ op' = [p \in Op |-> op'[p]] /\ \A p \in Op : p # o => op'[p] = op[p]
      BY <1>0, <1>6, KindGoes
    <2>3. OpShape(op'[o]) /\ ~Starts(o)' /\ Stops(o)' /\ ~Reports(o)' /\ Owes(o)'
      BY <2>2 DEF OpShape, Starts, Stops, Reports, HookPc, Owes
    <2>5. Shapes'  BY <1>2, <1>6, <2>2, <2>3 DEF LifecycleInv, Shapes
    <2>6. \A p \in Op : p # o => ~Starts(p)' /\ ~Stops(p)' /\ ~Reports(p)'
      BY <1>0, <1>6, <2>2, Others DEF LifecycleInv, Exclusion
    <2>7. Kernel!Holds(o)'  BY <1>0, <1>6 DEF Kernel!Holds
    <2>8. Exclusion'
      BY <1>0, <1>2, <1>6, <2>2, <2>3, <2>6, <2>7 DEF LifecycleInv, Exclusion
    <2>9. Closed'
      BY <1>0, <1>2, <1>6, <2>2, <2>6 DEF LifecycleInv, Closed, Past
    <2>10. Announced'
      BY <1>2, <1>6, <2>2, <2>3 DEF LifecycleInv, Announced
    <2> QED  BY <2>5, <2>8, <2>9, <2>10 DEF LifecycleInv
  <1> QED  BY <1>4, <1>5, <1>6 DEF Kernel!StopBegins, Kernel!Hooks

(* The shutdown goes from one step of its hook to the next, to which all    *)
(* that the later steps rely on has been closed.                           *)
LEMMA HookGoes ==
    ASSUME LifecycleInv, NEW o \in Op, NEW pc \in HookPc, Kernel!Go(o, pc), Stops(o),
           call' = [c \in Call |-> call'[c]], \A c \in Call : CallShape(call'[c]),
           UNCHANGED <<state, lock, gate, active, report, announced, cut>>,
           "bus" \in open' <=> "bus" \in open,
           pc # "admission" => closing',
           pc \in {"broker", "leases", "database"} => warned' \/ active = {},
           pc \in {"leases", "database"} => "broker" \notin open',
           pc = "database" => "leases" \notin open'
    PROVE  LifecycleInv'
  <1>0. op[o].kind = "shutdown" /\ Kernel!Holds(o) /\ state = "stopping"
    BY DEF Stops, LifecycleInv, Exclusion
  <1>1. /\ op'[o] = [kind |-> "shutdown", pc |-> pc, created |-> op[o].created]
        /\ op'[o].kind = "shutdown" /\ op'[o].pc = pc
        /\ op' = [p \in Op |-> op'[p]] /\ \A p \in Op : p # o => op'[p] = op[p]
    BY <1>0, KindGoes
  <1>2. OpShape(op'[o]) /\ ~Starts(o)' /\ Stops(o)' /\ ~Reports(o)' /\ Owes(o)'
    BY <1>1 DEF OpShape, Starts, Stops, Reports, HookPc, Owes
  <1>3. Shapes'  BY <1>1, <1>2 DEF LifecycleInv, Shapes
  <1>4. \A p \in Op : p # o => ~Starts(p)' /\ ~Stops(p)' /\ ~Reports(p)'
    BY <1>0, <1>1, Others DEF LifecycleInv, Exclusion
  <1>5. Exclusion'
    <2>1. Kernel!Holds(o)'  BY <1>0 DEF Kernel!Holds
    <2>2. gate' # <<>> /\ Head(gate') = o /\ ~report'
      BY <1>0 DEF LifecycleInv, Exclusion, Stops
    <2> QED  BY <1>0, <1>1, <1>2, <1>4, <2>1, <2>2 DEF LifecycleInv, Exclusion
  <1>6. Closed'
    BY <1>0, <1>1, <1>4 DEF LifecycleInv, Closed, Past
  <1>7. Announced'
    BY <1>0, <1>1, <1>2 DEF LifecycleInv, Announced
  <1> QED  BY <1>3, <1>5, <1>6, <1>7 DEF LifecycleInv

LEMMA HookSteps ==
    ASSUME LifecycleInv, NEW o \in Op,
           \/ Kernel!CloseAdmission(o) \/ Kernel!AwaitIdle(o) \/ Kernel!CloseBroker(o)
           \/ Kernel!CloseLeases(o)
    PROVE  LifecycleInv'
  <1>0. /\ call = [c \in Call |-> call[c]] /\ \A c \in Call : CallShape(call[c])
        /\ \A pcs : Past(o, pcs) <=> Stops(o) /\ op[o].pc \in pcs
    BY DEF LifecycleInv, Shapes, Past
  <1>1. ASSUME Kernel!CloseAdmission(o)  PROVE LifecycleInv'
    <2>1. Stops(o)  BY <1>1 DEF Kernel!CloseAdmission, Kernel!At, Stops, HookPc
    <2>2. "drain" \in HookPc  BY DEF HookPc
    <2> QED  BY <1>0, <1>1, <2>1, <2>2, HookGoes DEF Kernel!CloseAdmission
  <1>2. ASSUME Kernel!AwaitIdle(o)  PROVE LifecycleInv'
    <2>1. Stops(o) /\ Past(o, HookPc \ {"admission"})
      BY <1>2 DEF Kernel!AwaitIdle, Kernel!At, Stops, HookPc, Past
    <2>2. "broker" \in HookPc /\ closing  BY <2>1 DEF HookPc, LifecycleInv, Closed
    <2> QED  BY <1>0, <1>2, <2>1, <2>2, HookGoes DEF Kernel!AwaitIdle
  <1>3. ASSUME Kernel!CloseBroker(o)  PROVE LifecycleInv'
    <2>1. /\ Stops(o) /\ Past(o, HookPc \ {"admission"})
          /\ Past(o, {"broker", "leases", "database"})
      BY <1>3 DEF Kernel!CloseBroker, Kernel!At, Stops, HookPc, Past
    <2>2. "leases" \in HookPc /\ closing /\ (warned \/ active = {})
      BY <2>1 DEF HookPc, LifecycleInv, Closed
    <2>3. call' = [c \in Call |-> call'[c]] /\ \A c \in Call : CallShape(call'[c])
      <3>1. call' = [c \in Call |-> IF call[c].pc = "asking"
                                    THEN [call[c] EXCEPT !.pc = "refused"] ELSE call[c]]
        BY <1>3 DEF Kernel!CloseBroker
      <3>2. ASSUME NEW c \in Call  PROVE CallShape(call'[c])
        <4>1. CASE call[c].pc = "asking"
          <5>1. PICK x, y, z : call[c] = [kind |-> x, pc |-> y, done |-> z]
            BY <1>0 DEF CallShape
          <5>2. ~z  BY <1>0, <4>1, <5>1 DEF CallShape
          <5>3. call'[c] = [kind |-> x, pc |-> "refused", done |-> z]  BY <3>1, <4>1, <5>1
          <5> QED  BY <5>2, <5>3 DEF CallShape
        <4>2. CASE call[c].pc # "asking"  BY <1>0, <3>1, <4>2
        <4> QED  BY <4>1, <4>2
      <3> QED  BY <3>1, <3>2
    <2>4. "broker" \notin open' /\ ("bus" \in open' <=> "bus" \in open)
      BY <1>3 DEF Kernel!CloseBroker
    <2> QED  BY <1>3, <2>1, <2>2, <2>3, <2>4, HookGoes DEF Kernel!CloseBroker
  <1>4. ASSUME Kernel!CloseLeases(o)  PROVE LifecycleInv'
    <2>1. /\ Stops(o) /\ Past(o, HookPc \ {"admission"})
          /\ Past(o, {"broker", "leases", "database"}) /\ Past(o, {"leases", "database"})
      BY <1>4 DEF Kernel!CloseLeases, Kernel!At, Stops, HookPc, Past
    <2>2. "database" \in HookPc /\ closing /\ (warned \/ active = {}) /\ "broker" \notin open
      BY <2>1 DEF HookPc, LifecycleInv, Closed
    <2>3. /\ "broker" \notin open' /\ "leases" \notin open'
          /\ ("bus" \in open' <=> "bus" \in open)
      BY <1>4, <2>2 DEF Kernel!CloseLeases
    <2> QED  BY <1>0, <1>4, <2>1, <2>2, <2>3, HookGoes DEF Kernel!CloseLeases
  <1> QED  BY <1>1, <1>2, <1>3, <1>4

LEMMA CloseDatabaseStep ==
    ASSUME LifecycleInv, NEW o \in Op, Kernel!CloseDatabase(o)
    PROVE  LifecycleInv'
  <1>0. /\ Stops(o) /\ op[o].kind = "shutdown" /\ op[o].pc = "database"
        /\ Past(o, HookPc \ {"admission"}) /\ Past(o, {"broker", "leases", "database"})
        /\ Past(o, {"leases", "database"}) /\ Past(o, {"database"})
    BY DEF Kernel!CloseDatabase, Kernel!At, Stops, HookPc, Past
  <1>1. /\ Kernel!Holds(o) /\ gate # <<>> /\ Head(gate) = o /\ ~report
        /\ closing /\ (warned \/ active = {}) /\ "broker" \notin open /\ "leases" \notin open
    BY <1>0 DEF LifecycleInv, Exclusion, Closed, HookPc
  <1>2. /\ UNCHANGED <<gate, closing, active, warned, report, announced, cut, call>>
        /\ open' = open \ {"database"} /\ state' = "stopped" /\ lock' = Tail(lock)
        /\ Kernel!Go(o, "report")
    BY DEF Kernel!CloseDatabase
  <1>3. /\ op'[o] = [kind |-> "shutdown", pc |-> "report", created |-> op[o].created]
        /\ op'[o].kind = "shutdown" /\ op'[o].pc = "report"
        /\ op' = [p \in Op |-> op'[p]] /\ \A p \in Op : p # o => op'[p] = op[p]
    BY <1>0, <1>2, KindGoes
  <1>4. OpShape(op'[o]) /\ ~Starts(o)' /\ ~Stops(o)' /\ Reports(o)' /\ Owes(o)'
    BY <1>3 DEF OpShape, Starts, Stops, Reports, HookPc, Owes
  <1>5. lock' \in Seq(Op \cup Call)
    BY <1>1, <1>2, HeadTailProperties DEF LifecycleInv, Shapes, Kernel!Holds
  <1>6. Shapes'  BY <1>2, <1>3, <1>4, <1>5 DEF LifecycleInv, Shapes
  <1>7. \A p \in Op : ~Starts(p)' /\ ~Stops(p)'
    BY <1>1, <1>3, <1>4, Others
  <1>8. Exclusion'
    BY <1>1, <1>2, <1>3, <1>7 DEF LifecycleInv, Exclusion
  <1>9. Closed'  BY <1>1, <1>2, <1>7 DEF LifecycleInv, Closed, Past
  <1>10. Announced'  BY <1>2, <1>3, <1>4 DEF LifecycleInv, Announced
  <1> QED  BY <1>6, <1>8, <1>9, <1>10 DEF LifecycleInv

LEMMA StopFailsStep ==
    ASSUME LifecycleInv, NEW o \in Op, Kernel!StopFails(o)
    PROVE  LifecycleInv'
  <1>0. Stops(o) /\ op[o].kind = "shutdown"
    BY DEF Kernel!StopFails, Kernel!InHook, Kernel!Range, Kernel!Hooks, Stops, HookPc
  <1>1. /\ Kernel!Holds(o) /\ gate # <<>> /\ Head(gate) = o /\ ~report /\ state = "stopping"
    BY <1>0 DEF LifecycleInv, Exclusion, Stops
  <1>2. /\ UNCHANGED <<closing, active, open, warned, report, announced, call>>
        /\ state' = "degraded" /\ cut' /\ lock' = Tail(lock) /\ gate' = Tail(gate)
        /\ Kernel!Go(o, "refused")
    BY DEF Kernel!StopFails
  <1>3. /\ op'[o] = [kind |-> "shutdown", pc |-> "refused", created |-> op[o].created]
        /\ op'[o].kind = "shutdown" /\ op'[o].pc = "refused"
        /\ op' = [p \in Op |-> op'[p]] /\ \A p \in Op : p # o => op'[p] = op[p]
    BY <1>0, <1>2, KindGoes
  <1>4. OpShape(op'[o]) /\ ~Starts(o)' /\ ~Stops(o)' /\ ~Reports(o)'
    BY <1>3 DEF OpShape, Starts, Stops, Reports, HookPc
  <1>5. lock' \in Seq(Op \cup Call) /\ gate' \in Seq(Op)
    BY <1>1, <1>2, HeadTailProperties DEF LifecycleInv, Shapes, Kernel!Holds
  <1>6. Shapes'  BY <1>2, <1>3, <1>4, <1>5 DEF LifecycleInv, Shapes
  <1>7. \A p \in Op : ~Starts(p)' /\ ~Stops(p)' /\ ~Reports(p)'
    BY <1>1, <1>3, <1>4, Others DEF LifecycleInv, Exclusion
  <1>8. Exclusion'
    <2>1. op'[o].pc \notin {"queued", "report"} \cup HookPc  BY <1>3 DEF HookPc
    <2> QED  BY <2>1, <1>1, <1>2, <1>3, <1>7 DEF LifecycleInv, Exclusion
  <1>9. Closed'  BY <1>1, <1>2, <1>7 DEF LifecycleInv, Closed, Past
  <1>10. Announced'  BY <1>2, <1>3 DEF LifecycleInv, Announced
  <1> QED  BY <1>6, <1>8, <1>9, <1>10 DEF LifecycleInv

LEMMA ReportStep ==
    ASSUME LifecycleInv, NEW o \in Op, Kernel!Report(o)
    PROVE  LifecycleInv'
  <1>0. Reports(o) /\ op[o].kind = "shutdown" /\ op[o].pc = "report"
    BY DEF Kernel!Report, Kernel!At, Reports
  <1>1. /\ gate # <<>> /\ Head(gate) = o /\ ~report /\ "bus" \in open /\ state = "stopped"
    BY <1>0 DEF LifecycleInv, Exclusion, Closed
  <1>2. /\ UNCHANGED <<state, lock, closing, active, warned, call>>
        /\ open' = open \ {"bus"} /\ report' /\ ~cut' /\ gate' = Tail(gate)
        /\ Kernel!Go(o, "ok") /\ announced' = "stopped"
    BY <1>1 DEF Kernel!Report, Kernel!Announce
  <1>3. /\ op'[o] = [kind |-> "shutdown", pc |-> "ok", created |-> op[o].created]
        /\ op'[o].kind = "shutdown" /\ op'[o].pc = "ok"
        /\ op' = [p \in Op |-> op'[p]] /\ \A p \in Op : p # o => op'[p] = op[p]
    BY <1>0, <1>2, KindGoes
  <1>4. OpShape(op'[o]) /\ ~Starts(o)' /\ ~Stops(o)' /\ ~Reports(o)'
    BY <1>3 DEF OpShape, Starts, Stops, Reports, HookPc
  <1>5. gate' \in Seq(Op)
    BY <1>1, <1>2, HeadTailProperties DEF LifecycleInv, Shapes
  <1>6. Shapes'  BY <1>2, <1>3, <1>4, <1>5 DEF LifecycleInv, Shapes
  <1>7. \A p \in Op : ~Starts(p)' /\ ~Stops(p)'
    BY <1>1, <1>3, <1>4, Others DEF LifecycleInv, Exclusion
  <1>8. Exclusion'
    <2>1. op'[o].pc \notin {"queued", "report"} \cup HookPc  BY <1>3 DEF HookPc
    <2> QED  BY <2>1, <1>1, <1>2, <1>3, <1>7 DEF LifecycleInv, Exclusion, Reports
  <1>9. Closed'  BY <1>1, <1>2, <1>7 DEF LifecycleInv, Closed, Past
  <1>10. Announced'  BY <1>1, <1>2, <1>3 DEF LifecycleInv, Announced
  <1> QED  BY <1>6, <1>8, <1>9, <1>10 DEF LifecycleInv

LEMMA AbandonStep ==
    ASSUME LifecycleInv, NEW o \in Op, Kernel!Abandon(o)
    PROVE  LifecycleInv'
  <1>0. /\ lock \in Seq(Op \cup Call) /\ gate \in Seq(Op)
        /\ Kernel!Go(o, "abandoned")
        /\ lock' = Kernel!Without(lock, o) /\ gate' = Kernel!Without(gate, o)
        /\ cut' = (cut \/ (op[o].kind # "degrade" /\ op[o].pc \notin {"restoring", "gate"}))
        /\ UNCHANGED <<state, closing, active, open, warned, report, announced, call>>
    BY DEF LifecycleInv, Shapes, Kernel!Abandon
  <1>1. /\ op'[o] = [kind |-> op[o].kind, pc |-> "abandoned", created |-> op[o].created]
        /\ op'[o].kind = op[o].kind /\ op'[o].pc = "abandoned"
        /\ op' = [p \in Op |-> op'[p]] /\ \A p \in Op : p # o => op'[p] = op[p]
    BY <1>0, KindGoes
  <1>2. OpShape(op'[o]) /\ ~Starts(o)' /\ ~Stops(o)' /\ ~Reports(o)'
    BY <1>1 DEF OpShape, Starts, Stops, Reports, HookPc
  <1>3. lock' \in Seq(Op \cup Call) /\ (Kernel!Holds(o) \/ Queued(lock, lock'))
    BY <1>0, WithoutHead DEF Queued, Kernel!Holds
  <1>4. gate' \in Seq(Op) /\ ((gate # <<>> /\ Head(gate) = o) \/ Queued(gate, gate'))
    BY <1>0, WithoutHead DEF Queued
  <1>5. cut' \/ (~Starts(o) /\ ~Stops(o) /\ ~Reports(o) /\ ~Owes(o) /\ (cut => cut'))
    BY <1>0 DEF Starts, Stops, Reports, Owes, HookPc
  <1> QED  BY <1>0, <1>1, <1>2, <1>3, <1>4, <1>5, Leaves

LEMMA LifecycleInvStep ==
    ASSUME Op \cap Call = {}
    PROVE  LifecycleInv /\ [Kernel!Next]_(Kernel!vars) => LifecycleInv'
  <1> SUFFICES ASSUME LifecycleInv, [Kernel!Next]_(Kernel!vars)  PROVE LifecycleInv'  OBVIOUS
  <1>1. CASE UNCHANGED Kernel!vars
    BY <1>1 DEF Kernel!vars, LifecycleInv, Shapes, Exclusion, Closed, Announced,
                Starts, Stops, Reports, Owes, Past, Kernel!Holds
  <1>2. ASSUME NEW o \in Op, Kernel!CallStart(o)  PROVE LifecycleInv'
    BY <1>2, CallStartStep
  <1>3. ASSUME NEW o \in Op, Kernel!CallDegrade(o)  PROVE LifecycleInv'
    BY <1>3, CallDegradeStep
  <1>4. ASSUME NEW o \in Op, Kernel!CallShutdown(o)  PROVE LifecycleInv'
    BY <1>4, CallShutdownStep
  <1>5. ASSUME NEW o \in Op, Kernel!OpStep(o)  PROVE LifecycleInv'
    BY <1>5, RestoreDoneStep, StartEntersStep, StartHookEndsStep, DegradeStep,
       ShutdownEntersStep, StopBeginsStep, HookSteps, CloseDatabaseStep, StopFailsStep, ReportStep
       DEF Kernel!OpStep
  <1>6. ASSUME NEW o \in Op, Kernel!Abandon(o)  PROVE LifecycleInv'
    BY <1>6, AbandonStep
  <1>7. ASSUME NEW c \in Call, NEW k, Kernel!Enter(c, k)  PROVE LifecycleInv'
    BY <1>7, EnterStep
  <1>8. ASSUME NEW c \in Call, Kernel!CallStep(c)  PROVE LifecycleInv'
    BY <1>8, AnswerStep, ServeStep, UndoFailsStep, UndoDegradesStep, TellStep, AdmitStep,
       WaitEndsStep
       DEF Kernel!CallStep
  <1>9. ASSUME NEW c \in Call, Kernel!TurnEnds(c) \/ Kernel!Wait(c)  PROVE LifecycleInv'
    BY <1>9, TurnEndsStep, WaitStep
  <1> QED
    BY <1>1, <1>2, <1>3, <1>4, <1>5, <1>6, <1>7, <1>8, <1>9 DEF Kernel!Next

(* Whatever the kernel says of itself is true - the shutdown report, the   *)
(* last lifecycle event at rest, the result of a call it has served - for  *)
(* any number of starts, shutdowns, failures, abandoned callers and calls  *)
(* of the facades (kernel.py:start, shutdown, mark_degraded, _emit_change). *)
THEOREM KernelTellsTheTruth ==
    ASSUME Op \cap Call = {}
    PROVE  Kernel!Spec => []ReportsAreTrue
  <1>1. LifecycleInv => Kernel!ReportsAreTrue
    <2> SUFFICES ASSUME LifecycleInv  PROVE Kernel!ReportsAreTrue  OBVIOUS
    <2>1. Kernel!ReportIsTrue
      BY DEF LifecycleInv, Closed, Kernel!ReportIsTrue
    <2>2. Kernel!AnnouncedAtRest
      <3> SUFFICES ASSUME \A o \in Op : op[o].pc \in {"idle"} \cup Kernel!Over, ~cut
                   PROVE  announced = state
        BY DEF Kernel!AnnouncedAtRest
      <3>1. \A o \in Op : ~Owes(o)  BY DEF Owes, HookPc, Kernel!Over
      <3> QED  BY <3>1 DEF LifecycleInv, Announced
    <2>3. Kernel!CommittedIsReported
      BY DEF LifecycleInv, Shapes, CallShape, Kernel!CommittedIsReported
    <2> QED  BY <2>1, <2>2, <2>3 DEF Kernel!ReportsAreTrue
  <1> QED  BY <1>1, LifecycleInvInit, LifecycleInvStep, PTL DEF Kernel!Spec, ReportsAreTrue

----------------------------------------------------------------------------
(* The history of the legacy loop.                                         *)

(* The operators of Selections, seen through the instance.                 *)
LEMMA HistoryReads ==
    ASSUME NEW h
    PROVE  /\ Context!Turns(h) = Cardinality(Context!TurnStarts(h))
           /\ Context!LastStart(h) = Nth(Context!TurnStarts(h), Context!Turns(h))
           /\ Context!Prefix(h) = IF Context!TurnStarts(h) = {} THEN h
                                  ELSE SubSeq(h, 1, Nth(Context!TurnStarts(h), 1) - 1)
           /\ \A k \in 1..Context!Turns(h) :
                 Context!TurnsFrom(h, k) = SubSeq(h, Nth(Context!TurnStarts(h), k), Len(h))
           /\ Context!Packed(h) = <<Context!MainMessage>>
                                  \o Picked(h, {i \in DOMAIN h : ~Context!IsSystem(h[i])})
  <1>1. \A S : Context!Cardinality(S) = Cardinality(S)
    BY DEF Context!Cardinality, Cardinality
  <1>2. \A S, n : Context!Nth(S, n) = Nth(S, n)
    <2>1. \A S, n : Context!Rank(S, n) = Rank(S, n)  BY <1>1 DEF Context!Rank, Rank
    <2> QED  BY <2>1 DEF Context!Nth, Nth
  <1>3. \A s, S : Context!Picked(s, S) = Picked(s, S)
    BY <1>1, <1>2 DEF Context!Picked, Picked
  <1> QED
    BY <1>1, <1>2, <1>3
    DEF Context!Turns, Context!LastStart, Context!Prefix, Context!TurnsFrom, Context!Packed

(* What was put together can be taken apart again.                         *)
LEMMA ConcatParts ==
    ASSUME NEW T, NEW p \in Seq(T), NEW q \in Seq(T)
    PROVE  /\ SubSeq(p \o q, 1, Len(p)) = p
           /\ SubSeq(p \o q, Len(p) + 1, Len(p \o q)) = q
  <1>1. PICK s : s = p \o q  OBVIOUS
  <1>2. PICK m : m = Len(p)  OBVIOUS
  <1>3. PICK n : n = Len(q)  OBVIOUS
  <1>4. m \in Nat /\ n \in Nat  BY <1>2, <1>3
  <1>5. /\ s \in Seq(T) /\ Len(s) = m + n
        /\ \A i \in 1..(m + n) : s[i] = IF i <= m THEN p[i] ELSE q[i - m]
    BY <1>1, <1>2, <1>3, ConcatProperties
  <1>6. \A i \in 1..(m + n) : s[i] \in T  BY <1>4, <1>5
  <1>7. SubSeq(s, 1, m) = p
    <2>1. PICK t : t = SubSeq(s, 1, m)  OBVIOUS
    <2>2. \A i \in 1..m : s[i] \in T /\ s[i] = p[i]  BY <1>4, <1>5, <1>6
    <2>3. /\ Len(t) = IF 1 <= m THEN m - 1 + 1 ELSE 0
          /\ \A i \in 1..(m - 1 + 1) : t[i] = s[1 + i - 1]
      BY <1>4, <2>1, <2>2, SubSeqProperties
    <2>4. t \in Seq(T)  BY <1>4, <2>1, <2>2, SubSeqProperties
    <2>5. Len(t) = m  BY <1>4, <2>3
    <2>6. \A i \in 1..m : t[i] = p[i]  BY <1>4, <2>2, <2>3
    <2> QED  BY <1>2, <2>1, <2>4, <2>5, <2>6, SeqEqual
  <1>8. SubSeq(s, m + 1, m + n) = q
    <2>1. PICK t : t = SubSeq(s, m + 1, m + n)  OBVIOUS
    <2>2. \A i \in (m + 1)..(m + n) : s[i] \in T  BY <1>4, <1>6
    <2>3. /\ t \in Seq(T)
          /\ Len(t) = IF m + 1 <= m + n THEN (m + n) - (m + 1) + 1 ELSE 0
          /\ \A i \in 1..((m + n) - (m + 1) + 1) : t[i] = s[(m + 1) + i - 1]
      BY <1>4, <2>1, <2>2, SubSeqProperties
    <2>4. Len(t) = n  BY <1>4, <2>3
    <2>5. ASSUME NEW i \in 1..n  PROVE t[i] = q[i]
      <3>1. i \in Int /\ 1 <= i /\ i <= n  BY <1>4
      <3>2. i \in 1..((m + n) - (m + 1) + 1) /\ (m + 1) + i - 1 = m + i  BY <1>4, <3>1
      <3>3. m + i \in 1..(m + n) /\ ~(m + i <= m) /\ (m + i) - m = i  BY <1>4, <3>1
      <3> QED  BY <1>5, <2>3, <3>2, <3>3
    <2> QED  BY <1>3, <2>1, <2>3, <2>4, <2>5, SeqEqual
  <1> QED  BY <1>1, <1>2, <1>5, <1>7, <1>8

(* What the loop keeps true of the history it works on.                    *)
HistoryMessage == [kind : Context!Kinds, of : Nat, n : Nat]
User(m) == m.kind = "user"
Together(h, j, k) == \A i \in DOMAIN h : j < i /\ i <= k => ~User(h[i])
InLastTurn(h, k) == \A i \in DOMAIN h : k < i => ~User(h[i])
AskedAt(h, k) == \E j \in DOMAIN h : /\ j < k /\ h[j].kind = "answer" /\ h[j].of = h[k].of
                                     /\ h[k].n <= h[j].n /\ Together(h, j, k)
LaterKinds == {"summary", "user", "answer", "result"}

(* The prompt and the runtime state lead, the summaries come before the    *)
(* first turn; results are in the turn of their answers, which their       *)
(* numbers name.                                                           *)
Shape(h) ==
    /\ Len(h) >= 2 /\ h[1] = Context!MainMessage /\ h[2] = Context!RuntimeState
    /\ \A i \in DOMAIN h : i > 2 => h[i].kind \in LaterKinds
    /\ \A i, j \in DOMAIN h : h[i].kind = "summary" /\ User(h[j]) => i < j
Followed(h) == \A k \in DOMAIN h : h[k].kind = "result" => AskedAt(h, k)
Named(h, last) ==
    /\ \A i \in DOMAIN h : h[i].kind = "answer" => h[i].of <= last
    /\ \A i, j \in DOMAIN h : h[i].kind = "answer" /\ h[j].kind = "answer" /\ h[i].of = h[j].of =>
          h[i].n = h[j].n
Prompting(h, now) == \E k \in DOMAIN h : User(h[k]) /\ h[k].of = now /\ InLastTurn(h, k)
ResultAt(h, i, n) == \E j \in DOMAIN h : i < j /\ h[j] = Context!Message("result", h[i].of, n)
Settled(h, owed) ==
    \A i \in DOMAIN h : h[i].kind = "answer" /\ InLastTurn(h, i) => \A n \in 1..h[i].n :
        ResultAt(h, i, n) \/ <<h[i].of, n>> \in owed
Tidy(h, last, owed) == Shape(h) /\ Followed(h) /\ Named(h, last) /\ Settled(h, owed)

(* Something before the turns from a on: a beginning without a turn, whose *)
(* answers are of the history.                                             *)
Leading(p, h) ==
    /\ Len(p) >= 2 /\ p[1] = Context!MainMessage /\ p[2] = Context!RuntimeState
    /\ \A i \in DOMAIN p : i > 2 => p[i].kind \in LaterKinds
    /\ \A i \in DOMAIN p : ~User(p[i])
    /\ Followed(p)
    /\ \A i \in DOMAIN p : p[i].kind = "answer" => \E j \in DOMAIN h : h[j] = p[i]

LEMMA TurnsKept ==
    ASSUME NEW h \in Seq(HistoryMessage), NEW last, NEW owed, Tidy(h, last, owed),
           NEW p \in Seq(HistoryMessage), Leading(p, h), NEW a \in Context!TurnStarts(h)
    PROVE  LET g == p \o SubSeq(h, a, Len(h))
           IN  /\ g \in Seq(HistoryMessage) /\ Tidy(g, last, owed)
               /\ \A now : Prompting(h, now) => Prompting(g, now)
  <1>1. /\ DOMAIN h = 1..Len(h) /\ Len(h) \in Nat /\ DOMAIN p = 1..Len(p) /\ Len(p) \in Nat
        /\ a \in DOMAIN h /\ User(h[a])
    BY DEF Context!TurnStarts, User
  <1>2. a \in Int /\ 1 <= a /\ a <= Len(h)  BY <1>1
  <1>3. PICK q : q = SubSeq(h, a, Len(h))  OBVIOUS
  <1>4. /\ q \in Seq(HistoryMessage) /\ Len(q) = Len(h) - a + 1
        /\ \A i \in 1..(Len(h) - a + 1) : q[i] = h[a + i - 1]
    <2>1. \A i \in a..Len(h) : h[i] \in HistoryMessage  BY <1>1, <1>2
    <2> QED  BY <1>1, <1>2, <1>3, <2>1, SubSeqProperties
  <1>5. PICK g : g = p \o q  OBVIOUS
  <1>6. /\ g \in Seq(HistoryMessage) /\ Len(g) = Len(p) + Len(q)
        /\ \A i \in 1..Len(g) : g[i] = IF i <= Len(p) THEN p[i] ELSE q[i - Len(p)]
    <2>1. q \in Seq(HistoryMessage)  BY <1>4
    <2>2. /\ g \in Seq(HistoryMessage) /\ Len(g) = Len(p) + Len(q)
          /\ \A i \in 1..(Len(p) + Len(q)) : g[i] = IF i <= Len(p) THEN p[i] ELSE q[i - Len(p)]
      BY <1>5, <2>1, ConcatProperties
    <2> QED  BY <2>2
  <1>7. DOMAIN g = 1..Len(g)  BY <1>6
  <1>8. PICK d \in Int : d = Len(p) - a + 1  BY <1>1, <1>2
  <1>9. ASSUME NEW i \in DOMAIN p  PROVE i \in DOMAIN g /\ g[i] = p[i] /\ i \in Int /\ i <= Len(p)
    <2>1. i \in Int /\ 1 <= i /\ i <= Len(p)  BY <1>1
    <2>2. i <= Len(g)  BY <1>1, <1>2, <1>4, <1>6, <2>1
    <2> QED  BY <1>6, <1>7, <2>1, <2>2
  <1>10. ASSUME NEW j \in DOMAIN h, a <= j
         PROVE  j + d \in DOMAIN g /\ g[j + d] = h[j] /\ j \in Int /\ Len(p) < j + d
    <2>1. j \in Int /\ j <= Len(h)  BY <1>1
    <2>2. PICK i \in Int : i = j - a + 1  BY <1>2, <2>1
    <2>3. 1 <= i /\ i <= Len(h) - a + 1 /\ a + i - 1 = j  BY <1>1, <1>2, <1>10, <2>1, <2>2
    <2>4. q[i] = h[j]  BY <1>2, <1>4, <2>3
    <2>5. j + d = Len(p) + i  BY <1>1, <1>2, <1>8, <2>1, <2>2
    <2>6. Len(p) + i \in 1..Len(g) /\ ~(Len(p) + i <= Len(p)) /\ (Len(p) + i) - Len(p) = i
      BY <1>1, <1>2, <1>4, <1>6, <2>3
    <2>7. g[Len(p) + i] = q[i]  BY <1>6, <2>6
    <2> QED  BY <1>1, <1>7, <2>1, <2>3, <2>4, <2>5, <2>6, <2>7
  <1>11. ASSUME NEW i \in DOMAIN g
         PROVE  /\ i \in Int
                /\ i \in DOMAIN p \/ \E j \in DOMAIN h : a <= j /\ i = j + d
    <2>1. i \in Int /\ 1 <= i /\ i <= Len(p) + (Len(h) - a + 1)  BY <1>1, <1>2, <1>4, <1>6, <1>7
    <2>2. CASE i <= Len(p)  BY <1>1, <2>1, <2>2
    <2>3. CASE ~(i <= Len(p))
      <3>1. PICK j \in Int : j = i - d  BY <1>8, <2>1
      <3>2. i = j + d  BY <1>8, <2>1, <3>1
      <3>3. a <= j /\ 1 <= j /\ j <= Len(h)  BY <1>1, <1>2, <1>8, <2>1, <2>3, <3>1
      <3> QED  BY <1>1, <2>1, <3>2, <3>3
    <2> QED  BY <2>2, <2>3
  <1>12. ASSUME NEW j \in DOMAIN h, NEW k \in DOMAIN h, a <= j, Together(h, j, k)
         PROVE  Together(g, j + d, k + d)
    <2> SUFFICES ASSUME NEW i \in DOMAIN g, j + d < i, i <= k + d  PROVE ~User(g[i])
      BY DEF Together
    <2>1. i \notin DOMAIN p  BY <1>9, <1>10, <1>12, <1>1
    <2>2. PICK m \in DOMAIN h : a <= m /\ i = m + d  BY <1>11, <2>1
    <2>3. j < m /\ m <= k  BY SMTT(30), <1>1, <1>8, <2>2
    <2> QED  BY <1>10, <1>12, <2>2, <2>3 DEF Together
  <1>13. ASSUME NEW j \in DOMAIN h, a <= j, InLastTurn(h, j)  PROVE InLastTurn(g, j + d)
    <2> SUFFICES ASSUME NEW i \in DOMAIN g, j + d < i  PROVE ~User(g[i])
      BY DEF InLastTurn
    <2>1. i \notin DOMAIN p  BY <1>9, <1>10, <1>13, <1>1
    <2>2. PICK m \in DOMAIN h : a <= m /\ i = m + d  BY <1>11, <2>1
    <2>3. j < m  BY <1>1, <1>8, <2>2
    <2> QED  BY <1>10, <1>13, <2>2, <2>3 DEF InLastTurn
  <1>14. ASSUME NEW j \in DOMAIN h, NEW k \in DOMAIN h, j < k, Together(h, j, k), a <= k
         PROVE  a <= j
    <2>1. ~(j < a)  BY <1>1, <1>14 DEF Together
    <2> QED  BY <1>1, <1>2, <2>1
  <1>15. Shape(g)
    <2>1. Len(g) >= 2  BY <1>1, <1>2, <1>4, <1>6 DEF Leading
    <2>2. 1 \in DOMAIN p /\ 2 \in DOMAIN p  BY <1>1 DEF Leading
    <2>3. g[1] = Context!MainMessage /\ g[2] = Context!RuntimeState  BY <1>9, <2>2 DEF Leading
    <2>4. ASSUME NEW i \in DOMAIN g, i > 2  PROVE g[i].kind \in LaterKinds
      <3>1. CASE i \in DOMAIN p  BY <1>9, <2>4, <3>1 DEF Leading
      <3>2. CASE \E j \in DOMAIN h : a <= j /\ i = j + d
        <4>1. PICK j \in DOMAIN h : a <= j /\ i = j + d  BY <3>2
        <4>2. g[i] = h[j]  BY <1>10, <4>1
        <4>3. a # 1 /\ a # 2  BY <1>1 DEF Tidy, Shape, Context!MainMessage, Context!RuntimeState, Context!Message, User
        <4>4. j > 2  BY <1>1, <1>2, <4>1, <4>3
        <4> QED  BY <4>2, <4>4 DEF Tidy, Shape
      <3> QED  BY <1>11, <3>1, <3>2
    <2>5. ASSUME NEW i \in DOMAIN g, NEW k \in DOMAIN g, g[i].kind = "summary", User(g[k])
          PROVE  i < k
      <3>1. k \notin DOMAIN p  BY <1>9, <2>5 DEF Leading
      <3>2. PICK m \in DOMAIN h : a <= m /\ k = m + d  BY <1>11, <3>1
      <3>3. CASE i \in DOMAIN p
        <4>1. i \in Int /\ i <= Len(p)  BY <1>9, <3>3
        <4>2. Len(p) < k /\ k \in Int  BY <1>10, <1>11, <3>2
        <4> QED  BY <1>1, <4>1, <4>2
      <3>4. CASE \E j \in DOMAIN h : a <= j /\ i = j + d
        <4>1. PICK j \in DOMAIN h : a <= j /\ i = j + d  BY <3>4
        <4>2. h[j].kind = "summary"  BY <1>10, <2>5, <4>1
        <4>3. j < a  BY <1>1, <4>2 DEF Tidy, Shape
        <4> QED  BY <1>1, <1>2, <4>1, <4>3
      <3> QED  BY <1>11, <3>3, <3>4
    <2> QED  BY <2>1, <2>3, <2>4, <2>5 DEF Shape
  <1>16. Followed(g)
    <2> SUFFICES ASSUME NEW k \in DOMAIN g, g[k].kind = "result"  PROVE AskedAt(g, k)
      BY DEF Followed
    <2>1. CASE k \in DOMAIN p
      <3>1. AskedAt(p, k)  BY <1>9, <2>1 DEF Leading, Followed
      <3>2. PICK j \in DOMAIN p : /\ j < k /\ p[j].kind = "answer" /\ p[j].of = p[k].of
                                  /\ p[k].n <= p[j].n /\ Together(p, j, k)
        BY <3>1 DEF AskedAt
      <3>3. Together(g, j, k)
        <4> SUFFICES ASSUME NEW i \in DOMAIN g, j < i, i <= k  PROVE ~User(g[i])  BY DEF Together
        <4>1. i \in DOMAIN p
          <5>1. i \in Int /\ 1 <= i  BY <1>7, <1>6
          <5>2. i <= Len(p)  BY <1>1, <1>9, <2>1, <5>1
          <5> QED  BY <1>1, <5>1, <5>2
        <4> QED  BY <1>9, <4>1 DEF Leading
      <3> QED  BY <1>9, <2>1, <3>2, <3>3 DEF AskedAt
    <2>2. CASE \E j \in DOMAIN h : a <= j /\ k = j + d
      <3>1. PICK m \in DOMAIN h : a <= m /\ k = m + d  BY <2>2
      <3>2. g[k] = h[m] /\ AskedAt(h, m)  BY <1>10, <3>1 DEF Tidy, Followed
      <3>3. PICK j \in DOMAIN h : /\ j < m /\ h[j].kind = "answer" /\ h[j].of = h[m].of
                                  /\ h[m].n <= h[j].n /\ Together(h, j, m)
        BY <3>2 DEF AskedAt
      <3>4. a <= j  BY <1>14, <3>1, <3>3
      <3>5. j + d \in DOMAIN g /\ g[j + d] = h[j] /\ Together(g, j + d, k)
        BY <1>10, <1>12, <3>1, <3>3, <3>4
      <3>6. j + d < k  BY <1>1, <3>1, <3>3
      <3> QED  BY <3>2, <3>3, <3>5, <3>6 DEF AskedAt
    <2> QED  BY <1>11, <2>1, <2>2
  <1>17. Named(g, last)
    <2>1. ASSUME NEW i \in DOMAIN g, g[i].kind = "answer"  PROVE \E j \in DOMAIN h : h[j] = g[i]
      BY <1>9, <1>10, <1>11, <2>1 DEF Leading
    <2> QED  BY <2>1 DEF Tidy, Named
  <1>18. Settled(g, owed)
    <2> SUFFICES ASSUME NEW i \in DOMAIN g, g[i].kind = "answer", InLastTurn(g, i),
                        NEW n \in 1..g[i].n
                 PROVE  ResultAt(g, i, n) \/ <<g[i].of, n>> \in owed
      BY DEF Settled
    <2>1. i \notin DOMAIN p
      <3>1. a + d \in DOMAIN g /\ User(g[a + d]) /\ Len(p) < a + d  BY <1>1, <1>2, <1>10
      <3>2. ~(i < a + d)  BY <3>1 DEF InLastTurn
      <3> QED  BY <1>1, <1>2, <1>8, <1>9, <3>1, <3>2
    <2>2. PICK j \in DOMAIN h : a <= j /\ i = j + d  BY <1>11, <2>1
    <2>3. g[i] = h[j]  BY <1>10, <2>2
    <2>4. InLastTurn(h, j)
      <3> SUFFICES ASSUME NEW m \in DOMAIN h, j < m  PROVE ~User(h[m])  BY DEF InLastTurn
      <3>1. a <= m  BY <1>1, <1>2, <2>2
      <3>2. m + d \in DOMAIN g /\ g[m + d] = h[m] /\ i < m + d  BY <1>1, <1>10, <2>2, <3>1
      <3> QED  BY <3>2 DEF InLastTurn
    <2>5. ResultAt(h, j, n) \/ <<h[j].of, n>> \in owed
      BY <2>3, <2>4 DEF Tidy, Settled
    <2>6. ASSUME ResultAt(h, j, n)  PROVE ResultAt(g, i, n)
      <3>1. PICK m \in DOMAIN h : j < m /\ h[m] = Context!Message("result", h[j].of, n)
        BY <2>6 DEF ResultAt
      <3>2. a <= m  BY <1>1, <1>2, <2>2, <3>1
      <3>3. m + d \in DOMAIN g /\ g[m + d] = h[m] /\ i < m + d
        BY <1>1, <1>10, <2>2, <3>1, <3>2
      <3> QED  BY <2>3, <3>1, <3>3 DEF ResultAt
    <2> QED  BY <2>3, <2>5, <2>6
  <1>19. ASSUME NEW now, Prompting(h, now)  PROVE Prompting(g, now)
    <2>1. PICK k \in DOMAIN h : User(h[k]) /\ h[k].of = now /\ InLastTurn(h, k)
      BY <1>19 DEF Prompting
    <2>2. ~(k < a)  BY <1>1, <2>1 DEF InLastTurn
    <2>3. a <= k  BY <1>1, <1>2, <2>2
    <2> QED  BY <1>10, <1>13, <2>1, <2>3 DEF Prompting
  <1> QED  BY <1>3, <1>5, <1>6, <1>15, <1>16, <1>17, <1>18, <1>19 DEF Tidy

(* A beginning that holds no answers at all is tidy by itself.             *)
LEMMA NoTurnsKept ==
    ASSUME NEW h, NEW p \in Seq(HistoryMessage), Leading(p, h), NEW last, NEW owed,
           \A i \in DOMAIN p : p[i].kind # "answer"
    PROVE  Tidy(p, last, owed)
  BY DEF Leading, Tidy, Shape, Named, Settled

LEMMA DefaultsLead ==
    ASSUME NEW h, NEW last, NEW owed
    PROVE  /\ Context!DefaultHistory \in Seq(HistoryMessage) /\ Len(Context!DefaultHistory) = 2
           /\ Leading(Context!DefaultHistory, h) /\ Tidy(Context!DefaultHistory, last, owed)
           /\ Context!DefaultHistory \o <<Context!Summary>> \in Seq(HistoryMessage)
           /\ Leading(Context!DefaultHistory \o <<Context!Summary>>, h)
           /\ Tidy(Context!DefaultHistory \o <<Context!Summary>>, last, owed)
  <1>1. PICK p : p = Context!DefaultHistory  OBVIOUS
  <1>2. /\ Context!MainMessage \in HistoryMessage /\ Context!RuntimeState \in HistoryMessage
        /\ Context!Summary \in HistoryMessage
        /\ Context!MainMessage.kind = "main" /\ Context!RuntimeState.kind = "runtime" /\ Context!Summary.kind = "summary"
    BY DEF Context!MainMessage, Context!RuntimeState, Context!Summary, Context!Message, HistoryMessage, Context!Kinds
  <1>3. /\ p \in Seq(HistoryMessage) /\ Len(p) = 2 /\ DOMAIN p = 1..2
        /\ p[1] = Context!MainMessage /\ p[2] = Context!RuntimeState
    BY <1>1, <1>2 DEF Context!DefaultHistory
  <1>4. \A i \in DOMAIN p : p[i].kind \in {"main", "runtime"} /\ ~(i > 2)
    BY <1>2, <1>3
  <1>5. Leading(p, h)  BY <1>3, <1>4 DEF Leading, Followed, User
  <1>6. PICK q : q = p \o <<Context!Summary>>  OBVIOUS
  <1>7. /\ q \in Seq(HistoryMessage) /\ Len(q) = 3 /\ DOMAIN q = 1..3
        /\ q[1] = Context!MainMessage /\ q[2] = Context!RuntimeState /\ q[3] = Context!Summary
    <2>1. PICK t : t = <<Context!Summary>>  OBVIOUS
    <2>2. t \in Seq(HistoryMessage) /\ Len(t) = 1 /\ t[1] = Context!Summary  BY <1>2, <2>1
    <2>3. /\ q \in Seq(HistoryMessage) /\ Len(q) = Len(p) + Len(t)
          /\ \A i \in 1..(Len(p) + Len(t)) : q[i] = IF i <= Len(p) THEN p[i] ELSE t[i - Len(p)]
      <3>1. p \in Seq(HistoryMessage) /\ q = p \o t  BY <1>3, <1>6, <2>1
      <3>2. t \in Seq(HistoryMessage)  BY <2>2
      <3> QED  BY <3>1, <3>2, ConcatProperties
    <2>4. Len(q) = 3 /\ \A i \in 1..3 : q[i] = IF i <= 2 THEN p[i] ELSE t[i - 2]
      BY <1>3, <2>2, <2>3
    <2> QED  BY <1>3, <2>2, <2>3, <2>4
  <1>8. \A i \in DOMAIN q : q[i].kind \in {"main", "runtime", "summary"} /\ (i > 2 => i = 3)
    BY <1>2, <1>7
  <1>9. Leading(q, h)  BY <1>2, <1>7, <1>8 DEF Leading, Followed, User, LaterKinds
  <1>10. Tidy(p, last, owed) /\ Tidy(q, last, owed)
    BY <1>3, <1>4, <1>5, <1>7, <1>8, <1>9, NoTurnsKept
  <1> QED  BY <1>1, <1>3, <1>5, <1>6, <1>7, <1>9, <1>10

(* The turns of a history, and what is before the first.                   *)
LEMMA TurnsAre ==
    ASSUME NEW h \in Seq(HistoryMessage)
    PROVE  /\ Context!Turns(h) \in Nat /\ (Context!TurnStarts(h) = {} <=> Context!Turns(h) = 0)
           /\ Context!TurnStarts(h) \in SUBSET (DOMAIN h) /\ DOMAIN h = 1..Len(h) /\ Len(h) \in Nat
           /\ \A k \in 1..Context!Turns(h) : /\ Nth(Context!TurnStarts(h), k) \in Context!TurnStarts(h)
                                             /\ Context!TurnsFrom(h, k) = SubSeq(h, Nth(Context!TurnStarts(h), k), Len(h))
           /\ \A i \in Context!TurnStarts(h) : /\ Nth(Context!TurnStarts(h), 1) <= i
                                               /\ i <= Context!LastStart(h)
           /\ Context!TurnStarts(h) # {} => Context!Turns(h) >= 1 /\ Context!LastStart(h) \in Context!TurnStarts(h)
  <1>1. DOMAIN h = 1..Len(h) /\ Len(h) \in Nat  OBVIOUS
  <1>2. PICK S : S = Context!TurnStarts(h)  OBVIOUS
  <1>3. S \in SUBSET (1..Len(h))  BY <1>1, <1>2 DEF Context!TurnStarts
  <1>4. S \in SUBSET Int /\ IsFiniteSet(S) /\ Cardinality(S) \in Nat  BY <1>1, <1>3, PositionsAre
  <1>5. S = {} <=> Cardinality(S) = 0  BY <1>4, FS_EmptySet
  <1>6. Context!Turns(h) = Cardinality(S) /\ Context!LastStart(h) = Nth(S, Cardinality(S))
    BY <1>2, HistoryReads
  <1>7. \A k \in 1..Cardinality(S) : Nth(S, k) \in S  BY <1>4, NthIs
  <1>8. \A i \in S : Nth(S, 1) <= i /\ i <= Nth(S, Cardinality(S))  BY <1>4, NthEnds
  <1>9. S # {} => Cardinality(S) >= 1 /\ Nth(S, Cardinality(S)) \in S  BY <1>4, NthEnds
  <1>10. \A k \in 1..Context!Turns(h) : Context!TurnsFrom(h, k) = SubSeq(h, Nth(Context!TurnStarts(h), k), Len(h))
    BY HistoryReads
  <1> QED  BY <1>1, <1>2, <1>3, <1>4, <1>5, <1>6, <1>7, <1>8, <1>9, <1>10

LEMMA PrefixLeads ==
    ASSUME NEW h \in Seq(HistoryMessage), NEW last, NEW owed, Tidy(h, last, owed)
    PROVE  /\ SubSeq(h, 1, 2) = Context!DefaultHistory /\ SubSeq(Context!Prefix(h), 1, 2) = Context!DefaultHistory
           /\ Context!Bare(h) = Context!DefaultHistory
           /\ Context!TurnStarts(h) = {} => Context!Prefix(h) = h
           /\ Context!TurnStarts(h) # {} => Context!Prefix(h) \in Seq(HistoryMessage) /\ Leading(Context!Prefix(h), h)
           /\ \A i \in DOMAIN h : h[i].kind \in {"main", "runtime", "summary"} => i <= Len(Context!Prefix(h))
  <1>0. /\ DOMAIN h = 1..Len(h) /\ Len(h) \in Nat /\ Len(h) >= 2
        /\ h[1] = Context!MainMessage /\ h[2] = Context!RuntimeState
    BY DEF Tidy, Shape
  <1>1. \A s \in Seq(HistoryMessage) :
           Len(s) >= 2 /\ s[1] = Context!MainMessage /\ s[2] = Context!RuntimeState => SubSeq(s, 1, 2) = Context!DefaultHistory
    <2> SUFFICES ASSUME NEW s \in Seq(HistoryMessage), Len(s) >= 2, s[1] = Context!MainMessage,
                        s[2] = Context!RuntimeState
                 PROVE  SubSeq(s, 1, 2) = Context!DefaultHistory
      OBVIOUS
    <2>1. \A i \in 1..2 : s[i] \in HistoryMessage  OBVIOUS
    <2>2. PICK t : t = SubSeq(s, 1, 2)  OBVIOUS
    <2>3. /\ t \in Seq(HistoryMessage) /\ Len(t) = 2
          /\ \A i \in 1..(2 - 1 + 1) : t[i] = s[1 + i - 1]
      BY <2>1, <2>2, SubSeqProperties
    <2>4. t[1] = Context!MainMessage /\ t[2] = Context!RuntimeState  BY <2>3
    <2>5. PICK d : d = Context!DefaultHistory  OBVIOUS
    <2>6. /\ d \in Seq(HistoryMessage) /\ Len(d) = 2 /\ d[1] = Context!MainMessage /\ d[2] = Context!RuntimeState
      BY <2>5, DefaultsLead DEF Context!DefaultHistory
    <2>7. \A i \in 1..2 : t[i] = d[i]  BY <2>4, <2>6
    <2>8. t = d  BY <2>3, <2>6, <2>7, SeqEqual
    <2> QED  BY <2>2, <2>5, <2>8
  <1>2. PICK p : p = Context!Prefix(h)  OBVIOUS
  <1>3. /\ p \in Seq(HistoryMessage) /\ Len(p) >= 2 /\ p[1] = Context!MainMessage /\ p[2] = Context!RuntimeState
        /\ Context!TurnStarts(h) # {} => Leading(p, h)
        /\ \A i \in DOMAIN h : h[i].kind \in {"main", "runtime", "summary"} => i <= Len(p)
    <2>1. CASE Context!TurnStarts(h) = {}
      <3>1. p = h  BY <1>2, <2>1 DEF Context!Prefix
      <3> QED  BY <1>0, <2>1, <3>1
    <2>2. CASE Context!TurnStarts(h) # {}
      <3>1. PICK a : a = Nth(Context!TurnStarts(h), 1)  OBVIOUS
      <3>2. a \in Context!TurnStarts(h) /\ \A i \in Context!TurnStarts(h) : a <= i  BY <2>2, <3>1, TurnsAre
      <3>3. a \in DOMAIN h /\ User(h[a])  BY <3>2 DEF Context!TurnStarts, User
      <3>4. a # 1 /\ a # 2  BY <1>0, <3>3 DEF Context!MainMessage, Context!RuntimeState, Context!Message, User
      <3>5. a \in Int /\ a > 2 /\ a <= Len(h)  BY <1>0, <3>3, <3>4
      <3>6. p = SubSeq(h, 1, a - 1)  BY <1>2, <2>2, <3>1, HistoryReads
      <3>7. \A i \in 1..(a - 1) : h[i] \in HistoryMessage  BY <1>0, <3>5
      <3>8. /\ p \in Seq(HistoryMessage) /\ Len(p) = a - 1
            /\ \A i \in 1..(a - 1) : p[i] = h[i]
        <4>1. 1 <= a - 1 /\ a - 1 \in Int /\ (a - 1) - 1 + 1 = a - 1  BY <3>5
        <4>2. /\ p \in Seq(HistoryMessage) /\ Len(p) = (a - 1) - 1 + 1
              /\ \A i \in 1..((a - 1) - 1 + 1) : p[i] = h[1 + i - 1]
          BY <3>6, <3>7, <4>1, SubSeqProperties
        <4>3. \A i \in 1..(a - 1) : 1 + i - 1 = i  BY <3>5
        <4> QED  BY <4>1, <4>2, <4>3
      <3>9. ASSUME NEW i \in DOMAIN p
            PROVE  i \in DOMAIN h /\ i < a /\ i \in Int /\ p[i] = h[i] /\ ~User(p[i])
        <4>1. i \in 1..(a - 1)  BY <3>8
        <4>2. i \in Int /\ i < a /\ i \in DOMAIN h /\ p[i] = h[i]  BY <1>0, <3>5, <3>8, <4>1
        <4>3. ~(a <= i)  BY <3>5, <4>2
        <4>4. i \notin Context!TurnStarts(h)  BY <3>2, <4>3
        <4> QED  BY <4>2, <4>4 DEF Context!TurnStarts, User
      <3>10. ASSUME NEW i \in DOMAIN h, i < a  PROVE i \in DOMAIN p /\ p[i] = h[i]
        <4>1. i \in 1..(a - 1)  BY <1>0, <3>5, <3>10
        <4> QED  BY <3>8, <4>1
      <3>11. Followed(p)
        <4> SUFFICES ASSUME NEW k \in DOMAIN p, p[k].kind = "result"  PROVE AskedAt(p, k)
          BY DEF Followed
        <4>1. k \in DOMAIN h /\ p[k] = h[k] /\ k < a /\ k \in Int  BY <3>9
        <4>2. PICK j \in DOMAIN h : /\ j < k /\ h[j].kind = "answer" /\ h[j].of = h[k].of
                                    /\ h[k].n <= h[j].n /\ Together(h, j, k)
          BY <4>1 DEF Tidy, Followed, AskedAt
        <4>3. j \in DOMAIN p /\ p[j] = h[j]  BY <1>0, <3>5, <3>10, <4>1, <4>2
        <4>4. Together(p, j, k)  BY <3>9 DEF Together
        <4> QED  BY <4>1, <4>2, <4>3, <4>4 DEF AskedAt
      <3>12. 1 \in DOMAIN p /\ 2 \in DOMAIN p  BY <3>5, <3>8
      <3>13. p[1] = Context!MainMessage /\ p[2] = Context!RuntimeState /\ Len(p) >= 2
        BY <1>0, <3>5, <3>8, <3>9, <3>12
      <3>14. Leading(p, h)
        BY <3>9, <3>11, <3>13 DEF Leading, Tidy, Shape
      <3>15. ASSUME NEW i \in DOMAIN h, h[i].kind \in {"main", "runtime", "summary"}
             PROVE  i <= Len(p)
        <4>1. i < a
          <5>1. i \in Int  BY <1>0
          <5>2. CASE i > 2
            <6>1. h[i].kind = "summary"  BY <3>15, <5>2 DEF Tidy, Shape, LaterKinds
            <6> QED  BY <3>3, <6>1 DEF Tidy, Shape
          <5>3. CASE ~(i > 2)  BY <3>5, <5>1, <5>3
          <5> QED  BY <5>2, <5>3
        <4> QED  BY <1>0, <3>5, <3>8, <4>1
      <3> QED  BY <2>2, <3>8, <3>13, <3>14, <3>15
    <2> QED  BY <2>1, <2>2
  <1>4. SubSeq(h, 1, 2) = Context!DefaultHistory /\ SubSeq(p, 1, 2) = Context!DefaultHistory
    BY <1>0, <1>1, <1>3
  <1>5. Context!Bare(h) = Context!DefaultHistory  BY <1>2, <1>3, <1>4 DEF Context!Bare
  <1>6. Context!TurnStarts(h) = {} => Context!Prefix(h) = h  BY DEF Context!Prefix
  <1> QED  BY <1>2, <1>3, <1>4, <1>5, <1>6

(* Trimming removes whole turns, never the last one.                       *)
LEMMA RemovedIs ==
    ASSUME NEW h \in Seq(HistoryMessage), NEW last, NEW owed, Tidy(h, last, owed),
           NEW k \in 0..Context!Removals(h)
    PROVE  /\ Context!Removed(h, k) \in Seq(HistoryMessage) /\ Tidy(Context!Removed(h, k), last, owed)
           /\ \A now : Prompting(h, now) => Prompting(Context!Removed(h, k), now)
  <1>1. /\ Context!Turns(h) \in Nat /\ (Context!TurnStarts(h) = {} <=> Context!Turns(h) = 0)
        /\ \A m \in 1..Context!Turns(h) : /\ Nth(Context!TurnStarts(h), m) \in Context!TurnStarts(h)
                                          /\ Context!TurnsFrom(h, m) = SubSeq(h, Nth(Context!TurnStarts(h), m), Len(h))
    BY TurnsAre
  <1>2. /\ Context!Bare(h) = Context!DefaultHistory /\ (Context!TurnStarts(h) = {} => Context!Prefix(h) = h)
        /\ Context!TurnStarts(h) # {} => Context!Prefix(h) \in Seq(HistoryMessage) /\ Leading(Context!Prefix(h), h)
    BY PrefixLeads
  <1>3. /\ Context!DefaultHistory \in Seq(HistoryMessage) /\ Leading(Context!DefaultHistory, h)
        /\ Tidy(Context!DefaultHistory, last, owed)
    BY DefaultsLead
  <1>4. k \in Int /\ 0 <= k /\ k <= Context!Turns(h) + 1  BY <1>1 DEF Context!Removals
  <1>5. CASE Context!Turns(h) = 0
    <2>1. \A m : Context!TurnsFrom(h, m) = <<>>  BY <1>5 DEF Context!TurnsFrom
    <2>2. CASE k = 0
      <3>1. Context!Removed(h, k) = h \o <<>>  BY <1>1, <1>2, <1>5, <2>1, <2>2 DEF Context!Removed
      <3>2. Context!Removed(h, k) = h  BY <3>1, ConcatEmptySeq
      <3> QED  BY <3>2
    <2>3. CASE k # 0
      <3>1. Context!Removed(h, k) = Context!DefaultHistory \o <<>>
        <4>1. ~(k < Context!Turns(h)) /\ k # 0  BY <1>4, <1>5, <2>3
        <4>2. Context!TurnsFrom(h, Context!Turns(h)) = <<>>  BY <2>1
        <4> QED  BY <1>2, <4>1, <4>2 DEF Context!Removed
      <3>2. Context!Removed(h, k) = Context!DefaultHistory  BY <1>3, <3>1, ConcatEmptySeq
      <3>3. \A now : ~Prompting(h, now)  BY <1>1, <1>5 DEF Prompting, Context!TurnStarts, User
      <3> QED  BY <1>3, <3>2, <3>3
    <2> QED  BY <2>2, <2>3
  <1>6. CASE Context!Turns(h) # 0 /\ k < Context!Turns(h)
    <2>1. k + 1 \in 1..Context!Turns(h)  BY <1>1, <1>4, <1>6
    <2>2. PICK a : a = Nth(Context!TurnStarts(h), k + 1)  OBVIOUS
    <2>3. a \in Context!TurnStarts(h)  BY <1>1, <2>1, <2>2
    <2>4. Context!Removed(h, k) = Context!Prefix(h) \o SubSeq(h, a, Len(h))
      BY <1>1, <1>6, <2>1, <2>2 DEF Context!Removed
    <2> QED  BY <1>1, <1>2, <1>6, <2>3, <2>4, TurnsKept
  <1>7. CASE Context!Turns(h) # 0 /\ ~(k < Context!Turns(h))
    <2>1. Context!Turns(h) \in 1..Context!Turns(h) /\ k # 0  BY <1>1, <1>4, <1>7
    <2>2. PICK a : a = Nth(Context!TurnStarts(h), Context!Turns(h))  OBVIOUS
    <2>3. a \in Context!TurnStarts(h)  BY <1>1, <2>1, <2>2
    <2>4. Context!Removed(h, k) = Context!DefaultHistory \o SubSeq(h, a, Len(h))
      BY <1>1, <1>2, <1>7, <2>1, <2>2 DEF Context!Removed
    <2> QED  BY <1>3, <2>3, <2>4, TurnsKept
  <1> QED  BY <1>5, <1>6, <1>7

LEMMA TrimmedIs ==
    ASSUME NEW h \in Seq(HistoryMessage), NEW last, NEW owed, Tidy(h, last, owed), NEW budget
    PROVE  /\ Context!Trimmed(h, budget) \in Seq(HistoryMessage) /\ Tidy(Context!Trimmed(h, budget), last, owed)
           /\ \A now : Prompting(h, now) => Prompting(Context!Trimmed(h, budget), now)
  <1>1. Context!Removals(h) \in Nat  BY TurnsAre DEF Context!Removals
  <1>2. PICK fitting : fitting = {k \in 0..Context!Removals(h) : Len(Context!Removed(h, k)) <= budget}  OBVIOUS
  <1>3. PICK k \in 0..Context!Removals(h) : Context!Trimmed(h, budget) = Context!Removed(h, k)
    <2>1. CASE fitting = {}
      <3>1. Context!Trimmed(h, budget) = Context!Removed(h, Context!Removals(h))  BY <1>2, <2>1 DEF Context!Trimmed
      <3> QED  BY <1>1, <3>1
    <2>2. CASE fitting # {}
      <3>1. fitting \in SUBSET Nat /\ fitting \in SUBSET (0..Context!Removals(h))  BY <1>1, <1>2
      <3>2. \E m \in fitting : \A j \in fitting : m <= j  BY <2>2, <3>1, LeastExists
      <3>3. PICK m : m = CHOOSE k \in fitting : \A j \in fitting : k <= j  OBVIOUS
      <3>4. m \in fitting  BY <3>2, <3>3
      <3>5. Context!Trimmed(h, budget) = Context!Removed(h, m)  BY <1>2, <2>2, <3>3 DEF Context!Trimmed
      <3> QED  BY <3>1, <3>4, <3>5
    <2> QED  BY <2>1, <2>2
  <1> QED  BY <1>3, RemovedIs

(* A summary keeps the last turns, unless none are to be kept.             *)
LEMMA SummaryIs ==
    ASSUME NEW h \in Seq(HistoryMessage), NEW last, NEW owed, Tidy(h, last, owed),
           Context!Compressible(h), settings.keep \in Nat
    PROVE  LET g == Context!WithSummary(h, Context!Retained(h))
           IN  /\ g \in Seq(HistoryMessage) /\ Tidy(g, last, owed)
               /\ settings.keep > 0 => \A now : Prompting(h, now) => Prompting(g, now)
  <1>1. /\ Context!Turns(h) \in Nat /\ DOMAIN h = 1..Len(h) /\ Len(h) \in Nat
        /\ Context!TurnStarts(h) \in SUBSET (DOMAIN h)
        /\ \A m \in 1..Context!Turns(h) : /\ Nth(Context!TurnStarts(h), m) \in Context!TurnStarts(h)
                                          /\ Context!TurnsFrom(h, m) = SubSeq(h, Nth(Context!TurnStarts(h), m), Len(h))
    BY TurnsAre
  <1>2. SubSeq(h, 1, 2) = Context!DefaultHistory /\ SubSeq(Context!Prefix(h), 1, 2) = Context!DefaultHistory
    BY PrefixLeads
  <1>3. /\ Context!DefaultHistory \in Seq(HistoryMessage) /\ Len(Context!DefaultHistory) = 2
        /\ Context!DefaultHistory \o <<Context!Summary>> \in Seq(HistoryMessage)
        /\ Leading(Context!DefaultHistory \o <<Context!Summary>>, h)
        /\ Tidy(Context!DefaultHistory \o <<Context!Summary>>, last, owed)
    BY DefaultsLead
  <1>4. PICK rest : rest = Context!TurnsFrom(h, Context!Turns(h) - settings.keep + 1)  OBVIOUS
  <1>5. Context!Turns(h) > settings.keep  BY DEF Context!Compressible
  <1>6. /\ rest \in Seq(HistoryMessage)
        /\ settings.keep = 0 => rest = <<>>
        /\ settings.keep > 0 => \E a \in Context!TurnStarts(h) : rest = SubSeq(h, a, Len(h))
    <2>1. CASE settings.keep = 0
      <3>1. Context!Turns(h) - settings.keep + 1 \notin 1..Context!Turns(h)  BY <1>1, <2>1
      <3>2. rest = <<>>  BY <1>4, <3>1 DEF Context!TurnsFrom
      <3> QED  BY <2>1, <3>2
    <2>2. CASE settings.keep > 0
      <3>1. PICK m : m = Context!Turns(h) - settings.keep + 1  OBVIOUS
      <3>2. m \in 1..Context!Turns(h)  BY <1>1, <1>5, <2>2, <3>1
      <3>3. PICK a \in Context!TurnStarts(h) : rest = SubSeq(h, a, Len(h))
        BY <1>1, <1>4, <3>1, <3>2
      <3>4. a \in Int /\ 1 <= a /\ \A i \in a..Len(h) : h[i] \in HistoryMessage  BY <1>1
      <3>5. rest \in Seq(HistoryMessage)  BY <1>1, <3>3, <3>4, SubSeqProperties
      <3>6. settings.keep # 0  BY <2>2
      <3> QED  BY <3>3, <3>5, <3>6
    <2> QED  BY <2>1, <2>2
  <1>7. PICK kept : kept = Context!DefaultHistory \o rest  OBVIOUS
  <1>8. Context!Retained(h) = kept  BY <1>2, <1>4, <1>7 DEF Context!Retained
  <1>9. SubSeq(kept, 1, 2) = Context!DefaultHistory /\ SubSeq(kept, 3, Len(kept)) = rest
    <2>1. /\ SubSeq(kept, 1, Len(Context!DefaultHistory)) = Context!DefaultHistory
          /\ SubSeq(kept, Len(Context!DefaultHistory) + 1, Len(kept)) = rest
      BY <1>3, <1>6, <1>7, ConcatParts
    <2> QED  BY <1>3, <2>1
  <1>10. Context!WithSummary(h, Context!Retained(h)) = Context!DefaultHistory \o <<Context!Summary>> \o rest
    <2>1. PICK base : base = SubSeq(h, 1, 2)  OBVIOUS
    <2>2. base = Context!DefaultHistory /\ Len(base) = 2  BY <1>2, <1>3, <2>1
    <2>3. SubSeq(kept, 1, Len(base)) = base /\ SubSeq(kept, Len(base) + 1, Len(kept)) = rest
      BY <1>9, <2>2
    <2>4. Context!WithSummary(h, kept) = base \o <<Context!Summary>> \o rest  BY <2>1, <2>3 DEF Context!WithSummary
    <2> QED  BY <1>8, <2>2, <2>4
  <1>11. CASE settings.keep = 0
    <2>1. Context!WithSummary(h, Context!Retained(h)) = Context!DefaultHistory \o <<Context!Summary>>
      BY <1>3, <1>6, <1>10, <1>11, ConcatEmptySeq
    <2> QED  BY <1>3, <1>11, <2>1
  <1>12. CASE settings.keep > 0
    <2>1. PICK a \in Context!TurnStarts(h) : rest = SubSeq(h, a, Len(h))  BY <1>6, <1>12
    <2>2. Context!WithSummary(h, Context!Retained(h)) = (Context!DefaultHistory \o <<Context!Summary>>) \o SubSeq(h, a, Len(h))
      BY <1>10, <2>1
    <2> QED  BY <1>3, <2>2, TurnsKept
  <1> QED  BY <1>11, <1>12

(* One more message at the end of the history.                             *)
LEMMA HistoryGrows ==
    ASSUME NEW h \in Seq(HistoryMessage), NEW m \in HistoryMessage
    PROVE  LET g == Append(h, m)
           IN /\ g \in Seq(HistoryMessage) /\ DOMAIN g = (DOMAIN h) \cup {Len(h) + 1}
              /\ Len(h) \in Nat /\ Len(g) = Len(h) + 1 /\ g[Len(h) + 1] = m
              /\ \A k \in DOMAIN h : k \in Int /\ k < Len(h) + 1 /\ g[k] = h[k]
              /\ \A j, k \in DOMAIN h : Together(h, j, k) => Together(g, j, k)
              /\ \A k \in DOMAIN h : InLastTurn(g, k) => ~User(m) /\ InLastTurn(h, k)
              /\ ~User(m) => \A k \in DOMAIN h : InLastTurn(h, k) =>
                    InLastTurn(g, k) /\ Together(g, k, Len(h) + 1)
              /\ InLastTurn(g, Len(h) + 1)
  <1>1. PICK g : g = Append(h, m)  OBVIOUS
  <1>2. PICK n : n = Len(h) + 1  OBVIOUS
  <1>3. /\ g \in Seq(HistoryMessage) /\ DOMAIN g = (DOMAIN h) \cup {n} /\ Len(g) = n
        /\ n \in Int /\ Len(h) \in Nat /\ g[n] = m
        /\ \A k \in DOMAIN h : k \in Int /\ k < n /\ g[k] = h[k]
    BY <1>1, <1>2
  <1>4. ASSUME NEW j \in DOMAIN h, NEW k \in DOMAIN h, Together(h, j, k)  PROVE Together(g, j, k)
    <2> SUFFICES ASSUME NEW i \in DOMAIN g, j < i, i <= k  PROVE ~User(g[i])  BY DEF Together
    <2>1. i # n  BY <1>3
    <2> QED  BY <1>3, <1>4, <2>1 DEF Together
  <1>5. ASSUME ~User(m), NEW k \in DOMAIN h, InLastTurn(h, k)
        PROVE  InLastTurn(g, k) /\ Together(g, k, n)
    BY <1>3, <1>5 DEF InLastTurn, Together
  <1>6. InLastTurn(g, n)
    <2> SUFFICES ASSUME NEW i \in DOMAIN g, n < i  PROVE FALSE  BY DEF InLastTurn
    <2>1. i \in DOMAIN h  BY <1>3
    <2> QED  BY <1>3, <2>1
  <1>7. ASSUME NEW k \in DOMAIN h, InLastTurn(g, k)  PROVE ~User(m) /\ InLastTurn(h, k)
    BY <1>3, <1>7 DEF InLastTurn
  <1> QED  BY <1>1, <1>2, <1>3, <1>4, <1>5, <1>6, <1>7

LEMMA ShapeGrows ==
    ASSUME NEW h \in Seq(HistoryMessage), NEW m \in HistoryMessage, Shape(h),
           m.kind \in {"user", "answer", "result"}
    PROVE  Shape(Append(h, m))
  <1>1. PICK g : g = Append(h, m)  OBVIOUS
  <1>2. PICK n : n = Len(h) + 1  OBVIOUS
  <1>3. /\ DOMAIN g = (DOMAIN h) \cup {n} /\ g[n] = m /\ Len(g) = n /\ n \in Int
        /\ \A k \in DOMAIN h : k < n /\ g[k] = h[k]
        /\ DOMAIN h = 1..Len(h) /\ Len(h) \in Nat /\ Len(h) >= 2 /\ n >= 2
    BY <1>1, <1>2, HistoryGrows DEF Shape
  <1>4. 1 \in DOMAIN h /\ 2 \in DOMAIN h  BY <1>3
  <1>5. g[1] = Context!MainMessage /\ g[2] = Context!RuntimeState  BY <1>3, <1>4 DEF Shape
  <1>6. ASSUME NEW i \in DOMAIN g, NEW j \in DOMAIN g, g[i].kind = "summary", User(g[j])
        PROVE  i < j
    <2>1. i # n  BY <1>3, <1>6
    <2>2. i \in DOMAIN h /\ g[i] = h[i] /\ i < n  BY <1>3, <2>1
    <2> QED  BY <1>3, <1>6, <2>2 DEF Shape
  <1>7. \A i \in DOMAIN g : i > 2 => g[i].kind \in LaterKinds
    BY <1>3 DEF Shape, LaterKinds
  <1> QED  BY <1>1, <1>3, <1>5, <1>6, <1>7 DEF Shape

LEMMA HistoryFollows ==
    ASSUME NEW h \in Seq(HistoryMessage), NEW m \in HistoryMessage, Followed(h),
           m.kind = "result" => \E j \in DOMAIN h : /\ h[j].kind = "answer" /\ InLastTurn(h, j)
                                                    /\ h[j].of = m.of /\ m.n <= h[j].n
    PROVE  Followed(Append(h, m))
  <1>1. PICK g : g = Append(h, m)  OBVIOUS
  <1>2. PICK n : n = Len(h) + 1  OBVIOUS
  <1>3. /\ DOMAIN g = (DOMAIN h) \cup {n} /\ g[n] = m
        /\ \A k \in DOMAIN h : k < n /\ g[k] = h[k]
        /\ \A j, k \in DOMAIN h : Together(h, j, k) => Together(g, j, k)
        /\ ~User(m) => \A k \in DOMAIN h : InLastTurn(h, k) => Together(g, k, n)
    BY <1>1, <1>2, HistoryGrows
  <1>4. ASSUME NEW k \in DOMAIN h, g[k].kind = "result"  PROVE AskedAt(g, k)
    <2>1. AskedAt(h, k)  BY <1>3, <1>4 DEF Followed
    <2> QED  BY <1>3, <2>1 DEF AskedAt
  <1>5. ASSUME g[n].kind = "result"  PROVE AskedAt(g, n)
    <2>1. ~User(m)  BY <1>3, <1>5 DEF User
    <2> QED  BY <1>3, <1>5, <2>1 DEF AskedAt
  <1> QED  BY <1>1, <1>3, <1>4, <1>5 DEF Followed

LEMMA NamesGrow ==
    ASSUME NEW h \in Seq(HistoryMessage), NEW m \in HistoryMessage,
           NEW last \in Nat, NEW next \in Nat, Named(h, last), last <= next,
           m.kind = "answer" => m.of = next /\ last < next
    PROVE  Named(Append(h, m), next)
  <1>1. PICK g : g = Append(h, m)  OBVIOUS
  <1>2. PICK n : n = Len(h) + 1  OBVIOUS
  <1>3. /\ DOMAIN g = (DOMAIN h) \cup {n} /\ g[n] = m
        /\ \A k \in DOMAIN h : k < n /\ g[k] = h[k]
    BY <1>1, <1>2, HistoryGrows
  <1>4. ASSUME NEW i \in DOMAIN h, g[i].kind = "answer"
        PROVE  g[i].of <= last /\ g[i].of \in Nat /\ g[i] = h[i]
    <2>1. g[i] = h[i] /\ h[i] \in HistoryMessage  BY <1>3
    <2>2. h[i].of \in Nat  BY <2>1 DEF HistoryMessage
    <2>3. h[i].of <= last  BY <1>4, <2>1 DEF Named
    <2> QED  BY <2>1, <2>2, <2>3
  <1>5. ASSUME NEW i \in DOMAIN g, g[i].kind = "answer"  PROVE g[i].of <= next
    BY <1>3, <1>4, <1>5
  <1>6. ASSUME NEW i \in DOMAIN g, NEW j \in DOMAIN g, g[i].kind = "answer", g[j].kind = "answer",
               g[i].of = g[j].of
        PROVE  g[i].n = g[j].n
    <2>1. CASE i \in DOMAIN h /\ j \in DOMAIN h  BY <1>4, <1>6, <2>1 DEF Named
    <2>2. CASE i \in DOMAIN h /\ j = n  BY <1>3, <1>4, <1>6, <2>2
    <2>3. CASE i = n /\ j \in DOMAIN h  BY <1>3, <1>4, <1>6, <2>3
    <2>4. CASE i = n /\ j = n  BY <2>4
    <2> QED  BY <1>3, <2>1, <2>2, <2>3, <2>4
  <1> QED  BY <1>1, <1>5, <1>6 DEF Named

(* What is owed before and not after, the message is the result of.        *)
LEMMA SettledGrows ==
    ASSUME NEW h \in Seq(HistoryMessage), NEW m \in HistoryMessage, NEW owed, NEW next,
           Settled(h, owed),
           User(m) \/ \A of, n \in Nat : <<of, n>> \in owed =>
                         <<of, n>> \in next \/ m = Context!Message("result", of, n),
           m.kind = "answer" => \A n \in 1..m.n : <<m.of, n>> \in next
    PROVE  Settled(Append(h, m), next)
  <1>1. PICK g : g = Append(h, m)  OBVIOUS
  <1>2. PICK e : e = Len(h) + 1  OBVIOUS
  <1>3. /\ DOMAIN g = (DOMAIN h) \cup {e} /\ g[e] = m
        /\ \A k \in DOMAIN h : k < e /\ g[k] = h[k]
        /\ \A k \in DOMAIN h : InLastTurn(g, k) => ~User(m) /\ InLastTurn(h, k)
    BY <1>1, <1>2, HistoryGrows
  <1>4. ASSUME NEW i \in DOMAIN g, g[i].kind = "answer", InLastTurn(g, i), NEW n \in 1..g[i].n
        PROVE  ResultAt(g, i, n) \/ <<g[i].of, n>> \in next
    <2>1. CASE i = e  BY <1>3, <1>4, <2>1
    <2>2. CASE i \in DOMAIN h
      <3>1. g[i] = h[i] /\ ~User(m) /\ InLastTurn(h, i)  BY <1>3, <1>4, <2>2
      <3>2. ResultAt(h, i, n) \/ <<h[i].of, n>> \in owed  BY <1>4, <2>2, <3>1 DEF Settled
      <3>3. CASE ResultAt(h, i, n)  BY <1>3, <3>1, <3>3 DEF ResultAt
      <3>4. CASE <<h[i].of, n>> \in owed
        <4>0. h[i] \in HistoryMessage  BY <2>2
        <4>1. h[i].of \in Nat /\ h[i].n \in Nat  BY <4>0 DEF HistoryMessage
        <4>2. n \in Nat  BY <3>1, <4>1
        <4>3. <<h[i].of, n>> \in next \/ m = Context!Message("result", h[i].of, n)
          BY <3>1, <3>4, <4>1, <4>2
        <4> QED  BY <1>3, <2>2, <3>1, <4>3 DEF ResultAt
      <3> QED  BY <3>2, <3>3, <3>4
    <2> QED  BY <1>3, <2>1, <2>2
  <1> QED  BY <1>1, <1>4 DEF Settled

LEMMA PromptGrows ==
    ASSUME NEW h \in Seq(HistoryMessage), NEW m \in HistoryMessage, NEW now,
           (~User(m) /\ Prompting(h, now)) \/ (User(m) /\ m.of = now)
    PROVE  Prompting(Append(h, m), now)
  <1>1. PICK g : g = Append(h, m)  OBVIOUS
  <1>2. PICK e : e = Len(h) + 1  OBVIOUS
  <1>3. /\ DOMAIN g = (DOMAIN h) \cup {e} /\ g[e] = m /\ InLastTurn(g, e)
        /\ \A k \in DOMAIN h : g[k] = h[k]
        /\ ~User(m) => \A k \in DOMAIN h : InLastTurn(h, k) => InLastTurn(g, k)
    BY <1>1, <1>2, HistoryGrows
  <1> QED  BY <1>1, <1>3 DEF Prompting

AnyOwed == Nat \X Nat
LEMMA SettledAtRest ==
    ASSUME NEW h \in Seq(HistoryMessage)  PROVE Settled(h, AnyOwed)
  <1> SUFFICES ASSUME NEW i \in DOMAIN h, NEW n \in 1..h[i].n  PROVE <<h[i].of, n>> \in AnyOwed
    BY DEF Settled
  <1>0. h[i] \in HistoryMessage  OBVIOUS
  <1>1. h[i].of \in Nat /\ h[i].n \in Nat  BY <1>0 DEF HistoryMessage
  <1>2. n \in Nat  BY <1>1
  <1> QED  BY <1>1, <1>2 DEF AnyOwed

(* An undone turn takes everything from its prompt on with it.             *)
LEMMA TurnUndone ==
    ASSUME NEW h \in Seq(HistoryMessage), Shape(h), Followed(h), NEW last, Named(h, last),
           NEW a \in Context!TurnStarts(h)
    PROVE  LET p == SubSeq(h, 1, a - 1)
           IN  p \in Seq(HistoryMessage) /\ Shape(p) /\ Followed(p) /\ Named(p, last)
  <1>0. /\ DOMAIN h = 1..Len(h) /\ Len(h) \in Nat /\ Len(h) >= 2
        /\ h[1] = Context!MainMessage /\ h[2] = Context!RuntimeState
        /\ a \in DOMAIN h /\ User(h[a])
    BY DEF Shape, Context!TurnStarts, User
  <1>1. PICK p : p = SubSeq(h, 1, a - 1)  OBVIOUS
  <1>2. a # 1 /\ a # 2  BY <1>0 DEF Context!MainMessage, Context!RuntimeState, Context!Message, User
  <1>3. a \in Int /\ a > 2 /\ a <= Len(h)  BY <1>0, <1>2
  <1>4. \A i \in 1..(a - 1) : h[i] \in HistoryMessage  BY <1>0, <1>3
  <1>5. /\ p \in Seq(HistoryMessage) /\ Len(p) = a - 1
        /\ \A i \in 1..(a - 1) : p[i] = h[i]
    <2>1. 1 <= a - 1 /\ a - 1 \in Int /\ (a - 1) - 1 + 1 = a - 1  BY <1>3
    <2>2. /\ p \in Seq(HistoryMessage) /\ Len(p) = (a - 1) - 1 + 1
          /\ \A i \in 1..((a - 1) - 1 + 1) : p[i] = h[1 + i - 1]
      BY <1>1, <1>4, <2>1, SubSeqProperties
    <2>3. \A i \in 1..(a - 1) : 1 + i - 1 = i  BY <1>3
    <2> QED  BY <2>1, <2>2, <2>3
  <1>6. ASSUME NEW i \in DOMAIN p  PROVE i \in DOMAIN h /\ i < a /\ i \in Int /\ p[i] = h[i]
    <2>1. i \in 1..(a - 1)  BY <1>5
    <2> QED  BY <1>0, <1>3, <1>5, <2>1
  <1>7. ASSUME NEW i \in DOMAIN h, i < a  PROVE i \in DOMAIN p /\ p[i] = h[i]
    <2>1. i \in 1..(a - 1)  BY <1>0, <1>3, <1>7
    <2> QED  BY <1>5, <2>1
  <1>8. Followed(p)
    <2> SUFFICES ASSUME NEW k \in DOMAIN p, p[k].kind = "result"  PROVE AskedAt(p, k)
      BY DEF Followed
    <2>1. k \in DOMAIN h /\ p[k] = h[k] /\ k < a /\ k \in Int  BY <1>6
    <2>2. PICK j \in DOMAIN h : /\ j < k /\ h[j].kind = "answer" /\ h[j].of = h[k].of
                                /\ h[k].n <= h[j].n /\ Together(h, j, k)
      BY <2>1 DEF Followed, AskedAt
    <2>3. j \in DOMAIN p /\ p[j] = h[j]  BY <1>0, <1>3, <1>7, <2>1, <2>2
    <2>4. Together(p, j, k)  BY <1>6, <2>2 DEF Together
    <2> QED  BY <2>1, <2>2, <2>3, <2>4 DEF AskedAt
  <1>9. 1 \in DOMAIN p /\ 2 \in DOMAIN p /\ Len(p) >= 2  BY <1>3, <1>5
  <1>10. Shape(p)  BY <1>0, <1>6, <1>9 DEF Shape
  <1>11. Named(p, last)  BY <1>6 DEF Named
  <1> QED  BY <1>1, <1>5, <1>8, <1>10, <1>11

(* A saved history is loaded as it was.                                    *)
LEMMA LoadedIs ==
    ASSUME NEW h \in Seq(HistoryMessage), Shape(h)
    PROVE  Context!Loaded(h) = h
  <1>1. PICK t : t = Tail(h)  OBVIOUS
  <1>2. /\ t \in Seq(HistoryMessage) /\ Len(t) = Len(h) - 1 /\ Len(h) \in Nat /\ Len(h) >= 2
        /\ \A i \in 1..(Len(h) - 1) : t[i] = h[i + 1]
    BY <1>1 DEF Shape
  <1>3. PICK p : p = <<Context!MainMessage>>  OBVIOUS
  <1>4. p \in Seq(HistoryMessage) /\ Len(p) = 1 /\ p[1] = Context!MainMessage
    BY <1>3 DEF Context!MainMessage, Context!Message, HistoryMessage, Context!Kinds
  <1>5. PICK g : g = p \o t  OBVIOUS
  <1>6. /\ g \in Seq(HistoryMessage) /\ Len(g) = Len(p) + Len(t)
        /\ \A i \in 1..(Len(p) + Len(t)) : g[i] = IF i <= Len(p) THEN p[i] ELSE t[i - Len(p)]
    <2>1. p \in Seq(HistoryMessage)  BY <1>4
    <2>2. t \in Seq(HistoryMessage)  BY <1>2
    <2> QED  BY <1>5, <2>1, <2>2, ConcatProperties
  <1>7. Len(g) = Len(h)  BY <1>2, <1>4, <1>6
  <1>8. ASSUME NEW i \in 1..Len(h)  PROVE g[i] = h[i]
    <2>1. i \in Int /\ 1 <= i /\ i <= Len(h)  BY <1>2
    <2>2. CASE i = 1
      <3>1. g[1] = p[1]  BY <1>2, <1>4, <1>6
      <3> QED  BY <1>4, <2>2, <3>1 DEF Shape
    <2>3. CASE i # 1
      <3>1. i - 1 \in 1..(Len(h) - 1) /\ (i - 1) + 1 = i /\ ~(i <= 1)  BY <1>2, <2>1, <2>3
      <3>2. i \in 1..(Len(p) + Len(t))  BY <1>2, <1>4, <2>1
      <3>3. g[i] = t[i - 1]  BY <1>4, <1>6, <3>1, <3>2
      <3> QED  BY <1>2, <3>1, <3>3
    <2> QED  BY <2>2, <2>3
  <1>9. g = h  BY <1>6, <1>7, <1>8, SeqEqual
  <1>10. h[2] = Context!RuntimeState /\ Len(h) >= 2  BY DEF Shape
  <1> QED  BY <1>1, <1>3, <1>5, <1>9, <1>10 DEF Context!Loaded

----------------------------------------------------------------------------
(* The invariant of the loop: between turns anything may be without its    *)
(* result; in a turn only the calls of the last answer that are left; and  *)
(* while turns are to be kept, the running one is there, from its prompt   *)
(* on.                                                                     *)
Answered(h, k) == h[k].kind = "answer" /\ h[k].of = made.answers
LeftOf(h) ==
    {pair \in Nat \X Nat :
        /\ pair[1] = made.answers
        /\ \A k \in DOMAIN h : Answered(h, k) => h[k].n - calls < pair[2] /\ pair[2] <= h[k].n}
Owed(h) == IF at = "idle" THEN AnyOwed ELSE IF at = "call" THEN LeftOf(h) ELSE {}
Calling(h) == \E k \in DOMAIN h : Answered(h, k) /\ calls <= h[k].n /\ InLastTurn(h, k)

LoopTypes ==
    /\ history \in Seq(HistoryMessage) /\ settings \in Settings
    /\ at \in {"idle", "top", "room", "stream", "call"}
    /\ calls \in Nat /\ made \in [turns : Nat, answers : Nat]
HistoryInv ==
    /\ LoopTypes
    /\ Tidy(history, made.answers, Owed(history))
    /\ at # "idle" /\ settings.keep > 0 => Prompting(history, made.turns)
    /\ at = "call" => calls >= 1 /\ Calling(history)
    /\ at = "stream" => Len(history) <= settings.safe

LEMMA HistoryInit == Context!Init => HistoryInv
  <1> SUFFICES ASSUME Context!Init  PROVE HistoryInv  OBVIOUS
  <1>1. /\ history = Context!DefaultHistory /\ at = "idle" /\ calls = 0 /\ settings \in Settings
        /\ made = [turns |-> 0, answers |-> 0]
    BY DEF Context!Init
  <1>2. LoopTypes  BY <1>1, DefaultsLead DEF LoopTypes
  <1>3. Tidy(history, made.answers, Owed(history))  BY <1>1, DefaultsLead
  <1> QED  BY <1>1, <1>2, <1>3 DEF HistoryInv

(* A state whose history is the one before and that owes what it owed.     *)
LEMMA TidyStays ==
    ASSUME NEW h, NEW last, NEW owed, NEW more, Tidy(h, last, owed), owed \subseteq more
    PROVE  Tidy(h, last, more)
  BY DEF Tidy, Settled

(* Where nothing is called, what is owed is everything or nothing.         *)
LEMMA ElsewhereInv ==
    ASSUME LoopTypes', at' # "call",
           Shape(history') /\ Followed(history') /\ Named(history', made.answers'),
           at' # "idle" => Settled(history', {}) /\
                           (settings'.keep > 0 => Prompting(history', made.turns')),
           at' = "stream" => Len(history') <= settings'.safe
    PROVE  HistoryInv'
  <1>1. history' \in Seq(HistoryMessage)  BY DEF LoopTypes
  <1>2. PICK g : g = history'  OBVIOUS
  <1>3. Settled(g, Owed(g)')
    <2>1. CASE at' = "idle"
      <3>1. Owed(g)' = AnyOwed  BY <2>1 DEF Owed, AnyOwed
      <3> QED  BY <1>1, <1>2, <3>1, SettledAtRest
    <2>2. CASE at' # "idle"
      <3>1. Owed(g)' = {}  BY <2>2 DEF Owed
      <3> QED  BY <1>2, <2>2, <3>1
    <2> QED  BY <2>1, <2>2
  <1>4. Tidy(history, made.answers, Owed(history))'  BY <1>2, <1>3 DEF Tidy, Owed, LeftOf, Answered
  <1> QED  BY <1>4 DEF HistoryInv

(* The actions.                                                            *)
HistoryHypo == HistoryInv /\ BudgetsAreNested

LEMMA HistoryIs ==
    ASSUME HistoryHypo
    PROVE  /\ history \in Seq(HistoryMessage) /\ settings \in Settings
           /\ settings.keep \in Nat /\ settings.target \in Nat /\ settings.safe \in Nat
           /\ settings.target <= settings.safe
           /\ at \in {"idle", "top", "room", "stream", "call"} /\ calls \in Nat
           /\ made.turns \in Nat /\ made.answers \in Nat
           /\ Shape(history) /\ Followed(history) /\ Named(history, made.answers)
           /\ at \in {"top", "room", "stream"} => Settled(history, {}) /\ Tidy(history, made.answers, {})
           /\ at = "call" => Settled(history, LeftOf(history))
  <1>1. LoopTypes /\ BudgetsAreNested /\ Tidy(history, made.answers, Owed(history))
    BY DEF HistoryHypo, HistoryInv
  <1>2. at \in {"top", "room", "stream"} => Owed(history) = {}  BY DEF Owed
  <1>3. at = "call" => Owed(history) = LeftOf(history)  BY DEF Owed
  <1> QED  BY <1>1, <1>2, <1>3 DEF LoopTypes, BudgetsAreNested, Tidy

(* A step that leaves the history and what is owed alone.                  *)
LEMMA HistoryStays ==
    ASSUME HistoryInv, UNCHANGED <<history, at, calls, settings, made>>
    PROVE  HistoryInv'
  <1>1. LoopTypes'  BY DEF HistoryInv, LoopTypes
  <1>2. Tidy(history, made.answers, Owed(history))'
    <2>1. PICK h : h = history  OBVIOUS
    <2>2. LeftOf(h)' = LeftOf(h)  BY DEF LeftOf, Answered
    <2>3. Owed(h)' = Owed(h)  BY <2>2 DEF Owed, AnyOwed
    <2>4. Tidy(h, made.answers, Owed(h))  BY <2>1 DEF HistoryInv
    <2>5. Tidy(h, made'.answers, Owed(h)')  BY <2>3, <2>4
    <2>6. history' = h  BY <2>1
    <2> QED  BY <2>5, <2>6 DEF Owed, LeftOf, Answered
  <1>3. (at # "idle" /\ settings.keep > 0 => Prompting(history, made.turns))'
    BY DEF HistoryInv
  <1>4. (at = "call" => calls >= 1 /\ Calling(history))'
    BY DEF HistoryInv, Calling, Answered
  <1>5. (at = "stream" => Len(history) <= settings.safe)'  BY DEF HistoryInv
  <1> QED  BY <1>1, <1>2, <1>3, <1>4, <1>5 DEF HistoryInv

(* The turn ends, whatever it owes.                                        *)
LEMMA TurnEnds ==
    ASSUME HistoryHypo, at' = "idle", UNCHANGED <<history, calls, settings, made>>
    PROVE  HistoryInv'
  <1>1. LoopTypes'  BY HistoryIs DEF HistoryHypo, HistoryInv, LoopTypes
  <1>2. (Shape(history) /\ Followed(history) /\ Named(history, made.answers))'  BY HistoryIs
  <1> QED  BY <1>1, <1>2, ElsewhereInv

(* The turn goes on with the history it has.                               *)
LEMMA TurnGoesOn ==
    ASSUME HistoryHypo, at \in {"top", "room", "stream"}, at' \in {"top", "room", "stream"},
           UNCHANGED <<history, calls, settings, made>>,
           at' = "stream" => Len(history) <= settings.safe
    PROVE  HistoryInv'
  <1>1. LoopTypes'  BY HistoryIs DEF HistoryHypo, HistoryInv, LoopTypes
  <1>2. (Shape(history) /\ Followed(history) /\ Named(history, made.answers))'  BY HistoryIs
  <1>3. Settled(history', {})  BY HistoryIs
  <1>4. settings'.keep > 0 => Prompting(history', made'.turns)
    BY DEF HistoryHypo, HistoryInv
  <1> QED  BY <1>1, <1>2, <1>3, <1>4, ElsewhereInv

LEMMA BeginInv ==
    ASSUME HistoryHypo, NEW by, Context!Begin(by)
    PROVE  HistoryInv'
  <1>1. PICK m : m = Context!Message("user", made.turns + 1, 0)  OBVIOUS
  <1>2. m \in HistoryMessage /\ m.kind = "user" /\ m.of = made.turns + 1 /\ User(m)
    BY <1>1, HistoryIs DEF Context!Message, HistoryMessage, Context!Kinds, User
  <1>3. /\ history' = Append(history, m) /\ at' = "top" /\ calls' = 0 /\ settings' = settings
        /\ made' = [made EXCEPT !.turns = @ + 1]
    BY <1>1 DEF Context!Begin, Context!Goes
  <1>4. made' \in [turns : Nat, answers : Nat] /\ made'.turns = made.turns + 1
        /\ made'.answers = made.answers
    BY <1>3 DEF HistoryHypo, HistoryInv, LoopTypes
  <1>5. history' \in Seq(HistoryMessage)  BY <1>2, <1>3, HistoryIs
  <1>6. LoopTypes'  BY <1>3, <1>4, <1>5, HistoryIs DEF LoopTypes
  <1>7. Shape(history')  BY <1>2, <1>3, HistoryIs, ShapeGrows
  <1>8. Followed(history')  BY <1>2, <1>3, HistoryIs, HistoryFollows
  <1>9. Named(history', made'.answers)  BY <1>2, <1>3, <1>4, HistoryIs, NamesGrow
  <1>10. Settled(history', {})
    <2>1. Settled(history, AnyOwed)  BY HistoryIs, SettledAtRest
    <2> QED  BY <1>2, <1>3, <2>1, HistoryIs, SettledGrows
  <1>11. Prompting(history', made'.turns)  BY <1>2, <1>3, <1>4, HistoryIs, PromptGrows
  <1> QED  BY <1>3, <1>6, <1>7, <1>8, <1>9, <1>10, <1>11, ElsewhereInv

LEMMA InterruptedInv == HistoryHypo /\ Context!Interrupted => HistoryInv'
  <1> SUFFICES ASSUME HistoryHypo, Context!Interrupted  PROVE HistoryInv'  OBVIOUS
  <1>1. at' = "idle" /\ UNCHANGED <<calls, settings, made>>
        /\ (history' = history \/ history' = Context!Loaded(history))
    BY DEF Context!Interrupted, Context!Goes
  <1>2. Context!Loaded(history) = history  BY HistoryIs, LoadedIs
  <1> QED  BY <1>1, <1>2, TurnEnds

LEMMA TopInv == HistoryHypo /\ Context!Top => HistoryInv'
  <1> SUFFICES ASSUME HistoryHypo, Context!Top  PROVE HistoryInv'  OBVIOUS
  <1>1. at = "top" /\ (at' = "idle" \/ at' = "room") /\ UNCHANGED <<history, calls, settings, made>>
    BY DEF Context!Top, Context!Goes
  <1>2. CASE at' = "idle"  BY <1>1, <1>2, TurnEnds
  <1>3. CASE at' = "room"  BY <1>1, <1>3, TurnGoesOn
  <1> QED  BY <1>1, <1>2, <1>3

LEMMA StreamFailsInv == HistoryHypo /\ Context!StreamFails => HistoryInv'
  <1> SUFFICES ASSUME HistoryHypo, Context!StreamFails  PROVE HistoryInv'  OBVIOUS
  <1>1. at = "stream" /\ (at' = "idle" \/ at' = "room")
        /\ UNCHANGED <<history, calls, settings, made>>
    BY DEF Context!StreamFails, Context!Goes
  <1>2. CASE at' = "idle"  BY <1>1, <1>2, TurnEnds
  <1>3. CASE at' = "room"  BY <1>1, <1>3, TurnGoesOn
  <1> QED  BY <1>1, <1>2, <1>3

(* What is sent fits, and the running turn is sent from its prompt on.     *)
LEMMA MakeRoomInv == HistoryHypo /\ Context!MakeRoom => HistoryInv'
  <1> SUFFICES ASSUME HistoryHypo, Context!MakeRoom  PROVE HistoryInv'  OBVIOUS
  <1>1. at = "room" /\ UNCHANGED <<calls, settings, made>>  BY DEF Context!MakeRoom
  <1>2. \/ at' = "stream" /\ history' = history /\ (~Context!Needed \/ Len(history) <= settings.safe)
        \/ at' = "idle" /\ history' = history
        \/ \E h \in {history, Context!WithSummary(history, Context!Retained(history))} :
              /\ h = history \/ Context!Compressible(history)
              /\ history' = IF Len(h) > settings.target THEN Context!Trimmed(h, settings.target) ELSE h
              /\ at' = IF Len(history') <= settings.target THEN "stream" ELSE "idle"
    BY DEF Context!MakeRoom, Context!Goes
  <1>3. CASE at' = "stream" /\ history' = history /\ (~Context!Needed \/ Len(history) <= settings.safe)
    <2>1. Len(history) \in Nat /\ settings.safe \in Nat  BY HistoryIs
    <2>2. Len(history) <= settings.safe  BY <1>3, <2>1 DEF Context!Needed
    <2> QED  BY <1>1, <1>3, <2>2, TurnGoesOn
  <1>4. CASE at' = "idle" /\ history' = history  BY <1>1, <1>4, TurnEnds
  <1>5. ASSUME NEW h, h = history \/ (Context!Compressible(history) /\ h = Context!WithSummary(history, Context!Retained(history))),
               history' = IF Len(h) > settings.target THEN Context!Trimmed(h, settings.target) ELSE h,
               at' = IF Len(history') <= settings.target THEN "stream" ELSE "idle"
        PROVE  HistoryInv'
    <2>0. /\ history \in Seq(HistoryMessage) /\ Tidy(history, made.answers, {})
          /\ settings.keep \in Nat
      BY <1>1, HistoryIs
    <2>1. /\ h \in Seq(HistoryMessage) /\ Tidy(h, made.answers, {})
          /\ settings.keep > 0 => \A now : Prompting(history, now) => Prompting(h, now)
      <3>1. CASE h = history  BY <2>0, <3>1
      <3>2. CASE Context!Compressible(history) /\ h = Context!WithSummary(history, Context!Retained(history))
        BY <2>0, <3>2, SummaryIs
      <3> QED  BY <1>5, <3>1, <3>2
    <2>2. PICK g : g = history'  OBVIOUS
    <2>3. /\ g \in Seq(HistoryMessage) /\ Tidy(g, made.answers, {})
          /\ settings.keep > 0 => \A now : Prompting(history, now) => Prompting(g, now)
      <3>1. CASE g = h  BY <2>1, <3>1
      <3>2. CASE g = Context!Trimmed(h, settings.target)
        <4>1. /\ g \in Seq(HistoryMessage) /\ Tidy(g, made.answers, {})
              /\ \A now : Prompting(h, now) => Prompting(g, now)
          BY <2>1, <3>2, TrimmedIs
        <4> QED  BY <2>1, <4>1
      <3> QED  BY <1>5, <2>2, <3>1, <3>2
    <2>4. LoopTypes'
      <3>1. at' \in {"idle", "top", "room", "stream", "call"}  BY <1>5
      <3> QED  BY <1>1, <2>2, <2>3, <3>1, HistoryIs DEF HistoryHypo, HistoryInv, LoopTypes
    <2>5. settings.keep > 0 => Prompting(g, made.turns)
      BY <1>1, <2>3 DEF HistoryHypo, HistoryInv
    <2>6. at' = "stream" => Len(g) <= settings.safe
      <3>1. Len(g) \in Nat  BY <2>3
      <3>2. settings.target \in Nat /\ settings.safe \in Nat /\ settings.target <= settings.safe
        BY HistoryIs
      <3>3. at' = "stream" => Len(g) <= settings.target  BY <1>5, <2>2
      <3> QED  BY <3>1, <3>2, <3>3
    <2>7. Shape(g) /\ Followed(g) /\ Named(g, made.answers) /\ Settled(g, {})
      BY <2>3 DEF Tidy
    <2> QED  BY <1>1, <1>5, <2>2, <2>4, <2>5, <2>6, <2>7, ElsewhereInv
  <1> QED  BY <1>2, <1>3, <1>4, <1>5

(* An answer of the model, with the calls it asks for.                     *)
LEMMA AnswerIs ==
    ASSUME HistoryHypo, NEW n \in Nat,
           history' = Append(history, Context!Answer(n)), made' = [made EXCEPT !.answers = @ + 1]
    PROVE  /\ history' \in Seq(HistoryMessage) /\ made' \in [turns : Nat, answers : Nat]
           /\ made'.turns = made.turns /\ made'.answers = made.answers + 1
           /\ Shape(history') /\ Followed(history') /\ Named(history', made'.answers)
           /\ Context!Answer(n) \in HistoryMessage /\ Context!Answer(n).kind = "answer"
           /\ Context!Answer(n).of = made'.answers /\ Context!Answer(n).n = n
  <1>1. PICK m : m = Context!Answer(n)  OBVIOUS
  <1>2. /\ m \in HistoryMessage /\ m.kind = "answer" /\ m.of = made.answers + 1 /\ m.n = n
    BY <1>1, HistoryIs DEF Context!Answer, Context!Message, HistoryMessage, Context!Kinds
  <1>3. made' \in [turns : Nat, answers : Nat] /\ made'.turns = made.turns
        /\ made'.answers = made.answers + 1 /\ made'.answers \in Nat /\ made.answers < made'.answers
        /\ made.answers \in Nat /\ made.answers <= made'.answers
    BY DEF HistoryHypo, HistoryInv, LoopTypes
  <1>4. history' = Append(history, m)  BY <1>1
  <1>5. history' \in Seq(HistoryMessage)  BY <1>2, <1>4, HistoryIs
  <1>6. Shape(history')  BY <1>2, <1>4, HistoryIs, ShapeGrows
  <1>7. Followed(history')  BY <1>2, <1>4, HistoryIs, HistoryFollows
  <1>8. Named(history', made'.answers)  BY <1>2, <1>3, <1>4, HistoryIs, NamesGrow
  <1> QED  BY <1>1, <1>2, <1>3, <1>5, <1>6, <1>7, <1>8

LEMMA StreamStoppedInv == HistoryHypo /\ Context!StreamStopped => HistoryInv'
  <1> SUFFICES ASSUME HistoryHypo, Context!StreamStopped  PROVE HistoryInv'  OBVIOUS
  <1>1. at' = "idle" /\ UNCHANGED <<calls, settings>>  BY DEF Context!StreamStopped, Context!Goes
  <1>2. CASE UNCHANGED <<history, made>>  BY <1>1, <1>2, TurnEnds
  <1>3. CASE Context!Appends(Context!Answer(0)) /\ made' = [made EXCEPT !.answers = @ + 1]
    <2>1. history' = Append(history, Context!Answer(0)) /\ made' = [made EXCEPT !.answers = @ + 1]
      BY <1>3 DEF Context!Appends
    <2>2. /\ history' \in Seq(HistoryMessage) /\ made' \in [turns : Nat, answers : Nat]
          /\ Shape(history') /\ Followed(history') /\ Named(history', made'.answers)
      BY <2>1, AnswerIs
    <2>3. LoopTypes'  BY <1>1, <2>2, HistoryIs DEF LoopTypes
    <2> QED  BY <1>1, <2>2, <2>3, ElsewhereInv
  <1> QED  BY <1>2, <1>3 DEF Context!StreamStopped

LEMMA StreamCompletesInv ==
    ASSUME HistoryHypo, Context!StreamCompletes, MaxCalls \in Nat
    PROVE  HistoryInv'
  <1>1. PICK n \in 0..MaxCalls : /\ history' = Append(history, Context!Answer(n)) /\ calls' = n
                                 /\ at' = IF n = 0 THEN "idle" ELSE "call"
    BY DEF Context!StreamCompletes, Context!Appends, Context!Goes
  <1>2. at = "stream" /\ settings' = settings /\ made' = [made EXCEPT !.answers = @ + 1]
    BY DEF Context!StreamCompletes
  <1>3. n \in Nat  BY <1>1
  <1>4. /\ history' \in Seq(HistoryMessage) /\ made' \in [turns : Nat, answers : Nat]
        /\ made'.turns = made.turns /\ made'.answers = made.answers + 1
        /\ Shape(history') /\ Followed(history') /\ Named(history', made'.answers)
    BY <1>1, <1>2, <1>3, AnswerIs
  <1>5. PICK m : m = Context!Answer(n)  OBVIOUS
  <1>6. m \in HistoryMessage /\ m.kind = "answer" /\ m.of = made'.answers /\ m.n = n /\ ~User(m)
    BY <1>1, <1>2, <1>3, <1>5, AnswerIs DEF User
  <1>7. LoopTypes'  BY <1>1, <1>2, <1>3, <1>4, HistoryIs DEF LoopTypes
  <1>8. CASE n = 0  BY <1>1, <1>4, <1>7, <1>8, ElsewhereInv
  <1>9. CASE n # 0
    <2>0. at' = "call" /\ n >= 1  BY <1>1, <1>3, <1>9
    <2>1. PICK g : g = history'  OBVIOUS
    <2>2. PICK e : e = Len(history) + 1  OBVIOUS
    <2>3. e \in DOMAIN g /\ g[e] = m /\ InLastTurn(g, e)
      BY <1>1, <1>5, <1>6, <2>1, <2>2, HistoryIs, HistoryGrows
    <2>4. \A k \in DOMAIN g : (g[k].kind = "answer" /\ g[k].of = made'.answers) => g[k].n = n
      BY <1>4, <1>6, <2>1, <2>3 DEF Named
    <2>5. ASSUME NEW i \in 1..n  PROVE <<made'.answers, i>> \in LeftOf(g)'
      <3>1. i \in Nat /\ n - n < i /\ i <= n  BY <1>3
      <3>2. made'.answers \in Nat  BY <1>4
      <3>3. \A k \in DOMAIN g : (g[k].kind = "answer" /\ g[k].of = made'.answers) =>
               g[k].n - calls' < i /\ i <= g[k].n
        BY <1>1, <2>4, <3>1
      <3> QED  BY <3>1, <3>2, <3>3 DEF LeftOf, Answered
    <2>6. Settled(g, LeftOf(g)')
      <3>1. Settled(history, {})  BY <1>2, HistoryIs
      <3>2. \A i \in 1..m.n : <<m.of, i>> \in LeftOf(g)'  BY <1>6, <2>5
      <3>3. PICK next : next = LeftOf(g)'  OBVIOUS
      <3>4. Settled(Append(history, m), next)  BY <1>6, <3>1, <3>2, <3>3, HistoryIs, SettledGrows
      <3> QED  BY <1>1, <1>5, <2>1, <3>3, <3>4
    <2>7. Tidy(g, made'.answers, LeftOf(g)')  BY <1>4, <2>1, <2>6 DEF Tidy
    <2>8. Owed(g)' = LeftOf(g)'  BY <2>0 DEF Owed
    <2>9. Tidy(history, made.answers, Owed(history))'
      BY <2>1, <2>7, <2>8 DEF Owed, LeftOf, Answered
    <2>10. settings.keep > 0 => Prompting(g, made'.turns)
      <3>1. settings.keep > 0 => Prompting(history, made.turns)
        BY <1>2 DEF HistoryHypo, HistoryInv
      <3> QED  BY <1>1, <1>4, <1>5, <1>6, <2>1, <3>1, HistoryIs, PromptGrows
    <2>11. Calling(history)'
      <3>1. calls' <= g[e].n  BY <1>1, <1>3, <1>6, <2>3
      <3> QED  BY <1>6, <2>1, <2>3, <3>1 DEF Calling, Answered
    <2> QED  BY <1>1, <1>2, <1>7, <2>0, <2>1, <2>9, <2>10, <2>11 DEF HistoryInv
  <1> QED  BY <1>8, <1>9

(* The result of the next call: there is such a call, in the last answer.  *)
LEMMA HandleCallInv == HistoryHypo /\ Context!HandleCall => HistoryInv'
  <1> SUFFICES ASSUME HistoryHypo, Context!HandleCall  PROVE HistoryInv'  OBVIOUS
  <1>0. at = "call" /\ UNCHANGED <<settings, made>> /\ calls' = calls - 1
        /\ at' = IF stopped THEN "idle" ELSE IF calls > 1 THEN "call" ELSE "top"
    BY DEF Context!HandleCall, Context!Goes
  <1>1. /\ history \in Seq(HistoryMessage) /\ calls \in Nat /\ calls >= 1
        /\ made.answers \in Nat
    BY <1>0, HistoryIs DEF HistoryHypo, HistoryInv
  <1>2. PICK a \in DOMAIN history : Answered(history, a) /\ calls <= history[a].n
                                    /\ InLastTurn(history, a)
    BY <1>0 DEF HistoryHypo, HistoryInv, Calling
  <1>3. PICK total : total = history[a].n  OBVIOUS
  <1>4. total \in Nat /\ calls <= total
    <2>1. history[a] \in HistoryMessage  BY <1>1
    <2>2. history[a].n \in Nat  BY <2>1 DEF HistoryMessage
    <2> QED  BY <1>2, <1>3, <2>2
  <1>5. \A i \in DOMAIN history : Answered(history, i) => history[i].n = total
    BY <1>2, <1>3, HistoryIs DEF Named, Answered
  <1>6. PICK m : m = Context!Message("result", made.answers, total - calls + 1)  OBVIOUS
  <1>7. history' = Append(history, m)
    <2>1. PICK asked : asked = CHOOSE i \in DOMAIN history :
                          history[i].kind = "answer" /\ history[i].of = made.answers
      OBVIOUS
    <2>2. asked \in DOMAIN history /\ history[asked].kind = "answer"
          /\ history[asked].of = made.answers
      BY <1>2, <2>1 DEF Answered
    <2>3. history[asked].n = total  BY <1>5, <2>2 DEF Answered
    <2>4. history' = Append(history, Context!Message("result", history[asked].of, history[asked].n - calls + 1))
      BY <2>1 DEF Context!HandleCall, Context!Appends
    <2> QED  BY <1>6, <2>2, <2>3, <2>4
  <1>8. total - calls + 1 \in Nat /\ total - calls + 1 <= total  BY <1>1, <1>4
  <1>9. /\ m \in HistoryMessage /\ m.kind = "result" /\ m.of = made.answers
        /\ m.n = total - calls + 1 /\ ~User(m)
    BY <1>1, <1>6, <1>8 DEF Context!Message, HistoryMessage, Context!Kinds, User
  <1>10. PICK g : g = history'  OBVIOUS
  <1>11. g \in Seq(HistoryMessage) /\ g = Append(history, m)  BY <1>1, <1>7, <1>9, <1>10
  <1>12. Shape(g)  BY <1>9, <1>11, HistoryIs, ShapeGrows
  <1>13. Followed(g)
    <2>1. history[a].kind = "answer" /\ history[a].of = m.of /\ m.n <= history[a].n
      BY <1>2, <1>3, <1>8, <1>9 DEF Answered
    <2> QED  BY <1>2, <1>9, <1>11, <2>1, HistoryIs, HistoryFollows
  <1>14. Named(g, made.answers)  BY <1>1, <1>9, <1>11, HistoryIs, NamesGrow
  <1>15. calls' \in Nat  BY <1>0, <1>1
  <1>16. LoopTypes'  BY <1>0, <1>10, <1>11, <1>15, HistoryIs DEF HistoryHypo, HistoryInv, LoopTypes
  <1>17. settings.keep > 0 => Prompting(g, made.turns)
    <2>1. settings.keep > 0 => Prompting(history, made.turns)
      BY <1>0 DEF HistoryHypo, HistoryInv
    <2> QED  BY <1>9, <1>11, <2>1, HistoryIs, PromptGrows
  <1>18. Settled(history, LeftOf(history))  BY <1>0, HistoryIs
  <1>19. ASSUME NEW of \in Nat, NEW n \in Nat, <<of, n>> \in LeftOf(history)
         PROVE  of = made.answers /\ total - calls < n /\ n <= total
    <2>1. of = made.answers
      BY <1>19 DEF LeftOf
    <2>2. history[a].n - calls < n /\ n <= history[a].n  BY <1>2, <1>19 DEF LeftOf
    <2> QED  BY <1>3, <2>1, <2>2
  <1>20. CASE at' = "idle"  BY <1>0, <1>10, <1>12, <1>13, <1>14, <1>16, <1>20, ElsewhereInv
  <1>21. CASE at' = "top"
    <2>1. calls = 1  BY <1>0, <1>1, <1>21
    <2>2. ASSUME NEW of \in Nat, NEW n \in Nat, <<of, n>> \in LeftOf(history)
          PROVE  m = Context!Message("result", of, n)
      <3>1. of = made.answers /\ total - calls < n /\ n <= total  BY <1>19, <2>2
      <3>2. n = total - calls + 1  BY <1>4, <2>1, <3>1
      <3> QED  BY <1>6, <3>1, <3>2
    <2>3. Settled(g, {})  BY <1>9, <1>11, <1>18, <2>2, HistoryIs, SettledGrows
    <2> QED  BY <1>0, <1>10, <1>12, <1>13, <1>14, <1>16, <1>17, <1>21, <2>3, ElsewhereInv
  <1>22. CASE at' = "call"
    <2>0. calls' >= 1  BY <1>0, <1>1, <1>22
    <2>1. \A i \in DOMAIN g : (g[i].kind = "answer" /\ g[i].of = made'.answers) =>
             g[i].n = total
      <3> SUFFICES ASSUME NEW i \in DOMAIN g, g[i].kind = "answer", g[i].of = made'.answers
                   PROVE  g[i].n = total
        OBVIOUS
      <3>1. /\ DOMAIN g = (DOMAIN history) \cup {Len(history) + 1} /\ g[Len(history) + 1] = m
            /\ \A k \in DOMAIN history : g[k] = history[k]
        BY <1>1, <1>9, <1>11, HistoryGrows
      <3>2. i # Len(history) + 1  BY <1>9, <3>1
      <3>3. i \in DOMAIN history /\ g[i] = history[i]  BY <3>1, <3>2
      <3> QED  BY <1>0, <1>5, <3>3 DEF Answered
    <2>2. ASSUME NEW of \in Nat, NEW n \in Nat, <<of, n>> \in LeftOf(history)
          PROVE  <<of, n>> \in LeftOf(g)' \/ m = Context!Message("result", of, n)
      <3>1. of = made.answers /\ total - calls < n /\ n <= total  BY <1>19, <2>2
      <3>2. CASE n = total - calls + 1  BY <1>6, <3>1, <3>2
      <3>3. CASE n # total - calls + 1
        <4>1. total - calls' < n  BY <1>0, <1>1, <1>4, <3>1, <3>3
        <4>2. \A i \in DOMAIN g : (g[i].kind = "answer" /\ g[i].of = made'.answers) =>
                 g[i].n - calls' < n /\ n <= g[i].n
          BY <2>1, <3>1, <4>1
        <4> QED  BY <1>0, <3>1, <4>2 DEF LeftOf, Answered
      <3> QED  BY <3>2, <3>3
    <2>3. Settled(g, LeftOf(g)')
      <3>1. PICK next : next = LeftOf(g)'  OBVIOUS
      <3>2. \A of, n \in Nat : <<of, n>> \in LeftOf(history) =>
               <<of, n>> \in next \/ m = Context!Message("result", of, n)
        BY <2>2, <3>1
      <3>3. Settled(g, next)  BY <1>9, <1>11, <1>18, <3>2, HistoryIs, SettledGrows
      <3> QED  BY <3>1, <3>3
    <2>4. Tidy(g, made'.answers, LeftOf(g)')  BY <1>0, <1>12, <1>13, <1>14, <2>3 DEF Tidy
    <2>5. Owed(g)' = LeftOf(g)'  BY <1>22 DEF Owed
    <2>6. Tidy(history, made.answers, Owed(history))'
      BY <1>10, <2>4, <2>5 DEF Owed, LeftOf, Answered
    <2>7. Calling(history)'
      <3>1. a \in DOMAIN g /\ g[a] = history[a] /\ InLastTurn(g, a)
        BY <1>1, <1>2, <1>9, <1>11, HistoryGrows
      <3>2. calls' <= total  BY <1>0, <1>1, <1>4
      <3> QED  BY <1>0, <1>2, <1>3, <1>10, <3>1, <3>2 DEF Calling, Answered
    <2> QED  BY <1>0, <1>10, <1>16, <1>17, <1>22, <2>0, <2>6, <2>7 DEF HistoryInv
  <1> QED  BY <1>0, <1>20, <1>21, <1>22

LEMMA LeavesCallsInv == HistoryHypo /\ Context!LeavesCalls => HistoryInv'
  <1> SUFFICES ASSUME HistoryHypo, Context!LeavesCalls  PROVE HistoryInv'  OBVIOUS
  <1> QED  BY TurnEnds DEF Context!LeavesCalls, Context!Goes

(* The commands between turns leave a history that leads somewhere.        *)
LEMMA CommandsInv == HistoryHypo /\ (Context!Compress \/ Context!Undo \/ Context!ClearHistory) => HistoryInv'
  <1> SUFFICES ASSUME HistoryHypo, Context!Compress \/ Context!Undo \/ Context!ClearHistory  PROVE HistoryInv'  OBVIOUS
  <1>1. at' = "idle" /\ UNCHANGED <<calls, settings, made>>
    BY DEF Context!Compress, Context!Undo, Context!ClearHistory
  <1>2. /\ history' \in Seq(HistoryMessage) /\ Shape(history') /\ Followed(history')
        /\ Named(history', made.answers)
    <2>1. CASE Context!Compress
      <3>1. /\ Context!Compressible(history) /\ history' = Context!WithSummary(history, Context!Retained(history))
            /\ settings.keep \in Nat /\ history \in Seq(HistoryMessage)
        BY <2>1, HistoryIs DEF Context!Compress
      <3>2. Tidy(history, made.answers, AnyOwed)  BY <3>1, HistoryIs, SettledAtRest DEF Tidy
      <3>3. history' \in Seq(HistoryMessage) /\ Tidy(history', made.answers, AnyOwed)
        BY <3>1, <3>2, SummaryIs
      <3> QED  BY <3>3 DEF Tidy
    <2>2. CASE Context!Undo
      <3>1. Context!TurnStarts(history) # {} /\ history' = SubSeq(history, 1, Context!LastStart(history) - 1)
        BY <2>2 DEF Context!Undo
      <3>2. Context!LastStart(history) \in Context!TurnStarts(history)  BY <3>1, HistoryIs, TurnsAre
      <3> QED  BY <3>1, <3>2, HistoryIs, TurnUndone
    <2>3. CASE Context!ClearHistory
      <3>1. history' = Context!DefaultHistory  BY <2>3 DEF Context!ClearHistory
      <3>2. Context!DefaultHistory \in Seq(HistoryMessage) /\ Tidy(Context!DefaultHistory, made.answers, {})
        BY DefaultsLead
      <3> QED  BY <3>1, <3>2 DEF Tidy
    <2> QED  BY <2>1, <2>2, <2>3
  <1>3. LoopTypes'  BY <1>1, <1>2, HistoryIs DEF HistoryHypo, HistoryInv, LoopTypes
  <1> QED  BY <1>1, <1>2, <1>3, ElsewhereInv

LEMMA HistoryNext ==
    ASSUME HistoryHypo, MaxCalls \in Nat, [Context!Next]_(Context!contextVars)
    PROVE  HistoryInv'
  <1>1. CASE UNCHANGED Context!contextVars  BY <1>1, HistoryStays DEF Context!contextVars, HistoryHypo
  <1>2. CASE Context!StopTurn  BY <1>2, HistoryStays DEF Context!StopTurn, HistoryHypo
  <1>3. ASSUME NEW by, Context!Begin(by)  PROVE HistoryInv'  BY <1>3, BeginInv
  <1>4. CASE Context!Interrupted \/ Context!Top \/ Context!MakeRoom  BY <1>4, InterruptedInv, TopInv, MakeRoomInv
  <1>5. CASE Context!StreamStopped \/ Context!StreamFails \/ Context!StreamCompletes
    BY <1>5, StreamStoppedInv, StreamFailsInv, StreamCompletesInv
  <1>6. CASE Context!HandleCall \/ Context!LeavesCalls  BY <1>6, HandleCallInv, LeavesCallsInv
  <1>7. CASE Context!Compress \/ Context!Undo \/ Context!ClearHistory  BY <1>7, CommandsInv
  <1> QED  BY <1>1, <1>2, <1>3, <1>4, <1>5, <1>6, <1>7 DEF Context!Next

----------------------------------------------------------------------------
(* Such a history has nothing wrong, nor has what is sent of it.           *)
LEMMA TidyIsValid ==
    ASSUME NEW h \in Seq(HistoryMessage), NEW last, NEW owed, Tidy(h, last, owed)
    PROVE  Context!Violations(h) = {}
  <1> SUFFICES ASSUME NEW i \in Context!Violations(h)  PROVE FALSE  OBVIOUS
  <1>1. i \in DOMAIN h /\ DOMAIN h = 1..Len(h) /\ Len(h) \in Nat  BY DEF Context!Violations
  <1>2. i \in Int /\ 1 <= i  BY <1>1
  <1>3. ~(i = 1 /\ h[i] # Context!MainMessage)  BY DEF Tidy, Shape
  <1>4. ~(h[i] = Context!RuntimeState /\ i # 2)
    <2>1. Context!RuntimeState.kind = "runtime" /\ Context!MainMessage.kind = "main"
      BY DEF Context!RuntimeState, Context!MainMessage, Context!Message
    <2>2. i > 2 => h[i].kind # "runtime"  BY <1>1 DEF Tidy, Shape, LaterKinds
    <2>3. i = 1 => h[i].kind = "main"  BY <2>1 DEF Tidy, Shape
    <2>4. i = 1 \/ i = 2 \/ i > 2  BY <1>2
    <2> QED  BY <2>1, <2>2, <2>3, <2>4
  <1>5. ~(Context!IsSystem(h[i]) /\ i > Len(Context!Prefix(h)))
    <2>1. Context!IsSystem(h[i]) => i <= Len(Context!Prefix(h))  BY <1>1, PrefixLeads DEF Context!IsSystem
    <2>2. CASE Context!TurnStarts(h) = {}
      <3>1. Context!Prefix(h) = h  BY <2>2, PrefixLeads
      <3> QED  BY <1>1, <1>2, <3>1
    <2>3. CASE Context!TurnStarts(h) # {}
      <3>1. Context!Prefix(h) \in Seq(HistoryMessage)  BY <2>3, PrefixLeads
      <3>2. Len(Context!Prefix(h)) \in Nat  BY <3>1
      <3> QED  BY <1>2, <2>1, <3>2
    <2> QED  BY <2>2, <2>3
  <1>6. ~(h[i].kind = "result" /\ ~Context!Asked(h, i))
    <2> SUFFICES ASSUME h[i].kind = "result"  PROVE Context!Asked(h, i)  OBVIOUS
    <2>1. PICK j \in DOMAIN h : /\ j < i /\ h[j].kind = "answer" /\ h[j].of = h[i].of
                                /\ h[i].n <= h[j].n
      BY <1>1 DEF Tidy, Followed, AskedAt
    <2>2. j \in 1..(i - 1)  BY <1>1, <1>2, <2>1
    <2> QED  BY <2>1, <2>2 DEF Context!Asked
  <1> QED  BY <1>3, <1>4, <1>5, <1>6 DEF Context!Violations

LEMMA PackedIsValid ==
    ASSUME NEW h \in Seq(HistoryMessage), NEW last, NEW owed, Tidy(h, last, owed)
    PROVE  Context!Violations(Context!Packed(h)) = {}
  <1>1. PICK P : P = {i \in DOMAIN h : ~Context!IsSystem(h[i])}  OBVIOUS
  <1>2. PICK q : q = Picked(h, P)  OBVIOUS
  <1>3. PICK c : c = Cardinality(P)  OBVIOUS
  <1>4. /\ q \in Seq(HistoryMessage) /\ Len(q) = c /\ c \in Nat
        /\ \A k \in 1..c : Nth(P, k) \in P /\ q[k] = h[Nth(P, k)]
        /\ \A i \in P : Rank(P, i) \in 1..c /\ q[Rank(P, i)] = h[i]
        /\ \A i, j \in P : i < j => Rank(P, i) < Rank(P, j)
    <2>1. P \in SUBSET (DOMAIN h)  BY <1>1
    <2> QED  BY <1>2, <1>3, <2>1, PickedIs
  <1>5. PICK p : p = <<Context!MainMessage>>  OBVIOUS
  <1>6. p \in Seq(HistoryMessage) /\ Len(p) = 1 /\ p[1] = Context!MainMessage
    BY <1>5 DEF Context!MainMessage, Context!Message, HistoryMessage, Context!Kinds
  <1>7. PICK g : g = p \o q  OBVIOUS
  <1>8. /\ g \in Seq(HistoryMessage) /\ Len(g) = c + 1 /\ DOMAIN g = 1..(c + 1)
        /\ g[1] = Context!MainMessage /\ \A k \in 1..c : k + 1 \in DOMAIN g /\ g[k + 1] = q[k]
    <2>0. p \in Seq(HistoryMessage)  BY <1>6
    <2>1. q \in Seq(HistoryMessage)  BY <1>4
    <2>2. /\ g \in Seq(HistoryMessage) /\ Len(g) = Len(p) + Len(q)
          /\ \A i \in 1..(Len(p) + Len(q)) : g[i] = IF i <= Len(p) THEN p[i] ELSE q[i - Len(p)]
      BY <1>7, <2>0, <2>1, ConcatProperties
    <2>3. /\ Len(g) = c + 1 /\ DOMAIN g = 1..(c + 1)
          /\ \A i \in 1..(c + 1) : g[i] = IF i <= 1 THEN p[i] ELSE q[i - 1]
      BY <1>4, <1>6, <2>2
    <2>4. g[1] = Context!MainMessage  BY <1>4, <1>6, <2>3
    <2>5. ASSUME NEW k \in 1..c  PROVE k + 1 \in DOMAIN g /\ g[k + 1] = q[k]
      <3>1. k + 1 \in 1..(c + 1) /\ ~(k + 1 <= 1) /\ (k + 1) - 1 = k  BY <1>4
      <3> QED  BY <2>3, <3>1
    <2> QED  BY <2>2, <2>3, <2>4, <2>5
  <1>9. ASSUME NEW i \in DOMAIN g, i # 1
        PROVE  \E j \in P : i = Rank(P, j) + 1 /\ g[i] = h[j] /\ ~Context!IsSystem(g[i])
    <2>1. PICK k \in 1..c : i = k + 1
      <3>1. i - 1 \in 1..c /\ i = (i - 1) + 1  BY <1>4, <1>8, <1>9
      <3> QED  BY <3>1
    <2>2. g[i] = h[Nth(P, k)] /\ Nth(P, k) \in P  BY <1>4, <1>8, <2>1
    <2>3. Rank(P, Nth(P, k)) = k
      <3>1. P \in SUBSET (1..Len(h)) /\ Len(h) \in Nat  BY <1>1
      <3>2. P \in SUBSET Int /\ IsFiniteSet(P)  BY <3>1, PositionsAre
      <3> QED  BY <1>3, <3>2, NthIs
    <2>4. ~Context!IsSystem(h[Nth(P, k)])  BY <1>1, <2>2
    <2> QED  BY <2>1, <2>2, <2>3, <2>4
  <1> SUFFICES ASSUME NEW i \in Context!Violations(g)  PROVE FALSE
    BY <1>1, <1>2, <1>5, <1>7, HistoryReads
  <1>10. i \in DOMAIN g  BY DEF Context!Violations
  <1>11. Len(Context!Prefix(g)) \in Nat /\ Len(Context!Prefix(g)) >= 1
    <2>1. CASE Context!TurnStarts(g) = {}  BY <1>4, <1>8, <2>1 DEF Context!Prefix
    <2>2. CASE Context!TurnStarts(g) # {}
      <3>1. PICK a : a = Nth(Context!TurnStarts(g), 1)  OBVIOUS
      <3>2. a \in Context!TurnStarts(g)  BY <1>8, <2>2, <3>1, TurnsAre
      <3>3. a \in DOMAIN g /\ a # 1
        BY <1>8, <3>2 DEF Context!TurnStarts, Context!MainMessage, Context!Message
      <3>4. a \in Int /\ 1 <= a - 1 /\ a - 1 <= Len(g) /\ Len(g) \in Nat  BY <1>4, <1>8, <3>3
      <3>5. \A k \in 1..(a - 1) : g[k] \in HistoryMessage  BY <1>8, <3>4
      <3>6. Len(SubSeq(g, 1, a - 1)) = (a - 1) - 1 + 1  BY <3>4, <3>5, SubSeqProperties
      <3>7. Context!Prefix(g) = SubSeq(g, 1, a - 1)  BY <2>2, <3>1, HistoryReads
      <3>8. (a - 1) - 1 + 1 = a - 1 /\ a - 1 \in Nat  BY <3>4
      <3> QED  BY <3>4, <3>6, <3>7, <3>8
    <2> QED  BY <2>1, <2>2
  <1>12. CASE i = 1
    <2>1. Context!MainMessage.kind = "main" /\ Context!RuntimeState.kind = "runtime"
      BY DEF Context!MainMessage, Context!RuntimeState, Context!Message
    <2> QED  BY <1>8, <1>11, <1>12, <2>1 DEF Context!Violations
  <1>13. CASE i # 1
    <2>1. PICK j \in P : i = Rank(P, j) + 1 /\ g[i] = h[j] /\ ~Context!IsSystem(g[i])
      BY <1>9, <1>10, <1>13
    <2>2. g[i] # Context!RuntimeState  BY <2>1 DEF Context!IsSystem, Context!RuntimeState, Context!Message
    <2>3. g[i].kind = "result" /\ ~Context!Asked(g, i)  BY <1>13, <2>1, <2>2 DEF Context!Violations
    <2>4. j \in DOMAIN h /\ h[j].kind = "result"  BY <1>1, <2>1, <2>3
    <2>5. PICK k \in DOMAIN h : /\ k < j /\ h[k].kind = "answer" /\ h[k].of = h[j].of
                                /\ h[j].n <= h[k].n
      BY <2>4 DEF Tidy, Followed, AskedAt
    <2>6. k \in P  BY <1>1, <2>5 DEF Context!IsSystem
    <2>7. /\ Rank(P, k) < Rank(P, j) /\ Rank(P, k) \in 1..c /\ Rank(P, j) \in 1..c
          /\ q[Rank(P, k)] = h[k]
      BY <1>4, <2>1, <2>5, <2>6
    <2>8. g[Rank(P, k) + 1] = h[k]  BY <1>8, <2>7
    <2>9. Rank(P, k) + 1 \in 1..(i - 1)  BY SMTT(30), <1>4, <2>1, <2>7
    <2> QED  BY <2>1, <2>3, <2>5, <2>8, <2>9 DEF Context!Asked
  <1> QED  BY <1>12, <1>13

LEMMA RunningTurnIsWhole ==
    ASSUME NEW h \in Seq(HistoryMessage), Settled(h, {}), NEW now, Prompting(h, now)
    PROVE  /\ Context!TurnStarts(h) # {} /\ h[Context!LastStart(h)].of = now
           /\ \A i \in Context!Unanswered(h) : i < Context!LastStart(h)
  <1>0. DOMAIN h = 1..Len(h) /\ Len(h) \in Nat  OBVIOUS
  <1>1. PICK k \in DOMAIN h : User(h[k]) /\ h[k].of = now /\ InLastTurn(h, k)  BY DEF Prompting
  <1>2. k \in Context!TurnStarts(h)  BY <1>1 DEF Context!TurnStarts, User
  <1>3. PICK e : e = Context!LastStart(h)  OBVIOUS
  <1>4. e \in Context!TurnStarts(h) /\ \A i \in Context!TurnStarts(h) : i <= e  BY <1>2, <1>3, TurnsAre
  <1>5. e \in DOMAIN h /\ User(h[e])  BY <1>4 DEF Context!TurnStarts, User
  <1>6. e \in Int /\ k \in Int /\ k <= e /\ ~(k < e)
    BY <1>0, <1>1, <1>2, <1>4, <1>5 DEF InLastTurn
  <1>7. e = k  BY <1>6
  <1>8. ASSUME NEW i \in Context!Unanswered(h)  PROVE i < e
    <2> SUFFICES ASSUME ~(i < e)  PROVE FALSE  OBVIOUS
    <2>1. i \in DOMAIN h /\ h[i].kind = "answer"  BY DEF Context!Unanswered
    <2>2. PICK n \in 1..h[i].n : \A j \in DOMAIN h : h[j] # Context!Message("result", h[i].of, n)
      BY DEF Context!Unanswered
    <2>3. InLastTurn(h, i)
      <3> SUFFICES ASSUME NEW j \in DOMAIN h, i < j  PROVE ~User(h[j])  BY DEF InLastTurn
      <3>1. e < j  BY <1>0, <1>6, <2>1
      <3> QED  BY <1>1, <1>7, <3>1 DEF InLastTurn
    <2>4. ResultAt(h, i, n)  BY <2>1, <2>3 DEF Settled
    <2> QED  BY <2>2, <2>4 DEF ResultAt
  <1> QED  BY <1>1, <1>2, <1>3, <1>7, <1>8

LEMMA HistoryIsWhole == HistoryHypo => Context!RequestsAreWhole
  <1> SUFFICES ASSUME HistoryHypo, at = "stream"  PROVE Context!RequestsAreWhole
    BY DEF Context!RequestsAreWhole
  <1>1. /\ history \in Seq(HistoryMessage) /\ Settled(history, {})
        /\ Tidy(history, made.answers, {})
    BY HistoryIs
  <1>2. Len(history) <= settings.safe /\ (settings.keep > 0 => Prompting(history, made.turns))
    BY DEF HistoryHypo, HistoryInv
  <1>3. Context!Violations(history) = {} /\ Context!Violations(Context!Packed(history)) = {}
    BY <1>1, TidyIsValid, PackedIsValid
  <1>4. settings.keep > 0 =>
           /\ Context!TurnStarts(history) # {} /\ history[Context!LastStart(history)].of = made.turns
           /\ \A i \in Context!Unanswered(history) : i < Context!LastStart(history)
    BY <1>1, <1>2, RunningTurnIsWhole
  <1> QED  BY <1>2, <1>3, <1>4 DEF Context!RequestsAreWhole

(* What the legacy loop sends fits the window and holds whole turns,       *)
(* however often the conversation was stopped, interrupted, undone,        *)
(* summarised and trimmed before (ensure_context_capacity, stream_response, *)
(* split_complete_turns, trim_oldest_to_budget, pack_messages).            *)
THEOREM RequestsStayWhole ==
    ASSUME MaxCalls \in Nat  PROVE Context!Spec => []RequestsAreWhole
  <1>1. Context!Init => HistoryInv  BY HistoryInit
  <1>2. HistoryInv /\ [Context!Next]_(Context!contextVars) => HistoryInv'
    BY HistoryNext, BudgetsNest DEF HistoryHypo
  <1>3. HistoryInv => RequestsAreWhole  BY HistoryIsWhole, BudgetsNest DEF HistoryHypo, RequestsAreWhole
  <1> QED  BY <1>1, <1>2, <1>3, PTL DEF Context!Spec
=============================================================================
