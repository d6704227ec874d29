----------------------------- MODULE KernelParts -----------------------------
(* Three of the components of the suite "kernel", the lifecycle of the      *)
(* kernel, the runtime of the legacy agent and the history it works on,     *)
(* with their properties under the names the suite checks and the proofs    *)
(* state.                                                                   *)
EXTENDS Integers

CONSTANTS Op, Call,                  \* KernelLifecycle
          Turn, Api, None, MaxCalls, \* LegacyRuntime
          Settings, MaxTurns, MaxAnswers  \* LegacyContext

\* The turns to keep are a number, and the target is capped by the safe budget
\* (_normalize_context_management, ensure_context_capacity).
BudgetsAreNested ==
    \A s \in Settings : s.keep \in Nat /\ s.target \in Nat /\ s.safe \in Nat /\ s.target <= s.safe
ASSUME BudgetsNest == BudgetsAreNested

VARIABLES state, lock, gate, op, closing, active, open, warned, report, announced, cut, call,
          current, cancelled, worker, choice, level, mutex, api, down, feed, late,
          history, at, front, retried, calls, stopped, settings, made

Kernel == INSTANCE KernelLifecycle
Legacy == INSTANCE LegacyRuntime
Context == INSTANCE LegacyContext WITH cancelled <- stopped

lifecycleVars == <<state, lock, gate, op, closing, active, open, warned, report, announced,
                   cut, call>>
legacyVars == <<current, cancelled, worker, choice, level, mutex, api, down, feed, late>>
historyVars == <<history, at, front, retried, calls, stopped, settings, made>>

\* What shutdown reports, what the feed announces at rest and what a facade
\* call answers agree with what the kernel really did (KernelLifecycle).
ReportsAreTrue == Kernel!ReportsAreTrue
\* A configuration or session mutation of the legacy runtime never overlaps a
\* turn or another mutation (run_mutation; LegacyRuntime).
MutationsRunAlone == Legacy!MutationsRunAlone
\* After a stop at most one more tool runs, and shutdown's answer is honest
\* about workers still alive (stop_current_task, shutdown; LegacyRuntime).
StopsAreKept == Legacy!StopsAreKept
\* A request sent fits the window and holds whole turns, whatever was stopped,
\* undone, summarised or trimmed before (ensure_context_capacity; LegacyContext).
RequestsAreWhole == Context!RequestsAreWhole
=============================================================================
