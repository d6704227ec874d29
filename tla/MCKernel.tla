------------------------------ MODULE MCKernel ------------------------------
(***************************************************************************)
(* The suite "kernel" explores, side by side, three components that decide *)
(* who may run - the workspace leases (extended), the lifecycle and facade *)
(* of the kernel, and the runtime of the legacy agent - and the history of *)
(* the conversation that runtime works on.  They share no state, so a      *)
(* behaviour picks one of them at the start (part) and keeps the others in *)
(* one fixed initial state: the run is the union of the four state graphs, *)
(* never their product.                                                    *)
(***************************************************************************)
EXTENDS WorkspaceLeases, KernelParts, TLC

CONSTANTS t1, t2, t3, r1, r2          \* model values: tasks and roots

VARIABLE part

TwoRoots == {r1, r2}
SomeReaders == {t1, t2}
OneWriter == {t3}

\* Windows that fit 8 messages or 7, with a summary that keeps one turn or
\* none; and one in which the context is not managed.
Managed(compress, keep, trigger, target, safe) ==
  [enabled |-> TRUE, compress |-> compress, keep |-> keep,
   trigger |-> trigger, target |-> target, safe |-> safe]
ContextSettings ==
  {Managed(TRUE, keep, 6, 5, 8) : keep \in {0, 1}}
  \cup {Managed(compress, 1, 9, 6, 7) : compress \in BOOLEAN}
  \cup {[Managed(TRUE, 1, 6, 5, 8) EXCEPT !.enabled = FALSE]}

SuiteInit == /\ part \in {"leases", "lifecycle", "legacy", "context"}
             /\ Init /\ Kernel!Init /\ Legacy!Init /\ Context!Init
             /\ snapshot.root = r1
             /\ part # "legacy" => level = 0
             /\ part # "context" => settings = Managed(TRUE, 1, 6, 5, 8)
SuiteNext ==
  \/ part = "leases" /\ Next /\ UNCHANGED <<part, lifecycleVars, legacyVars, historyVars>>
  \/ part = "lifecycle" /\ Kernel!Next /\ UNCHANGED <<part, vars, legacyVars, historyVars>>
  \/ part = "legacy" /\ Legacy!Next /\ UNCHANGED <<part, vars, lifecycleVars, historyVars>>
  \/ part = "context" /\ Context!Next /\ UNCHANGED <<part, vars, lifecycleVars, legacyVars>>

suiteVars == <<part, vars, lifecycleVars, legacyVars, historyVars>>
SuiteSpec == SuiteInit /\ [][SuiteNext]_suiteVars

\* The fairness each component states for itself, for the component explored.
SuiteFairSpec ==
  /\ SuiteSpec
  /\ \A t \in Task : WF_vars(part = "leases" /\ Resume(t))
  /\ \A o \in Op : WF_lifecycleVars(part = "lifecycle" /\ Kernel!OpStep(o))
  /\ \A c \in Call : WF_lifecycleVars(part = "lifecycle" /\ Kernel!CallStep(c))
  /\ \A t \in Turn : WF_legacyVars(part = "legacy" /\ Legacy!Proceeds(t))
  /\ \A a \in Api :
       WF_legacyVars(part = "legacy" /\ (Legacy!EndMutation(a) \/ Legacy!Sweep(a) \/ Legacy!Join(a)))

\* A turn the user stopped comes to an end if tools return (LegacyRuntime).
StoppedTurnsEnd == Legacy!StoppedTurnsEnd
=============================================================================
