---------------------------- MODULE ToolExecution ----------------------------
(***************************************************************************)
(* The built-in tools of the kernel: BuiltinTool.execute (tools/base.py)   *)
(* around the bodies of files.py, process.py and web.py.  execute races    *)
(* the task of the body against the cancellation token and a timeout; the  *)
(* body holds a lease of the workspace and works on a thread or a child    *)
(* process.  A body that is cancelled gives its lease back at once, its    *)
(* thread goes on.  One file stands for the workspace: it holds the        *)
(* changes that are in it.                                                 *)
(***************************************************************************)
EXTENDS Naturals, FiniteSets

CONSTANTS Run       \* the executions

VARIABLES file,     \* the changes the file holds
          lease,    \* who holds a lease, and the kind of it
          child,    \* the executions whose process runs
          token,    \* the executions that were asked to stop
          run       \* how far each one is

vars == <<file, lease, child, token, run>>

(* The tools by what they do: the lease, the threads and the process.      *)
Tools == [read_file |-> "look", list_dir |-> "look", search_file |-> "look",
          web_fetch |-> "look", write_file |-> "write", patch_file |-> "patch",
          run_command |-> "spawn", run_python_code |-> "spawn"]
Over == {"succeeded", "failed", "cancelled"}

Init ==
    /\ file = {} /\ lease = {} /\ child = {} /\ token = {}
    /\ run = [r \in Run |-> [pc |-> "idle", does |-> "look", seen |-> {}, wrote |-> FALSE]]

At(r, pc) == run[r].pc = pc
Go(r, pc) == run' = [run EXCEPT ![r].pc = pc]
Reads(r) == run[r].does = "look"
InBody(r) == run[r].pc \in {"waiting", "reading", "writing", "running"}

(* execute: a token that is cancelled already starts nothing. *)
Execute(r) ==
    /\ At(r, "idle")
    /\ \E does \in {Tools[t] : t \in DOMAIN Tools} :
          run' = [run EXCEPT ![r].does = does,
                             ![r].pc = IF r \in token THEN "cancelled" ELSE "waiting"]
    /\ UNCHANGED <<file, lease, child, token>>

(* The body's lease, its arguments and the path policy: a refusal is a     *)
(* failure, and gives the lease back.                                      *)
Lease(r) ==
    /\ At(r, "waiting")
    /\ \A q \in lease : Reads(r) /\ Reads(q)
    /\ \/ /\ lease' = lease \cup {r}
          /\ Go(r, CASE run[r].does = "write" -> "writing" [] run[r].does = "spawn" -> "running"
                     [] OTHER -> "reading")
          /\ child' = IF run[r].does = "spawn" THEN child \cup {r} ELSE child
       \/ Go(r, "failed") /\ UNCHANGED <<lease, child>>
    /\ UNCHANGED <<file, token>>

(* Mutant: a patch writes under no lease. *)
ReadAndRelease(r) ==
    /\ At(r, "reading")
    /\ \/ /\ run[r].does = "patch"
          /\ run' = [run EXCEPT ![r].pc = "writing", ![r].seen = file]
          /\ lease' = lease \ {r}
       \/ Reads(r) /\ Go(r, "succeeded") /\ lease' = lease \ {r}
       \/ Go(r, "failed") /\ lease' = lease \ {r}
    /\ UNCHANGED <<file, child, token>>

(* Reading on a thread; a patch goes on to write what it makes of it. *)
Read(r) ==
    /\ At(r, "reading")
    /\ \/ /\ run[r].does = "patch"
          /\ run' = [run EXCEPT ![r].pc = "writing", ![r].seen = file]
          /\ UNCHANGED lease
       \/ Reads(r) /\ Go(r, "succeeded") /\ lease' = lease \ {r}
       \/ Go(r, "failed") /\ lease' = lease \ {r}
    /\ UNCHANGED <<file, child, token>>

(* _atomic_write on its thread, which no cancellation reaches. *)
Write(r) ==
    /\ run[r].pc \in {"writing", "orphaned"} /\ ~run[r].wrote
    /\ file' = {r} \cup (IF run[r].does = "patch" THEN run[r].seen ELSE {})
    /\ run' = [run EXCEPT ![r].wrote = TRUE, ![r].pc = IF @ = "orphaned" THEN "cancelled" ELSE @]
    /\ UNCHANGED <<lease, child, token>>

Written(r) ==
    /\ At(r, "writing")
    /\ Go(r, IF run[r].wrote THEN "succeeded" ELSE "failed")
    /\ lease' = lease \ {r}
    /\ UNCHANGED <<file, child, token>>

(* The child may change files while it runs; then it ends. *)
Works(r) ==
    /\ r \in child /\ file' = file \cup {r}
    /\ UNCHANGED <<lease, child, token, run>>

Exits(r) ==
    /\ r \in child /\ child' = child \ {r}
    /\ UNCHANGED <<file, lease, token, run>>

(* communicate() returns: the exit code decides. *)
Collected(r) ==
    /\ At(r, "running") /\ r \notin child
    /\ \E pc \in {"succeeded", "failed"} : Go(r, pc)
    /\ lease' = lease \ {r}
    /\ UNCHANGED <<file, child, token>>

(* Cancellation of the turn. *)
Ask(r) ==
    /\ r \notin token /\ token' = token \cup {r}
    /\ UNCHANGED <<file, lease, child, run>>

(* The token or the timeout wins the race of execute: the body is          *)
(* cancelled where it waits.  A thread is left to itself; a process is     *)
(* terminated, and killed after a second, before the lease goes back.      *)
Interrupt(r) ==
    /\ InBody(r)
    /\ LET end == IF r \in token THEN "cancelled" ELSE "failed" IN
       IF At(r, "running")
       THEN Go(r, "killing") /\ UNCHANGED lease
       ELSE /\ Go(r, IF At(r, "writing") /\ ~run[r].wrote THEN "orphaned" ELSE end)
            /\ lease' = lease \ {r}
    /\ UNCHANGED <<file, child, token>>

Killed(r) ==
    /\ At(r, "killing") /\ child' = child \ {r} /\ lease' = lease \ {r}
    /\ \E pc \in {"cancelled", "failed"} : Go(r, pc)
    /\ UNCHANGED <<file, token>>

Step(r) == Lease(r) \/ Read(r) \/ Write(r) \/ Written(r) \/ Collected(r)
           \/ Interrupt(r) \/ Killed(r)

Next == \E r \in Run : Execute(r) \/ Step(r) \/ Works(r) \/ Exits(r) \/ Ask(r)

Spec == Init /\ [][Next]_vars

----------------------------------------------------------------------------
(* A change leaves the file only because write_file replaces the file:     *)
(* patches that read and write in two steps lose nothing of each other or  *)
(* of a command.  The threads of interrupted tools are the exception: such *)
(* a thread may overwrite anything, and what it put in the file between    *)
(* the two steps of a patch is lost with its own change                    *)
(* (PatchFileTool._run, BuiltinTool.execute).                              *)
NothingIsLost ==
    [][\/ file \subseteq file'
       \/ \E w \in file' : /\ ~run[w].wrote /\ run'[w].wrote
                           /\ run[w].does = "write" \/ At(w, "orphaned")
       \/ \E o \in file \ file' : At(o, "cancelled") /\ run[o].wrote]_vars

(* A process of a command runs under the lease of its tool and has ended   *)
(* when the tool reports (_communicate).                                   *)
ChildrenAreLeased == child \subseteq lease

(* Tools of several turns keep out of each other's way: through timeouts,  *)
(* cancellations and failures no work is lost and no process is left.      *)
ToolsAreIsolated == NothingIsLost /\ []ChildrenAreLeased
=============================================================================
