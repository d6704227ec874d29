-------------------------- MODULE KernelLifecycle --------------------------
(***************************************************************************)
(* The kernel from start to shutdown: the state machine of                 *)
(* runtime/lifecycle.py, the start, shutdown and mark_degraded of          *)
(* kernel.py with the order in which shutdown closes admission and         *)
(* resources, and the facades of kernel.py, whose calls check the state    *)
(* once, at their entry, and then run on while the state changes.          *)
(*                                                                         *)
(* Op is a set of calls of start, shutdown and mark_degraded, Call one of  *)
(* calls of the facades.  Each runs once; any may be the caller's choice.  *)
(***************************************************************************)
EXTENDS Naturals, Sequences, Functions

CONSTANTS Op, Call

VARIABLES state,      \* AsyncLifecycle._state
          lock,       \* holder and waiters of AsyncLifecycle._lock, in order
          gate,       \* holder and waiters of KairoKernel._shutdown_lock
          op,         \* how far each call of the lifecycle is
          closing,    \* SessionTurnSupervisor._closing
          active,     \* the turns the supervisor has admitted
          open,       \* the resources that are open
          warned,     \* _shutdown_warnings is not empty
          report,     \* _shutdown_report is there
          announced,  \* the last lifecycle event on the bus
          cut,        \* an announced change of state was cut off
          call        \* how far each call of a facade is

vars == <<state, lock, gate, op, closing, active, open, warned, report,
          announced, cut, call>>

Hooks == <<"admission", "drain", "broker", "leases", "database">>

----------------------------------------------------------------------------
(* The facades: what each operation asks of the state, what it works on,   *)
(* and whether it tells of a change once it has committed one.             *)

Mutation(work, tells) == [gate |-> "mutation", work |-> work, tells |-> tells]
Reading(work) == [gate |-> "read", work |-> work, tells |-> FALSE]
Unchecked(work) == [gate |-> "none", work |-> work, tells |-> FALSE]

(* wait() is answered at once here: its turn is unknown or has ended.  Of   *)
(* one that has not, see Wait.                                             *)
TurnCalls == [submit |-> Mutation("turn", FALSE), turn |-> Reading("memory"),
              wait |-> [Reading("memory") EXCEPT !.gate = "started"],
              cancel |-> [Reading("memory") EXCEPT !.gate = "started"]]
StatusCalls == [status |-> Unchecked("store"), capabilities |-> Unchecked("memory"),
                active_turns |-> Unchecked("memory")]
SessionCalls == [list |-> Unchecked("store"), get |-> Unchecked("store"),
                 create |-> Mutation("store", TRUE), rename |-> Mutation("store", TRUE),
                 delete |-> Mutation("store", TRUE),
                 search |-> Unchecked("store"), export |-> Unchecked("store")]
ConversationCalls == [history |-> Unchecked("store"), clear |-> Mutation("store", TRUE),
                      undo |-> Mutation("store", TRUE), compress |-> Mutation("store", TRUE)]
MemoryCalls == [search |-> Unchecked("store"), get |-> Unchecked("store"),
                put |-> Mutation("store", TRUE), delete |-> Mutation("store", TRUE)]
ConfigurationCalls == [snapshot |-> Unchecked("memory"), export_json |-> Unchecked("memory"),
                       validate |-> Unchecked("memory"), patch |-> Mutation("store", TRUE),
                       backup |-> Mutation("store", FALSE),
                       import_json |-> Mutation("store", TRUE),
                       restore |-> Mutation("store", TRUE)]
WorkspaceCalls == [snapshot |-> Unchecked("store"), preview |-> Unchecked("memory"),
                   tree |-> Unchecked("memory"), changed_files |-> Unchecked("memory"),
                   diff |-> Unchecked("memory"), move |-> Mutation("store", TRUE),
                   save_bookmark |-> Mutation("memory", TRUE),
                   remove_bookmark |-> Mutation("memory", TRUE)]
ProviderCalls == [snapshot |-> Unchecked("memory"), resolve |-> Unchecked("memory"),
                  probe |-> Unchecked("memory"), configure |-> Mutation("connect", TRUE),
                  store_secret |-> Mutation("memory", TRUE),
                  create_profile |-> Mutation("memory", TRUE),
                  update_profile |-> Mutation("memory", TRUE),
                  delete_profile |-> Mutation("memory", TRUE),
                  map_role |-> Mutation("memory", TRUE), unmap_role |-> Mutation("memory", TRUE),
                  delete_secret |-> Mutation("memory", TRUE)]
SkillCalls == [inspect |-> Unchecked("memory"), active |-> Unchecked("memory"),
               reload |-> Mutation("memory", TRUE), trust |-> Mutation("memory", TRUE),
               revoke |-> Mutation("memory", TRUE)]
McpCalls == [catalog |-> Unchecked("memory"), connect |-> Mutation("memory", FALSE),
             refresh |-> Mutation("memory", FALSE), call_tool |-> Mutation("mcp", FALSE),
             read_resource |-> Reading("mcp"), render_prompt |-> Reading("mcp")]
OtherCalls == [local |-> Reading("memory"), full |-> Reading("memory"),
               list |-> Reading("memory"), reload |-> Mutation("memory", FALSE),
               pending |-> Unchecked("memory"), respond |-> Mutation("memory", FALSE),
               snapshot |-> Unchecked("memory"), patch |-> Mutation("memory", TRUE)]

Kinds == UNION {Range(TurnCalls), Range(StatusCalls), Range(SessionCalls),
                Range(ConversationCalls), Range(MemoryCalls), Range(ConfigurationCalls),
                Range(WorkspaceCalls), Range(ProviderCalls), Range(SkillCalls),
                Range(McpCalls), Range(OtherCalls)}

(* _read_error, _mutation_error, and the exceptions wait and cancel make.  *)
Refused(k) ==
    \/ k.gate # "none" /\ state \in {"created", "starting"}
    \/ k.gate \in {"read", "mutation"} /\ state \in {"stopping", "stopped"}
    \/ k.gate = "mutation" /\ state = "degraded"

----------------------------------------------------------------------------
Init ==
    /\ state = "created" /\ lock = <<>> /\ gate = <<>>
    /\ op = [o \in Op |-> [kind |-> "none", pc |-> "idle", created |-> FALSE]]
    /\ closing = FALSE /\ active = {}
    /\ open = {"bus", "broker", "leases"}
    /\ warned = FALSE /\ report = FALSE
    /\ announced = "created" /\ cut = FALSE
    /\ call = [c \in Call |-> [kind |-> Unchecked("memory"), pc |-> "idle", done |-> FALSE]]

Over == {"ok", "refused", "raised", "abandoned"}
Without(q, x) ==
    IF x \notin Range(q) THEN q
    ELSE LET i == CHOOSE j \in DOMAIN q : q[j] = x
         IN  SubSeq(q, 1, i - 1) \o SubSeq(q, i + 1, Len(q))
At(o, kind, pc) == op[o].kind = kind /\ op[o].pc = pc
Go(o, pc) == op' = [op EXCEPT ![o].pc = pc]
Holds(o) == lock # <<>> /\ Head(lock) = o

(* events.emit of a lifecycle event. *)
Announce(s) == announced' = IF "bus" \in open THEN s ELSE announced

----------------------------------------------------------------------------
(* start(): reads the state, may restore the provider catalog, which       *)
(* suspends, announces, and queues for the lock of the lifecycle.          *)
CallStart(o) ==
    /\ op[o].pc = "idle"
    /\ LET created == state = "created" IN
       \/ /\ created
          /\ op' = [op EXCEPT ![o] = [kind |-> "start", pc |-> "restoring", created |-> TRUE]]
          /\ UNCHANGED <<lock, announced>>
       \/ /\ op' = [op EXCEPT ![o] = [kind |-> "start", pc |-> "queued", created |-> created]]
          /\ lock' = Append(lock, o)
          /\ IF created THEN Announce("starting") ELSE UNCHANGED announced
    /\ UNCHANGED <<state, gate, closing, active, open, warned, report, cut, call>>

RestoreDone(o) ==
    /\ At(o, "start", "restoring")
    /\ \/ Go(o, "refused") /\ UNCHANGED <<lock, announced>>
       \/ IF "bus" \in open
          THEN Go(o, "queued") /\ lock' = Append(lock, o) /\ Announce("starting")
          ELSE Go(o, "raised") /\ UNCHANGED <<lock, announced>>
    /\ UNCHANGED <<state, gate, closing, active, open, warned, report, cut, call>>

(* AsyncLifecycle.start under its lock, up to the start hook. *)
StartEnters(o) ==
    /\ At(o, "start", "queued") /\ Holds(o)
    /\ IF state = "created"
       THEN state' = "starting" /\ Go(o, "hook") /\ UNCHANGED <<lock, announced>>
       ELSE /\ Go(o, IF state = "running" THEN "ok" ELSE "refused")
            /\ lock' = Tail(lock)
            /\ IF op[o].created /\ state = "running" THEN Announce("running")
               ELSE IF state = "degraded" THEN Announce("degraded")
               ELSE UNCHANGED announced
            /\ UNCHANGED state
    /\ UNCHANGED <<gate, closing, active, open, warned, report, cut, call>>

(* The hook opens the database and may connect the MCP servers. *)
StartHookEnds(o) ==
    /\ At(o, "start", "hook")
    /\ lock' = Tail(lock)
    /\ \/ /\ state' = "running" /\ Go(o, "ok")
          /\ open' = open \cup {"database"}
          /\ IF op[o].created THEN Announce("running") ELSE UNCHANGED announced
       \/ /\ state' = "degraded" /\ Go(o, "refused")
          /\ open' \in {open, open \cup {"database"}}
          /\ Announce("degraded")
    /\ UNCHANGED <<gate, closing, active, warned, report, cut, call>>

----------------------------------------------------------------------------
CallDegrade(o) ==
    /\ op[o].pc = "idle"
    /\ op' = [op EXCEPT ![o] = [kind |-> "degrade", pc |-> "queued", created |-> FALSE]]
    /\ lock' = Append(lock, o)
    /\ UNCHANGED <<state, gate, closing, active, open, warned, report, announced, cut, call>>

(* mark_degraded under the lock, for a caller and for providers.configure. *)
MarkDegraded ==
    /\ lock' = Tail(lock)
    /\ IF state = "stopped" THEN UNCHANGED <<state, announced>>
       ELSE state' = "degraded" /\ Announce("degraded")
    /\ UNCHANGED <<gate, closing, active, open, warned, report, cut>>

Degrade(o) ==
    /\ At(o, "degrade", "queued") /\ Holds(o)
    /\ MarkDegraded /\ Go(o, "ok") /\ UNCHANGED call

----------------------------------------------------------------------------
(* shutdown(): one at a time, then behind the lock of the lifecycle. *)
CallShutdown(o) ==
    /\ op[o].pc = "idle"
    /\ op' = [op EXCEPT ![o] = [kind |-> "shutdown", pc |-> "gate", created |-> FALSE]]
    /\ gate' = Append(gate, o)
    /\ UNCHANGED <<state, lock, closing, active, open, warned, report, announced, cut, call>>

ShutdownEnters(o) ==
    /\ At(o, "shutdown", "gate") /\ gate # <<>> /\ Head(gate) = o
    /\ IF report
       THEN Go(o, "ok") /\ gate' = Tail(gate) /\ UNCHANGED <<lock, announced>>
       ELSE /\ Go(o, "queued") /\ lock' = Append(lock, o) /\ UNCHANGED gate
            /\ IF state = "stopped" THEN UNCHANGED announced ELSE Announce("stopping")
    /\ UNCHANGED <<state, closing, active, open, warned, report, cut, call>>

StopBegins(o) ==
    /\ At(o, "shutdown", "queued") /\ Holds(o)
    /\ \/ /\ state = "stopped" /\ Go(o, "report") /\ lock' = Tail(lock)
          /\ UNCHANGED <<state, gate>>
       \/ /\ state = "stopping" /\ Go(o, "refused")
          /\ lock' = Tail(lock) /\ gate' = Tail(gate) /\ UNCHANGED state
       \/ /\ state \notin {"stopped", "stopping"}
          /\ state' = "stopping" /\ Go(o, Hooks[1]) /\ UNCHANGED <<lock, gate>>
    /\ UNCHANGED <<closing, active, open, warned, report, announced, cut, call>>

(* Mutant: the engine goes on admitting turns. *)
LeaveAdmission(o) ==
    /\ At(o, "shutdown", "admission")
    /\ Go(o, "drain")
    /\ UNCHANGED <<state, lock, gate, closing, active, open, warned, report, announced, cut, call>>

(* The steps of the shutdown hook.  The cancellation of the active turns   *)
(* is the turns' own affair: here a turn may end at any time, or not.      *)
CloseAdmission(o) ==
    /\ At(o, "shutdown", "admission")
    /\ closing' = TRUE /\ Go(o, "drain")
    /\ UNCHANGED <<state, lock, gate, active, open, warned, report, announced, cut, call>>

AwaitIdle(o) ==
    /\ At(o, "shutdown", "drain")
    /\ warned' = (warned \/ active # {}) /\ Go(o, "broker")
    /\ UNCHANGED <<state, lock, gate, closing, active, open, report, announced, cut, call>>

(* Whoever asks for consent is rejected. *)
CloseBroker(o) ==
    /\ At(o, "shutdown", "broker")
    /\ open' = open \ {"broker"} /\ Go(o, "leases")
    /\ call' = [c \in Call |-> IF call[c].pc = "asking" THEN [call[c] EXCEPT !.pc = "refused"]
                               ELSE call[c]]
    /\ UNCHANGED <<state, lock, gate, closing, active, warned, report, announced, cut>>

(* The MCP servers are closed on the way. *)
CloseLeases(o) ==
    /\ At(o, "shutdown", "leases") /\ Go(o, "database")
    /\ open' = open \ {"leases"}
    /\ UNCHANGED <<state, lock, gate, closing, active, warned, report, announced, cut, call>>

CloseDatabase(o) ==
    /\ At(o, "shutdown", "database") /\ Go(o, "report")
    /\ open' = open \ {"database"}
    /\ state' = "stopped" /\ lock' = Tail(lock)
    /\ UNCHANGED <<gate, closing, active, warned, report, announced, cut, call>>

InHook(o) == op[o].kind = "shutdown" /\ op[o].pc \in Range(Hooks)


(* wait_for runs out of time, or closing MCP or the database raises. *)
StopFails(o) ==
    /\ InHook(o) /\ Go(o, "refused")
    /\ state' = "degraded" /\ cut' = TRUE
    /\ lock' = Tail(lock) /\ gate' = Tail(gate)
    /\ UNCHANGED <<closing, active, open, warned, report, announced, call>>

(* The last event, the end of the bus, and the report. *)
Report(o) ==
    /\ At(o, "shutdown", "report") /\ Go(o, "ok")
    /\ Announce("stopped") /\ open' = open \ {"bus"}
    /\ report' = TRUE /\ gate' = Tail(gate) /\ cut' = FALSE
    /\ UNCHANGED <<state, lock, closing, active, warned, call>>

(* The task of a caller is cancelled where it waits.  CancelledError is    *)
(* not an Exception: a state of starting or stopping stays as it is.       *)
Abandon(o) ==
    /\ op[o].pc \notin {"idle"} \cup Over
    /\ Go(o, "abandoned")
    /\ lock' = Without(lock, o) /\ gate' = Without(gate, o)
    /\ cut' = (cut \/ (op[o].kind # "degrade" /\ op[o].pc \notin {"restoring", "gate"}))
    /\ UNCHANGED <<state, closing, active, open, warned, report, announced, call>>

----------------------------------------------------------------------------
CallAt(c, pc) == call[c].pc = pc
CallGo(c, pc) ==
    call' = [call EXCEPT ![c].pc = pc,
                         ![c].kind = IF pc \in Over THEN Unchecked("memory") ELSE @]
Quiet == UNCHANGED <<state, lock, gate, op, closing, warned, report, announced, cut>>

(* Entry of a facade: the only look at the state.  An MCP call is either   *)
(* authorized by the mode or asks; a closed broker answers with reject.    *)
Enter(c, k) ==
    /\ CallAt(c, "idle")
    /\ \E pc \in IF Refused(k) THEN {"refused"}
                 ELSE IF k.work = "mcp"
                 THEN {"serving", IF "broker" \in open THEN "asking" ELSE "refused"}
                 ELSE {"serving"} :
          call' = [call EXCEPT ![c] = [kind |-> IF pc \in Over THEN Unchecked("memory")
                                               ELSE [k EXCEPT !.gate = "none"],
                                       pc |-> pc, done |-> FALSE]]
    /\ Quiet /\ UNCHANGED <<active, open>>

(* The answer to the question of an MCP call, or its expiry. *)
Answer(c) ==
    /\ CallAt(c, "asking")
    /\ \E pc \in {"serving", "refused"} : CallGo(c, pc)
    /\ Quiet /\ UNCHANGED <<active, open>>

(* The service does its work.  Whatever reads or writes the store opens    *)
(* the database first.                                                     *)
Serve(c) ==
    /\ CallAt(c, "serving") /\ call[c].kind.work # "turn"
    /\ open' = IF call[c].kind.work = "store" THEN open \cup {"database"} ELSE open
    /\ \/ call' = [call EXCEPT ![c] = [kind |-> Unchecked("memory"), done |-> @.kind.tells,
                                      pc |-> IF @.kind.tells THEN "telling" ELSE "ok"]]
       \/ CallGo(c, "refused")
       \/ call[c].kind.work = "connect" /\ CallGo(c, "undoing")
    /\ Quiet /\ UNCHANGED active

(* A provider connection whose compensation failed marks the kernel. *)
UndoFails(c) ==
    /\ CallAt(c, "undoing") /\ CallGo(c, "degrading") /\ lock' = Append(lock, c)
    /\ UNCHANGED <<state, gate, op, closing, active, open, warned, report, announced, cut>>

UndoDegrades(c) ==
    /\ CallAt(c, "degrading") /\ Holds(c)
    /\ MarkDegraded /\ CallGo(c, "refused") /\ UNCHANGED op

(* _emit_change: says nothing once the kernel stops, and never raises. *)
Tell(c) ==
    /\ CallAt(c, "telling") /\ CallGo(c, "ok")
    /\ Quiet /\ UNCHANGED <<active, open>>

(* engine.submit: the supervisor looks at _closing again. *)
Admit(c) ==
    /\ CallAt(c, "serving") /\ call[c].kind.work = "turn"
    /\ IF closing THEN CallGo(c, "refused") /\ UNCHANGED active
       ELSE CallGo(c, "ok") /\ active' = active \cup {c}
    /\ Quiet /\ UNCHANGED open

(* A turn ends; saving its record opens the database. *)
TurnEnds(c) ==
    /\ c \in active /\ active' = active \ {c}
    /\ open' = open \cup {"database"}
    /\ Quiet /\ UNCHANGED call

(* wait() for a turn that runs, by the caller that submitted it: it blocks  *)
(* on the future of the turn, for good or with a timeout.                  *)
Wait(c) ==
    /\ CallAt(c, "ok") /\ c \in active
    /\ ~Refused(TurnCalls.wait)
    /\ \E pc \in {"waiting", "timed"} :
          call' = [call EXCEPT ![c] = [kind |-> Unchecked("memory"), pc |-> pc, done |-> FALSE]]
    /\ Quiet /\ UNCHANGED <<active, open>>

(* The future has its result, or the timeout has passed. *)
WaitEnds(c) ==
    /\ \/ call[c].pc \in {"waiting", "timed"} /\ c \notin active /\ CallGo(c, "ok")
       \/ CallAt(c, "timed") /\ CallGo(c, "refused")
    /\ Quiet /\ UNCHANGED <<active, open>>

----------------------------------------------------------------------------
OpStep(o) ==
    \/ RestoreDone(o) \/ StartEnters(o) \/ StartHookEnds(o) \/ Degrade(o)
    \/ ShutdownEnters(o) \/ StopBegins(o)
    \/ CloseAdmission(o) \/ AwaitIdle(o) \/ CloseBroker(o) \/ CloseLeases(o)
    \/ CloseDatabase(o) \/ StopFails(o) \/ Report(o)

CallStep(c) ==
    \/ Answer(c) \/ Serve(c) \/ UndoFails(c) \/ UndoDegrades(c) \/ Tell(c) \/ Admit(c)
    \/ WaitEnds(c)

Next ==
    \/ \E o \in Op : \/ CallStart(o) \/ CallDegrade(o) \/ CallShutdown(o)
                     \/ OpStep(o) \/ Abandon(o)
    \/ \E c \in Call : \/ \E k \in Kinds : Enter(c, k)
                       \/ CallStep(c) \/ TurnEnds(c) \/ Wait(c)

Spec == Init /\ [][Next]_vars

(* Every wait of a call ends: hooks and the waits inside them are bounded  *)
(* by timeouts, locks pass in order, questions expire.  Only turns may run *)
(* on for ever.                                                            *)
FairSpec == /\ Spec
            /\ \A o \in Op : WF_vars(OpStep(o))
            /\ \A c \in Call : WF_vars(CallStep(c))

----------------------------------------------------------------------------
(* The report tells the truth (shutdown, _shutdown_hook): once there is    *)
(* one the kernel is stopped, takes no turn, has closed bus, broker and    *)
(* leases, and every admitted turn has ended unless the report warns.      *)
ReportIsTrue ==
    report => /\ state = "stopped" /\ closing
              /\ open \cap {"bus", "broker", "leases"} = {}
              /\ warned \/ active = {}

(* At rest the last lifecycle event on the bus tells the state, whatever   *)
(* calls raced each other, unless a shutdown failed or a call was          *)
(* abandoned half-way (start, shutdown, mark_degraded).                    *)
AnnouncedAtRest ==
    (\A o \in Op : op[o].pc \in {"idle"} \cup Over) /\ ~cut
        /\ (\A c \in Call : call[c].pc # "degrading")
    => announced = state

(* A change that its service has committed is never reported as an error   *)
(* because the kernel stops before it can be announced (_emit_change).     *)
CommittedIsReported ==
    \A c \in Call : call[c].done => call[c].pc \in {"telling", "ok"}


(* Nothing the kernel says of itself is wrong: neither its report, nor the *)
(* last event of a bus at rest, nor the result of a call it has served     *)
(* (start, shutdown, mark_degraded, _emit_change).                         *)
ReportsAreTrue == ReportIsTrue /\ AnnouncedAtRest /\ CommittedIsReported
=============================================================================
