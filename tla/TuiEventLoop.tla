---------------------------- MODULE TuiEventLoop ----------------------------
(***************************************************************************)
(* The terminal UI as a client of the event bus: the KernelEventLoop of    *)
(* frontends/tui/kairo_tui/event_loop.py, the sequence checks of           *)
(* fold_event() and the state the app and the loop hand each other.        *)
(*                                                                         *)
(* Of the UI state only last_sequence is kept, for the loop's copy and for *)
(* the app's; folded and recovered record which events went into the state *)
(* and which were skipped with a reload of everything.                     *)
(***************************************************************************)
EXTENDS EventBus

CONSTANTS NoSub,
          FoldMayFail  \* fold_event() may raise

ASSUME TuiAssumption == NoSub \notin Sub /\ FoldMayFail \in BOOLEAN

VARIABLES loop,     \* the locals of _run() and the loop's state
          appSeen,  \* app._state.last_sequence
          folded,   \* the events folded into the state
          recovered \* the events skipped when a reload was asked for

tuiVars == <<loop, appSeen, folded, recovered>>
vars == <<busVars, tuiVars>>

Loop == [pc : {"subscribing", "receiving", "sleeping", "dead", "closed"},
         sub : Sub \cup {NoSub},
         sequence : Nat,    \* the local of _run()
         retried : BOOLEAN,
         seen : Nat]        \* self._state.last_sequence

Init ==
    /\ BusInit
    /\ loop = [pc |-> "subscribing", sub |-> NoSub, sequence |-> 0,
               retried |-> FALSE, seen |-> 0]
    /\ appSeen = 0
    /\ folded = {}
    /\ recovered = {}

----------------------------------------------------------------------------
(* _emit() hands the loop's state to the app. *)
Emits(r) == loop' = r /\ appSeen' = r.seen

(* Mutant: a new subscription starts over. *)
LoopSubscribesAnew(s) ==
    /\ loop.pc = "subscribing"
    /\ Subscribe(s, 0)
    /\ Emits([loop EXCEPT !.pc = "receiving", !.sub = s, !.retried = FALSE,
                          !.sequence = 0, !.seen = 0])
    /\ UNCHANGED <<folded, recovered>>

(* subscribe(after_sequence=sequence); the subscription it replaces is not *)
(* closed.                                                                 *)
LoopSubscribes(s) ==
    /\ loop.pc = "subscribing"
    /\ Subscribe(s, loop.sequence)
    /\ loop' = [loop EXCEPT !.pc = "receiving", !.sub = s, !.retried = FALSE]
    /\ UNCHANGED <<appSeen, folded, recovered>>

(* An exception other than an overflow: one notice and a pause, then the   *)
(* end of the task.                                                        *)
LoopFails ==
    IF loop.retried
    THEN /\ loop' = [loop EXCEPT !.pc = "dead"]
         /\ UNCHANGED <<appSeen, folded, recovered>>
    ELSE /\ Emits([loop EXCEPT !.pc = "sleeping", !.retried = TRUE])
         /\ UNCHANGED <<folded, recovered>>

SubscribeFails ==
    /\ loop.pc = "subscribing"
    /\ closed
    /\ LoopFails
    /\ UNCHANGED busVars

(* asyncio.sleep(0.05) *)
LoopWakes ==
    /\ loop.pc = "sleeping"
    /\ loop' = [loop EXCEPT !.pc = "subscribing"]
    /\ UNCHANGED <<busVars, appSeen, folded, recovered>>

(* A duplicate is dropped. *)
Duplicate(n) == n <= loop.sequence /\ UNCHANGED tuiVars

(* Mutant: the local sequence does not move. *)
SkipsGapInState(n) ==
    /\ n > loop.sequence + 1
    /\ loop' = [loop EXCEPT !.seen = n]
    /\ appSeen' = loop.seen
    /\ recovered' = recovered \cup loop.sequence + 1..n
    /\ UNCHANGED folded

(* A gap asks for a reload and skips the event.  The notice goes out       *)
(* before last_sequence moves, so the app keeps the old one.               *)
SkipsGap(n) ==
    /\ n > loop.sequence + 1
    /\ loop' = [loop EXCEPT !.sequence = n, !.seen = n]
    /\ appSeen' = loop.seen
    /\ recovered' = recovered \cup loop.sequence + 1..n
    /\ UNCHANGED folded

(* fold_event() has its own look at the sequence: an event it has seen, or *)
(* one past a gap, is not folded.                                          *)
Folds(n) ==
    /\ n = loop.sequence + 1
    /\ Emits([loop EXCEPT !.sequence = n, !.seen = IF n > @ THEN n ELSE @])
    /\ folded' = IF n = loop.seen + 1 THEN folded \cup {n} ELSE folded
    /\ UNCHANGED recovered

(* fold_event() raises: the event is dropped, the second time the task     *)
(* ends.                                                                   *)
FoldFails(n) ==
    /\ FoldMayFail
    /\ n = loop.sequence + 1 /\ n = loop.seen + 1
    /\ IF loop.retried
       THEN loop' = [loop EXCEPT !.pc = "dead"] /\ UNCHANGED appSeen
       ELSE Emits([loop EXCEPT !.retried = TRUE])
    /\ UNCHANGED <<folded, recovered>>

Handle(n) == Duplicate(n) \/ SkipsGap(n) \/ Folds(n) \/ FoldFails(n)

LoopReceives ==
    /\ loop.pc = "receiving"
    /\ \/ /\ FromReplay(loop.sub) \/ FromQueue(loop.sub)
          /\ Handle(sub'[loop.sub].last)
       \/ Wait(loop.sub) /\ UNCHANGED tuiVars
       \/ Ends(loop.sub) /\ LoopFails

(* SubscriberOverflow: a notice, and a new subscription. *)
LoopOverflows ==
    /\ loop.pc = "receiving"
    /\ Overflow(loop.sub)
    /\ Emits([loop EXCEPT !.pc = "subscribing"])
    /\ UNCHANGED <<folded, recovered>>

(* dispatch_action(): the app reduces its own copy and the loop adopts it. *)
AppActs ==
    /\ loop.pc # "closed"
    /\ loop' = [loop EXCEPT !.seen = appSeen]
    /\ UNCHANGED <<busVars, appSeen, folded, recovered>>

(* close(): the task is cancelled wherever it waits. *)
LoopCloses ==
    /\ loop.pc # "closed"
    /\ loop' = [loop EXCEPT !.pc = "closed"]
    /\ IF loop.pc = "receiving" /\ sub[loop.sub].pc \in {"waiting", "woken"}
       THEN CancelReceive(loop.sub)
       ELSE UNCHANGED busVars
    /\ UNCHANGED <<appSeen, folded, recovered>>

LoopSteps ==
    \/ \E s \in Sub : LoopSubscribes(s)
    \/ SubscribeFails \/ LoopWakes \/ LoopReceives \/ LoopOverflows

Next ==
    \/ LoopSteps \/ AppActs \/ LoopCloses
    \/ Emit /\ UNCHANGED tuiVars
    \/ CloseBus /\ UNCHANGED tuiVars

Spec == Init /\ [][Next]_vars

(* The loop is a task of a running event loop. *)
FairSpec == Spec /\ WF_vars(LoopSteps)

----------------------------------------------------------------------------
TypeOK ==
    /\ BusTypeOK
    /\ loop \in Loop
    /\ appSeen \in Nat
    /\ folded \subseteq 1..sequence
    /\ recovered \subseteq 1..sequence

(* Through overflows, new subscriptions and replays, an event is folded at *)
(* most once and in order: a step folds only what lies after every event   *)
(* folded or skipped before.                                               *)
FoldedOnceInOrder ==
    [][\A n \in 1..MaxSequence :
          n \in folded' \ folded => \A m \in folded \cup recovered : m < n]_vars

(* The loop never falls behind for good: what was emitted is handled in    *)
(* the end, unless a fold fails or the bus or the loop is closed.          *)
CatchesUp ==
    \A n \in 1..MaxSequence :
        sequence = n ~> loop.sequence >= n \/ loop.retried \/ closed
                        \/ loop.pc \in {"dead", "closed"}

(* reducer.py: "A gap means the event stream is incomplete; the event loop *)
(* performs a recovery snapshot instead of folding the lone event."        *)
EveryGapIsRecovered == \A n \in 1..loop.sequence : n \in folded \cup recovered
=============================================================================
