------------------------------- MODULE TuiApp -------------------------------
(***************************************************************************)
(* The terminal application over its event loop: the submissions, the stop *)
(* button and the modal dialogs of frontends/tui/kairo_tui/app.py, the     *)
(* workers that call the kernel (controller.py) and the state they fold    *)
(* their answers into (reducer.py).  The text of a draft is left out: a    *)
(* submission under way is counted.                                        *)
(*                                                                         *)
(* The kernel is the environment: its turns run, ask for approval, and     *)
(* end; what it publishes arrives in order (feed), or is lost and followed *)
(* by a reload, as module TuiEventLoop has it.  A worker that awaits the   *)
(* kernel is a job: whatever happens meanwhile, it continues with the      *)
(* state it then finds.                                                    *)
(***************************************************************************)
EXTENDS Integers, SequencesExt

CONSTANTS Turn, None,
          MaxSubmits, \* submissions under way (a bound)
          MaxFeed,    \* events published and not folded (a bound)
          MaxExtra    \* gaps, connects asked for and pickers together (a bound)

VARIABLES running,   \* kernel: turns accepted and not ended
          ended,     \* kernel: turns that ended
          asks,      \* kernel: each turn's request: none, open, answered, past
          feed,      \* kernel: events published and not folded
          lost,      \* events lost so far
          view,      \* state.turns: none, running, terminal
          stopping,  \* state.stopping_turn_id
          held,      \* the same in the event loop's own copy of the state
          pending,   \* state.pending_interactions
          ui,        \* overlay, the app's two flags, the screens above the first,
                     \* and (history) astray: a screen or a flag was taken for another's
          submits,   \* jobs: how many drafts are in submit_draft()
          answers,   \* jobs: per request, a response is on its way
          clicked,   \* messages of a screen on their way: "cancel", "choice"
          saving,    \* job: a connect save under way
          reloading, \* job: a reload after a gap
          extras,    \* connects asked for and pickers opened so far
          revived    \* history: the loop's copy put back a stop the app had cleared

kernelVars == <<running, ended, asks, feed, lost>>
stateVars  == <<view, stopping, held, pending, ui>>
jobVars    == <<submits, answers, clicked, saving, reloading>>
pastVars   == <<extras, revived>>
vars       == <<kernelVars, stateVars, jobVars, pastVars>>

Init == /\ running = {} /\ ended = {} /\ asks = [t \in Turn |-> "none"]
        /\ feed = <<>> /\ lost = 0
        /\ view = [t \in Turn |-> "none"] /\ stopping = None /\ held = None /\ pending = <<>>
        /\ ui = [overlay |-> FALSE, connectOpen |-> FALSE, interactionOpen |-> FALSE,
                 screens |-> <<>>, astray |-> FALSE]
        /\ submits = 0 /\ answers = [t \in Turn |-> FALSE] /\ clicked = {}
        /\ saving = "no" /\ reloading = FALSE
        /\ extras = 0 /\ revived = FALSE

-----------------------------------------------------------------------------
(* The modal screens: the connect dialog, the dialog of a request, and the  *)
(* pickers ("picker": command palette, session and model picker).           *)
(* pop_screen() takes whichever is on top, meant or not.                    *)

Top(u) == IF u.screens = <<>> THEN None ELSE Last(u.screens)
Pushed(u, screen) == [u EXCEPT !.screens = Append(@, screen)]
Popped(u, meant)  == [u EXCEPT !.screens = IF @ = <<>> THEN @ ELSE Front(@),
                               !.astray = @ \/ Top(u) \notin meant]

(* The flag of a request goes with the connect dialog, the request does not. *)
CloseConnect(u) == IF u.connectOpen
                   THEN Popped([u EXCEPT !.connectOpen = FALSE, !.interactionOpen = FALSE,
                                         !.astray = @ \/ u.interactionOpen], {"connect"})
                   ELSE u
OpenConnect(u)  == IF u.connectOpen
                   THEN u
                   ELSE Pushed([u EXCEPT !.connectOpen = TRUE], "connect")

(* Mutant: a dialog that is up does not keep the next one back. *)
SyncStacked(u, requests) ==
  CASE requests = <<>> /\ u.interactionOpen -> Popped([u EXCEPT !.interactionOpen = FALSE], Turn)
    [] requests # <<>> /\ Top(u) # Head(requests)
                                            -> Pushed([u EXCEPT !.interactionOpen = TRUE], Head(requests))
    [] OTHER                                -> u

SyncInteraction(u, requests) ==
  CASE requests = <<>> /\ u.interactionOpen  -> Popped([u EXCEPT !.interactionOpen = FALSE], Turn)
    [] requests # <<>> /\ ~u.interactionOpen -> Pushed([u EXCEPT !.interactionOpen = TRUE], Head(requests))
    [] OTHER                                 -> u

(* _refresh_views: what every dispatched action and emitted state ends in.  *)
Refreshed(u, requests) == SyncInteraction(IF u.overlay THEN OpenConnect(u) ELSE CloseConnect(u), requests)

(* dispatch_action: the loop takes over the state of the app. *)
Dispatch(u) == held' = stopping' /\ ui' = Refreshed(u, pending')

(* _on_loop_emit: the app takes over the state of the loop, and clears the   *)
(* stop of an ended turn in its own copy only.                              *)
Emit(over) == /\ stopping' = IF held \in over THEN None ELSE held
              /\ revived' = (revived \/ (stopping = None /\ stopping' # None))
              /\ ui' = Refreshed(ui, pending')
              /\ UNCHANGED held

(* A turn asks once, so its request is there at most once. *)
Dismissed(requests, t) ==
  IF t \notin ToSet(requests) THEN requests
  ELSE RemoveAt(requests, CHOOSE i \in DOMAIN requests : requests[i] = t)

Extra == extras + lost < MaxExtra /\ extras' = extras + 1
Publish(kind, t) == Len(feed) < MaxFeed /\ feed' = Append(feed, <<kind, t>>)

-----------------------------------------------------------------------------
(* The draft goes to the kernel. *)

Idle(u) == u.screens = <<>>   \* a modal screen takes the keys

Enter == /\ Idle(ui) /\ submits < MaxSubmits
         /\ submits' = submits + 1
         /\ UNCHANGED <<view, stopping, pending>>
         /\ Dispatch(ui)
         /\ UNCHANGED <<kernelVars, answers, clicked, saving, reloading, pastVars>>

(* The kernel accepts: DraftAccepted, TurnStarted, SessionActivated. *)
Accepted(t) == /\ submits > 0 /\ t \notin running \cup ended
               /\ submits' = submits - 1
               /\ running' = running \cup {t}
               /\ Publish("running", t)
               /\ UNCHANGED <<view, stopping, pending>>
               /\ Dispatch(ui)
               /\ UNCHANGED <<ended, asks, lost, answers, clicked, saving, reloading, pastVars>>

Rejected == /\ submits > 0
            /\ submits' = submits - 1
            /\ UNCHANGED <<view, stopping, pending>>
            /\ Dispatch(ui)
            /\ UNCHANGED <<kernelVars, answers, clicked, saving, reloading, pastVars>>

(* No profile resolves: the draft is parked behind the connect dialog. *)
NeedsProfile == /\ Extra
                /\ submits > 0
                /\ submits' = submits - 1
                /\ UNCHANGED <<view, stopping, pending>>
                /\ Dispatch([ui EXCEPT !.overlay = TRUE])
                /\ UNCHANGED <<kernelVars, answers, clicked, saving, reloading, revived>>

ConnectCancelled == /\ "cancel" \in clicked /\ clicked' = clicked \ {"cancel"}
                    /\ UNCHANGED <<view, stopping, pending>>
                    /\ Dispatch([CloseConnect(ui) EXCEPT !.overlay = FALSE])
                    /\ UNCHANGED <<kernelVars, submits, answers, saving, reloading, pastVars>>

SavePressed(send) == /\ Top(ui) = "connect" /\ saving = "no"
                     /\ saving' = IF send THEN "send" ELSE "save"
                     /\ UNCHANGED <<kernelVars, stateVars, submits, answers, clicked, reloading, pastVars>>

(* configure() is back: the dialog is closed, whatever is on top by now, and *)
(* what is parked, or was submitted last, goes to the kernel if asked for.   *)
Saved == /\ saving # "no"
         /\ saving' = "no"
         /\ submits' \in IF saving = "send" /\ submits < MaxSubmits
                        THEN {submits, submits + 1} ELSE {submits}
         /\ UNCHANGED <<view, stopping, pending>>
         /\ Dispatch([CloseConnect(ui) EXCEPT !.overlay = FALSE])
         /\ UNCHANGED <<kernelVars, answers, clicked, reloading, pastVars>>

SaveFails == /\ saving # "no"
             /\ saving' = "no"
             /\ UNCHANGED <<kernelVars, stateVars, submits, answers, clicked, reloading, pastVars>>

-----------------------------------------------------------------------------
(* A palette or a picker, from a worker and so over whatever is there by     *)
(* then; its own escape; and what a screen posts, handled in its turn.       *)

OpenPicker == /\ Extra
              /\ ui' = Pushed(ui, "picker")
              /\ UNCHANGED <<kernelVars, view, stopping, held, pending, jobVars,
                             revived>>

ClosePicker == /\ Top(ui) = "picker"
               /\ ui' = Popped(ui, {"picker"})
               /\ UNCHANGED <<kernelVars, view, stopping, held, pending, jobVars, pastVars>>

Click(message) == /\ Top(ui) = (IF message = "cancel" THEN "connect" ELSE "picker")
                  /\ clicked' = clicked \cup {message}
                  /\ UNCHANGED <<kernelVars, stateVars, submits, answers, saving, reloading, pastVars>>

(* A choice closes the picker, and then starts a worker, dispatches an       *)
(* action, or asks for the connect dialog.                                   *)
Chosen ==
  /\ "choice" \in clicked /\ clicked' = clicked \ {"choice"}
  /\ UNCHANGED <<view, stopping, pending>>
  /\ LET u == Popped(ui, {"picker"})
     IN \/ ui' = u /\ UNCHANGED held
        \/ Dispatch(u)
        \/ Dispatch([u EXCEPT !.overlay = TRUE])
  /\ UNCHANGED <<kernelVars, submits, answers, saving, reloading, pastVars>>

(* A key in the composer, or a worker of no other interest, dispatches. *)
OtherWorker == /\ UNCHANGED <<view, stopping, pending>>
               /\ Dispatch(ui)
               /\ UNCHANGED <<kernelVars, jobVars, pastVars>>

-----------------------------------------------------------------------------
(* The stop button: one request at a time, for a turn seen running.  The    *)
(* cancellation it sends makes the turn end, which a turn may do anyway.    *)

(* Mutant: the turn on screen is not asked whether it runs. *)
StopPressedLate(t) == /\ stopping = None /\ view[t] # "none"
                      /\ stopping' = t
                      /\ UNCHANGED <<view, pending>>
                      /\ Dispatch(ui)
                      /\ UNCHANGED <<kernelVars, jobVars, pastVars>>

StopPressed(t) == /\ stopping = None /\ view[t] = "running"
                  /\ stopping' = t
                  /\ UNCHANGED <<view, pending>>
                  /\ Dispatch(ui)
                  /\ UNCHANGED <<kernelVars, jobVars, pastVars>>

-----------------------------------------------------------------------------
(* The kernel. *)

KernelAsks(t) == /\ t \in running /\ asks[t] = "none"
                 /\ asks' = [asks EXCEPT ![t] = "open"]
                 /\ Publish("requested", t)
                 /\ UNCHANGED <<running, ended, lost, stateVars, jobVars, pastVars>>

(* The request expires, or the waiting turn is told of its answer. *)
KernelSettles(t) == /\ asks[t] \in {"open", "answered"}
                    /\ asks' = [asks EXCEPT ![t] = "past"]
                    /\ Publish("resolved", t)
                    /\ UNCHANGED <<running, ended, lost, stateVars, jobVars, pastVars>>

KernelEnds(t) == /\ t \in running /\ asks[t] \in {"none", "past"}
                 /\ running' = running \ {t} /\ ended' = ended \cup {t}
                 /\ Publish("terminal", t)
                 /\ UNCHANGED <<asks, lost, stateVars, jobVars, pastVars>>

-----------------------------------------------------------------------------
(* The event loop hands the folded state over. *)

Fold == /\ feed # <<>>
        /\ LET kind == Head(feed)[1]
               t    == Head(feed)[2]
           IN /\ view' = CASE kind = "terminal"                            -> [view EXCEPT ![t] = "terminal"]
                           [] kind = "running" /\ view[t] # "terminal"     -> [view EXCEPT ![t] = "running"]
                           [] OTHER                                        -> view
              /\ pending' = CASE kind = "requested" -> Append(pending, t)
                              [] kind = "resolved"  -> Dismissed(pending, t)
                              [] OTHER              -> pending
              /\ Emit(IF kind = "terminal" /\ view[t] # "terminal" THEN {t} ELSE {})
        /\ feed' = Tail(feed)
        /\ UNCHANGED <<running, ended, asks, lost, jobVars, extras>>

(* Any other event, and the notices of the loop itself. *)
OtherEvent == /\ UNCHANGED <<view, pending>>
              /\ Emit({})
              /\ UNCHANGED <<kernelVars, jobVars, extras>>

(* A gap: the loop says so, skips what it missed and asks for a reload. *)
Gap == /\ feed # <<>> /\ extras + lost < MaxExtra
       /\ feed' = Tail(feed) /\ lost' = lost + 1
       /\ UNCHANGED <<view, pending>>
       /\ Emit({})
       /\ reloading' = TRUE
       /\ UNCHANGED <<running, ended, asks, submits, answers, clicked, saving, extras>>

(* The reload brings the turns that are active now.  Neither the requests   *)
(* that wait nor the end of a turn it misses come back with it.             *)
Reload == /\ reloading
          /\ reloading' = FALSE
          /\ view' = [t \in Turn |-> IF t \in running THEN "running" ELSE view[t]]
          /\ UNCHANGED <<stopping, pending>>
          /\ Dispatch(ui)
          /\ UNCHANGED <<kernelVars, submits, answers, clicked, saving, pastVars>>

-----------------------------------------------------------------------------
(* The answer to a request: the button starts a worker, and the worker asks  *)
(* the broker.  The broker never suspends once it looks at the request, so   *)
(* its answer and the end of the dialog are one step.                        *)

Press(t) == /\ Top(ui) = t /\ ~answers[t]
            /\ answers' = [answers EXCEPT ![t] = TRUE]
            /\ UNCHANGED <<kernelVars, stateVars, submits, clicked, saving, reloading, pastVars>>

(* A request that is settled already leaves the dialog up, with an error.   *)
Respond(t) == /\ answers[t]
              /\ answers' = [answers EXCEPT ![t] = FALSE]
              /\ \/ /\ asks[t] = "open"
                    /\ asks' = [asks EXCEPT ![t] = "answered"]
                    /\ ui' = IF ui.interactionOpen
                             THEN Popped([ui EXCEPT !.interactionOpen = FALSE], {t})
                             ELSE ui
                 \/ asks[t] # "open" /\ UNCHANGED <<asks, ui>>
              /\ UNCHANGED <<running, ended, feed, lost, view, stopping, held, pending,
                             submits, clicked, saving, reloading, pastVars>>

-----------------------------------------------------------------------------
User   == \/ Enter \/ OpenPicker \/ ClosePicker
          \/ \E message \in {"cancel", "choice"} : Click(message)
          \/ \E send \in BOOLEAN : SavePressed(send)
          \/ \E t \in Turn : StopPressed(t)
Job    == \/ Rejected \/ NeedsProfile \/ \E t \in Turn : Accepted(t)
          \/ Saved \/ SaveFails \/ Reload \/ ConnectCancelled \/ Chosen
Kernel == \E t \in Turn : KernelAsks(t) \/ KernelSettles(t) \/ KernelEnds(t)
Next   == \/ User \/ Job \/ Kernel \/ Fold \/ Gap \/ OtherWorker \/ OtherEvent
          \/ \E t \in Turn : Press(t) \/ Respond(t)

Spec == Init /\ [][Next]_vars

(* Workers and the event loop are scheduled, and the kernel passes an       *)
(* answer on; what nobody answers stays open.                               *)
FairSpec == /\ Spec /\ WF_vars(Job) /\ WF_vars(Fold)
            /\ \A t \in Turn : /\ WF_vars(Respond(t))
                               /\ WF_vars(asks[t] = "answered" /\ KernelSettles(t))

-----------------------------------------------------------------------------
(* The app's two flags say which dialogs are up, and there is at most one   *)
(* of either kind: however answers, expiries, new requests, saves and       *)
(* pickers stack their screens, none is opened twice or taken down without  *)
(* its flag - as long as every pop_screen() has found on top the screen it  *)
(* was meant for, which nothing in app.py makes sure of.                    *)
Requests == {i \in DOMAIN ui.screens : ui.screens[i] \in Turn}
Connects == {i \in DOMAIN ui.screens : ui.screens[i] = "connect"}
OneModal == ui.astray \/ /\ ui.interactionOpen <=> Requests # {}
                         /\ ui.connectOpen <=> Connects # {}
                         /\ \A i, j \in Requests : i = j
                         /\ \A i, j \in Connects : i = j

(* The stop button comes back: while it waits, its turn is still running,   *)
(* or its end is on the way - unless an event was lost, for no reload       *)
(* brings the end of a turn back, or the loop has put back from its own     *)
(* copy what the app had cleared; the button then stays dead for good.      *)
StopIsReleased == stopping # None =>
  stopping \in running \/ <<"terminal", stopping>> \in ToSet(feed) \/ lost > 0 \/ revived

(* frontends/tui/tests/test_interactions.py: resolve the first request, and *)
(* the second opens next.                                                   *)
NextOpens == \A t \in Turn :
  (pending # <<>> /\ Head(pending) = t /\ asks[t] = "open" /\ lost = 0)
     ~> (t \in ToSet(ui.screens) \/ asks[t] # "open" \/ lost > 0)
=============================================================================
