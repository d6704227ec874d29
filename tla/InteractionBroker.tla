------------------------- MODULE InteractionBroker --------------------------
(***************************************************************************)
(* The broker of questions to the user: kairo_kernel/runtime/interactions. *)
(*                                                                         *)
(* request() suspends once, in the race of its future, the cancellation    *)
(* token and the expiry; everything before and after that wait, and every  *)
(* other method, runs without suspending and is one action.  Between the   *)
(* moment one of the three is there and the moment the task of request()   *)
(* resumes, anything may happen: a second answer, an expiry, a shutdown.   *)
(***************************************************************************)
EXTENDS Naturals, Sequences, SequencesExt

CONSTANTS Request,   \* calls of request()
          Id,        \* interaction ids
          IdOf,      \* the id each call is made with
          Answer,    \* the actions offered
          Safe,      \* the safe default, never an approval
          Retention  \* terminal_retention

VARIABLES call,     \* the coroutine of each request() and its future
          pending,  \* _pending: the calls that have an entry
          terminal, \* _terminal
          order,    \* _terminal_order
          closed,   \* _closed
          raised    \* respond() has raised InvalidStateError

vars == <<call, pending, terminal, order, closed, raised>>

Unset == "unset"
Gone == "gone"  \* the future is cancelled
NoState == "none"

ASSUME BrokerAssumption ==
    /\ IdOf \in [Request -> Id]
    /\ Safe \in Answer
    /\ Answer \cap {Unset, Gone} = {}
    /\ Retention \in Nat \ {0}

(* due: expires_at has passed; accepted: the answer whose respond()        *)
(* returned a receipt, which the code does not keep.                       *)
Call == [pc : {"idle", "refused", "waiting", "returned", "aborted"},
         future : Answer \cup {Unset, Gone},
         token : BOOLEAN,
         due : BOOLEAN,
         result : Answer \cup {Unset},
         accepted : Answer \cup {Unset}]

NewCall == [pc |-> "idle", future |-> Unset, token |-> FALSE, due |-> FALSE,
            result |-> Unset, accepted |-> Unset]

(* What the memory holds of an id. *)
Memories == {NoState, "expired", "cancelled", "resolved", "shutdown"}

Init ==
    /\ call = [r \in Request |-> NewCall]
    /\ pending = {}
    /\ terminal = [i \in Id |-> NoState]
    /\ order = <<>>
    /\ closed = FALSE
    /\ raised = FALSE

----------------------------------------------------------------------------
Pending(i) == \E r \in pending : IdOf[r] = i

(* pending.pop(id, None) *)
Without(i) == {r \in pending : IdOf[r] # i}

(* call, with the future of the entry of id i cancelled if it is not done. *)
(* The entry may be one of a later call that uses the id again.            *)
Dropped(i) ==
    [s \in Request |->
        IF s \in pending /\ IdOf[s] = i /\ call[s].future = Unset
        THEN [call[s] EXCEPT !.future = Gone] ELSE call[s]]

(* _remember_terminal(): the oldest id is forgotten beyond the retention.  *)
Remember(memory, i, state) ==
    LET queue == IF memory.terminal[i] = NoState THEN Append(memory.order, i)
                 ELSE memory.order
        last == [memory.terminal EXCEPT ![i] = state]
    IN  IF Len(queue) <= Retention THEN [terminal |-> last, order |-> queue]
        ELSE [terminal |-> [last EXCEPT ![Head(queue)] = NoState], order |-> Tail(queue)]

Memory == [terminal |-> terminal, order |-> order]
Keeps(memory) == terminal' = memory.terminal /\ order' = memory.order

(* request() up to its wait: a closed broker or a used id refuses.         *)
Ask(r) ==
    LET refused == closed \/ Pending(IdOf[r]) \/ terminal[IdOf[r]] # NoState
    IN  /\ call[r].pc = "idle"
        /\ call' = [call EXCEPT ![r].pc = IF refused THEN "refused" ELSE "waiting"]
        /\ pending' = IF refused THEN pending ELSE pending \cup {r}
        /\ UNCHANGED <<terminal, order, closed, raised>>

Cancel(r) ==
    /\ call[r].pc = "waiting" /\ ~call[r].token
    /\ call' = [call EXCEPT ![r].token = TRUE]
    /\ UNCHANGED <<pending, terminal, order, closed, raised>>

Expire(r) ==
    /\ call[r].pc = "waiting" /\ ~call[r].due
    /\ call' = [call EXCEPT ![r].due = TRUE]
    /\ UNCHANGED <<pending, terminal, order, closed, raised>>

(* Mutant: a second answer replaces the first. *)
RespondAgain(r, a) ==
    /\ ~closed
    /\ r \in pending
    /\ ~call[r].due
    /\ call' = [call EXCEPT ![r].future = a, ![r].accepted = a]
    /\ UNCHANGED <<pending, terminal, order, closed, raised>>

(* respond() with a matching turn and an offered action; any other answer, *)
(* and one to an id that is not pending, changes nothing.                  *)
Respond(r, a) ==
    /\ ~closed
    /\ r \in pending
    /\ ~call[r].due
    /\ call[r].future = Unset
    /\ call' = [call EXCEPT ![r].future = a, ![r].accepted = a]
    /\ UNCHANGED <<pending, terminal, order, closed, raised>>

(* respond() after expires_at: the safe answer is set and the id is        *)
(* remembered, unless set_result() raises because an answer is there.      *)
RespondLate(r) ==
    /\ ~closed
    /\ r \in pending
    /\ call[r].due
    /\ pending' = Without(IdOf[r])
    /\ \/ /\ call[r].future = Unset
          /\ call' = [call EXCEPT ![r].future = Safe]
          /\ Keeps(Remember(Memory, IdOf[r], "expired"))
          /\ UNCHANGED raised
       \/ /\ call[r].future # Unset
          /\ raised' = TRUE
          /\ UNCHANGED <<call, terminal, order>>
    /\ UNCHANGED closed

(* The three the wait of request() is for. *)
Ready(r) == call[r].future # Unset \/ call[r].token \/ call[r].due

Returns(r, answer) ==
    call' = [Dropped(IdOf[r]) EXCEPT ![r].pc = "returned", ![r].result = answer]

(* finally: an entry that is still pending is dropped and remembered.      *)
Finally(r) ==
    /\ pending' = Without(IdOf[r])
    /\ IF Pending(IdOf[r]) THEN Keeps(Remember(Memory, IdOf[r], "resolved"))
       ELSE UNCHANGED <<terminal, order>>

(* A future that is done wins the race. *)
ReturnAnswer(r) ==
    /\ call[r].pc = "waiting" /\ call[r].future \in Answer
    /\ Returns(r, call[r].future)
    /\ Finally(r)
    /\ UNCHANGED <<closed, raised>>

ReturnSafe(r) ==
    /\ call[r].pc = "waiting" /\ call[r].future = Unset
    /\ call[r].token \/ call[r].due
    /\ Returns(r, Safe)
    /\ pending' = Without(IdOf[r])
    /\ Keeps(Remember(Memory, IdOf[r], IF call[r].token THEN "cancelled" ELSE "expired"))
    /\ UNCHANGED <<closed, raised>>

Aborts(r) ==
    /\ call' = [Dropped(IdOf[r]) EXCEPT ![r].pc = "aborted"]
    /\ Finally(r)
    /\ UNCHANGED <<closed, raised>>

(* future.result() of a cancelled future raises CancelledError. *)
RaiseGone(r) == call[r].pc = "waiting" /\ call[r].future = Gone /\ Aborts(r)

(* The task of request() is cancelled while it waits. *)
AbortCall(r) == call[r].pc = "waiting" /\ Aborts(r)

(* shutdown() goes through the entries in the order of the dict, which is  *)
(* left open: it decides only which of them a full memory forgets.         *)
RememberAll ==
    \E queue \in SetToSeqs(pending) :
        Keeps(FoldLeft(LAMBDA memory, r : Remember(memory, IdOf[r], "shutdown"),
                       Memory, queue))

(* Mutant: shutdown forgets the futures. *)
ShutdownSilently ==
    /\ ~closed
    /\ closed' = TRUE
    /\ pending' = {}
    /\ RememberAll
    /\ UNCHANGED <<call, raised>>

(* shutdown() answers what is unanswered with the safe default.            *)
Shutdown ==
    /\ ~closed
    /\ closed' = TRUE
    /\ pending' = {}
    /\ call' = [r \in Request |->
          IF r \in pending /\ call[r].future = Unset
          THEN [call[r] EXCEPT !.future = Safe] ELSE call[r]]
    /\ RememberAll
    /\ UNCHANGED raised

Resume(r) == ReturnAnswer(r) \/ ReturnSafe(r) \/ RaiseGone(r)

Next ==
    \/ Shutdown
    \/ \E r \in Request :
          \/ Ask(r) \/ Cancel(r) \/ Expire(r) \/ Resume(r) \/ AbortCall(r)
          \/ RespondLate(r)
          \/ \E a \in Answer : Respond(r, a)

Spec == Init /\ [][Next]_vars

(* The tasks that wait are resumed. *)
FairSpec == Spec /\ \A r \in Request : WF_vars(Resume(r))

----------------------------------------------------------------------------
TypeOK ==
    /\ call \in [Request -> Call]
    /\ pending \subseteq Request
    /\ terminal \in [Id -> Memories]
    /\ order \in Seq(Id) /\ Len(order) <= Retention
    /\ closed \in BOOLEAN /\ raised \in BOOLEAN

(* A receipt is kept: whoever was told that an answer was accepted sees    *)
(* request() return it, whatever cancellation, expiry, late answer or      *)
(* shutdown comes in between; and nothing else is ever returned but the    *)
(* safe default.                                                           *)
AcceptedIsReturned ==
    \A r \in Request :
        call[r].pc = "returned" =>
            call[r].result = IF call[r].accepted # Unset THEN call[r].accepted ELSE Safe

(* Every entry of _pending belongs to a call that still waits, and an id   *)
(* is never pending twice or pending and over at once: nothing leaks, and  *)
(* no answer reaches a call that has gone.                                 *)
PendingIsAlive ==
    /\ \A r \in pending : call[r].pc = "waiting"
    /\ \A q, r \in pending : IdOf[q] = IdOf[r] => q = r
    /\ \A r \in pending : terminal[IdOf[r]] = NoState

(* A call returns once it is answered, cancelled, expired or shut down: a  *)
(* turn that waits for its user can always be stopped.                     *)
WaitEnds ==
    \A r \in Request :
        call[r].pc = "waiting" /\ (Ready(r) \/ closed)
            ~> call[r].pc \in {"returned", "aborted"}

(* What a call is to the contract: its phase, and the answer it ends or    *)
(* would end with.                                                         *)
PhaseOf(c) ==
    IF c.pc \in {"idle", "refused"} THEN "idle"
    ELSE IF c.pc # "waiting" THEN "over"
    ELSE IF c.accepted = Unset THEN "open" ELSE "accepted"

AnswerOf(c) ==
    IF c.pc = "returned" THEN c.result
    ELSE IF c.accepted = Unset THEN Safe ELSE c.accepted

question == [r \in Request |-> [phase |-> PhaseOf(call[r]), with |-> AnswerOf(call[r])]]

Contract == INSTANCE InteractionContract

(* The broker implements the contract: one accepted answer at most, and it *)
(* is what the question ends with.                                         *)
ImplementsContract == Contract!ContractSpec

(* runtime.md: "Late, duplicate, mismatched-turn, unoffered-action, and    *)
(* empty-text responses return typed errors."                              *)
RespondNeverRaises == ~raised
=============================================================================
