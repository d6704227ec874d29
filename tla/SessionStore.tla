---------------------------- MODULE SessionStore ----------------------------
(***************************************************************************)
(* The record of a session and everybody who rewrites it: the commits of   *)
(* turns (engine/turns.py), kernel.sessions (services/sessions.py) and     *)
(* kernel.conversations (services/conversations.py) over the repository of *)
(* storage/repositories.py.                                                *)
(*                                                                         *)
(* Each of them reads the whole record, computes a new one and writes it   *)
(* back; the two services have a mutation lock each, turns have the lease  *)
(* of their session.  What they share is the operation lock of             *)
(* storage/database.py, an asyncio.Lock: it serves its waiters in the      *)
(* order they came, and a task that has its answer queues for its next     *)
(* operation without suspending in between.  An action is one operation    *)
(* under that lock with what its task does until it suspends again.        *)
(***************************************************************************)
EXTENDS Naturals, Sequences

CONSTANTS Turn, Edit, Session,
          SessionOf,      \* the session each turn and each edit is about
          NoTurn, NoRecord

Task == Turn \cup Edit

ASSUME StoreAssumption ==
    /\ SessionOf \in [Task -> Session]
    /\ Turn \cap Edit = {}
    /\ NoTurn \notin Turn

(* A record: the summarised turns in its leading system messages, then the *)
(* turns of the conversation.  Its name and dates are left out.            *)
Record == [summary : SUBSET Turn, turns : Seq(Turn)]
EmptyRecord == [summary |-> {}, turns |-> <<>>]
ASSUME RecordAssumption == NoRecord \notin Record

VARIABLES record,   \* the sessions table
          active,   \* SessionTurnSupervisor._active
          queue,    \* the tasks that hold and await the operation lock
          turn,     \* how far each turn is
          edit,     \* how far each call of a service is
          saved,    \* the turns whose commit has succeeded
          removed   \* the turns that an operation took out of a record

vars == <<record, active, queue, turn, edit, saved, removed>>

Kind == {"rename", "create", "delete", "clear", "undo", "compress"}
Working == {"loading", "writing"}

Init ==
    /\ record = [s \in Session |-> EmptyRecord]
    /\ active = [s \in Session |-> NoTurn]
    /\ queue = <<>>
    /\ turn = [t \in Turn |-> [pc |-> "idle", base |-> NoRecord, new |-> NoRecord,
                               tries |-> 0]]
    /\ edit = [e \in Edit |-> [pc |-> "idle", kind |-> "rename", seen |-> NoRecord,
                               new |-> NoRecord, under |-> {}]]
    /\ saved = {}
    /\ removed = {}

----------------------------------------------------------------------------
(* The turns a record still tells of. *)
Told(r) == IF r = NoRecord THEN {}
           ELSE r.summary \cup {r.turns[i] : i \in DOMAIN r.turns}

(* A compaction: the first n turns become a summary, the next d are cut.   *)
Compacted(r, n, d) ==
    [summary |-> r.summary \cup {r.turns[i] : i \in 1..n},
     turns |-> SubSeq(r.turns, n + d + 1, Len(r.turns))]

(* What a service makes of the record it has loaded; an empty set is its   *)
(* CONFLICT error.                                                         *)
Changed(kind, r) ==
    CASE kind = "rename"   -> {r}
      [] kind = "clear"    -> {[r EXCEPT !.turns = <<>>]}
      [] kind = "undo"     -> IF r.turns = <<>> THEN {}
                              ELSE {[r EXCEPT !.turns = SubSeq(@, 1, Len(@) - 1)]}
      [] kind = "compress" -> {Compacted(r, n, 0) : n \in DOMAIN r.turns}
      [] OTHER             -> {EmptyRecord}

(* The service whose mutation lock a call holds. *)
Service(kind) == IF kind \in {"rename", "create", "delete"}
                 THEN "sessions" ELSE "conversations"

Holds(x) == queue # <<>> /\ Head(queue) = x
Leave == queue' = Tail(queue)
QueueAgain(x) == queue' = Append(Tail(queue), x)

(* A write of x to a session: the edits that have read the record and not  *)
(* written yet are told of it (a history variable of theirs).              *)
Noted(x) ==
    [f \in Edit |->
        IF /\ f # x /\ edit[f].pc = "writing" /\ edit[f].seen # NoRecord
           /\ SessionOf[f] = SessionOf[x]
        THEN [edit[f] EXCEPT !.under = @ \cup {x}] ELSE edit[f]]

----------------------------------------------------------------------------
(* The services. *)

LockFree(kind) == \A f \in Edit : edit[f].pc \in Working =>
                                      Service(edit[f].kind) # Service(kind)

Enqueue(e, kind) ==
    /\ edit' = [edit EXCEPT ![e].kind = kind,
                            ![e].pc = IF kind \in {"create", "delete"}
                                      THEN "writing" ELSE "loading"]
    /\ queue' = Append(queue, e)

(* Mutant: the services do not ask for a running turn. *)
BeginUnchecked(e, kind) ==
    /\ edit[e].pc = "idle" /\ LockFree(kind)
    /\ Enqueue(e, kind)
    /\ UNCHANGED <<record, active, turn, saved, removed>>

(* Mutant: the mutation lock is not taken. *)
BeginUnlocked(e, kind) ==
    /\ edit[e].pc = "idle"
    /\ kind = "create" \/ active[SessionOf[e]] = NoTurn
    /\ Enqueue(e, kind)
    /\ UNCHANGED <<record, active, turn, saved, removed>>

(* A call takes its lock and, create() excepted, asks for a running turn.  *)
(* create() with the id of a session replaces it.                          *)
Begin(e, kind) ==
    /\ edit[e].pc = "idle" /\ LockFree(kind)
    /\ kind = "create" \/ active[SessionOf[e]] = NoTurn
    /\ Enqueue(e, kind)
    /\ UNCHANGED <<record, active, turn, saved, removed>>

Busy(e, kind) ==
    /\ edit[e].pc = "idle" /\ LockFree(kind)
    /\ kind # "create" /\ active[SessionOf[e]] # NoTurn
    /\ edit' = [edit EXCEPT ![e].kind = kind, ![e].pc = "failed"]
    /\ UNCHANGED <<record, active, queue, turn, saved, removed>>

(* The load of rename() and _mutate() with the transformation after it. *)
EditLoads(e) ==
    LET r == record[SessionOf[e]] IN
    /\ Holds(e) /\ edit[e].pc = "loading" /\ r # NoRecord
    /\ \E new \in Changed(edit[e].kind, r) :
          edit' = [edit EXCEPT ![e].pc = "writing", ![e].seen = r, ![e].new = new]
    /\ QueueAgain(e)
    /\ UNCHANGED <<record, active, turn, saved, removed>>

(* The operation reports an error, the session is missing, or there is     *)
(* nothing to undo or to compress.                                         *)
EditFails(e) ==
    /\ Holds(e) /\ edit[e].pc \in Working
    /\ edit' = [edit EXCEPT ![e].pc = "failed"]
    /\ Leave
    /\ UNCHANGED <<record, active, turn, saved, removed>>

(* What the write of an edit does: delete() removes the row, create() puts *)
(* a new record over it, the others write what they have computed.         *)
Applied(e) ==
    LET s == SessionOf[e]
        lost == IF edit[e].seen = NoRecord THEN Told(record[s])
                ELSE Told(edit[e].seen) \ Told(edit[e].new)
    IN /\ record' = [record EXCEPT ![s] = CASE edit[e].kind = "delete" -> NoRecord
                                            [] edit[e].kind = "create" -> EmptyRecord
                                            [] OTHER -> edit[e].new]
       /\ removed' = removed \cup lost

(* delete() of a missing session fails in EditFails. *)
EditWrites(e) ==
    /\ Holds(e) /\ edit[e].pc = "writing"
    /\ edit[e].kind = "delete" => record[SessionOf[e]] # NoRecord
    /\ Applied(e)
    /\ edit' = [Noted(e) EXCEPT ![e].pc = "ok"]
    /\ Leave
    /\ UNCHANGED <<active, turn, saved>>

(* The caller of a service is cancelled.  Waiting for the lock it gives up *)
(* its place (Skip); during its own write the effect may still happen, as  *)
(* the commit runs on the thread of the connection.                        *)
Abort(e) ==
    /\ edit[e].pc \in Working
    /\ \/ /\ Holds(e) /\ edit[e].pc = "writing"
          /\ Applied(e)
          /\ edit' = [Noted(e) EXCEPT ![e].pc = "failed"]
          /\ Leave
       \/ /\ edit' = [edit EXCEPT ![e].pc = "failed"]
          /\ UNCHANGED <<queue, record, removed>>
    /\ UNCHANGED <<active, turn, saved>>

----------------------------------------------------------------------------
(* Turns, as far as the record is concerned. *)

(* submit(): the lease of the session, then the load. *)
Submit(t) ==
    /\ turn[t].pc = "idle" /\ active[SessionOf[t]] = NoTurn
    /\ active' = [active EXCEPT ![SessionOf[t]] = t]
    /\ turn' = [turn EXCEPT ![t].pc = "loading"]
    /\ queue' = Append(queue, t)
    /\ UNCHANGED <<record, edit, saved, removed>>

Ended(t) ==
    /\ turn' = [turn EXCEPT ![t].pc = "done"]
    /\ active' = [active EXCEPT ![SessionOf[t]] = NoTurn]

TurnLoads(t) ==
    /\ Holds(t) /\ turn[t].pc = "loading"
    /\ \/ /\ record[SessionOf[t]] # NoRecord
          /\ turn' = [turn EXCEPT ![t].pc = "executing",
                                  ![t].base = record[SessionOf[t]]]
          /\ UNCHANGED active
       \/ Ended(t)
    /\ Leave
    /\ UNCHANGED <<record, edit, saved, removed>>

(* The caller of submit() is cancelled: nobody releases the lease. *)
AbortSubmit(t) ==
    /\ turn[t].pc = "loading"
    /\ turn' = [turn EXCEPT ![t].pc = "stuck"]
    /\ UNCHANGED <<record, active, queue, edit, saved, removed>>

(* _execute() up to its commit: the turn is the last of the history, and   *)
(* compactions may have summarised and cut the turns before it.            *)
Commit(t) ==
    LET h == [turn[t].base EXCEPT !.turns = Append(@, t)] IN
    /\ turn[t].pc = "executing"
    /\ \E n \in 0..Len(h.turns) : \E d \in 0..Len(h.turns) - n :
          /\ d = 0 \/ n + d < Len(h.turns)
          /\ turn' = [turn EXCEPT ![t].pc = "saving", ![t].new = Compacted(h, n, d)]
    /\ queue' = Append(queue, t)
    /\ UNCHANGED <<record, active, edit, saved, removed>>

(* A submission that fails after the load, or a turn that ends before its  *)
(* history is dirty.                                                       *)
EndUnsaved(t) ==
    /\ turn[t].pc = "executing"
    /\ Ended(t)
    /\ UNCHANGED <<record, queue, edit, saved, removed>>

TurnSaves(t) ==
    /\ Holds(t) /\ turn[t].pc = "saving"
    /\ record' = [record EXCEPT ![SessionOf[t]] = turn[t].new]
    /\ removed' = removed \cup (Told(turn[t].base) \ Told(turn[t].new))
    /\ saved' = saved \cup {t}
    /\ edit' = Noted(t)
    /\ Ended(t)
    /\ Leave

(* A commit that fails is tried once more when it was the one of the last  *)
(* round (_EngineFailure with a dirty history), else the turn ends.        *)
TurnSaveFails(t) ==
    /\ Holds(t) /\ turn[t].pc = "saving"
    /\ \/ /\ turn[t].tries = 0
          /\ turn' = [turn EXCEPT ![t].tries = 1]
          /\ QueueAgain(t)
          /\ UNCHANGED active
       \/ Ended(t) /\ Leave
    /\ UNCHANGED <<record, edit, saved, removed>>

(* The place of a task that was cancelled. *)
Skip ==
    /\ queue # <<>>
    /\ \/ Head(queue) \in Edit /\ edit[Head(queue)].pc = "failed"
       \/ Head(queue) \in Turn /\ turn[Head(queue)].pc = "stuck"
    /\ Leave
    /\ UNCHANGED <<record, active, turn, edit, saved, removed>>

----------------------------------------------------------------------------
EditNext(e) ==
    \/ \E kind \in Kind : Begin(e, kind) \/ Busy(e, kind)
    \/ EditLoads(e) \/ EditFails(e) \/ EditWrites(e) \/ Abort(e)

TurnNext(t) ==
    \/ Submit(t) \/ TurnLoads(t) \/ AbortSubmit(t)
    \/ Commit(t) \/ EndUnsaved(t) \/ TurnSaves(t) \/ TurnSaveFails(t)

Next == \/ \E e \in Edit : EditNext(e)
        \/ \E t \in Turn : TurnNext(t)
        \/ Skip

Spec == Init /\ [][Next]_vars

----------------------------------------------------------------------------
MaybeRecord == Record \cup {NoRecord}
TurnState == [pc : {"idle", "loading", "executing", "saving", "done", "stuck"},
              base : MaybeRecord, new : MaybeRecord, tries : 0..1]
EditState == [pc : {"idle", "failed", "ok"} \cup Working, kind : Kind,
              seen : MaybeRecord, new : MaybeRecord, under : SUBSET Task]

(* Types: a turn tries to save at most twice. *)
TypeOK ==
    /\ record \in [Session -> MaybeRecord]
    /\ active \in [Session -> Turn \cup {NoTurn}]
    /\ queue \in Seq(Task)
    /\ turn \in [Turn -> TurnState]
    /\ edit \in [Edit -> EditState]
    /\ saved \subseteq Turn
    /\ removed \subseteq Turn

(* A turn that was committed stays in the record of its session, in its    *)
(* history or in a summary, until an operation takes out what it has seen: *)
(* neither a turn nor an edit writes back a record older than a commit,    *)
(* although each of them reads, suspends and writes (sessions.py:82-91,    *)
(* conversations.py:118-130, turns.py:725-735).                            *)
SavedStaysUnlessRemoved ==
    \A t \in saved \ removed : t \in Told(record[SessionOf[t]])

(* Between the load and the save of an edit, only calls of the other       *)
(* service write to the session: no turn, since the edit asked for one and *)
(* the operation lock is fair, and no edit of the same service.            *)
OnlyTheOtherService ==
    \A e \in Edit : \A x \in edit[e].under :
        x \in Edit /\ Service(edit[x].kind) # Service(edit[e].kind)

(* What the read and the write of a rewrite do together: what the turns of *)
(* a session and the calls of both services make of its record, suspended  *)
(* between their loads and their saves, is what commits and edits in one   *)
(* step would make of it (turns.py:725-735, sessions.py:82-91,             *)
(* conversations.py:118-130, repositories.py).                             *)
Contract == INSTANCE StoreContract WITH told <- [s \in Session |-> Told(record[s])]
ImplementsStoreContract == Contract!StoreSpec

(* docs/kernel/public-api.md:61 and :71: rename, delete and the mutations  *)
(* of a conversation fail while the session has an active turn.            *)
EditsFailUnderATurn ==
    [][\A e \in Edit :
          /\ edit[e].pc = "writing" /\ edit'[e].pc = "ok"
          /\ edit[e].kind # "create"
          => active[SessionOf[e]] = NoTurn]_vars
=============================================================================
