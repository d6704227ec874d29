-------------------------- MODULE WorkspaceLeases --------------------------
(***************************************************************************)
(* The writer-preferring read/write leases of kairo_kernel/runtime/        *)
(* workspace.py.  Every method body runs under an asyncio.Condition whose  *)
(* lock is never held across an await other than Condition.wait, so one    *)
(* method call, or one pass through a wait loop, is one atomic action.     *)
(* A waiter is asleep until a notify_all puts it in woken; it then tests   *)
(* its condition again, at a time of the event loop's choosing.            *)
(***************************************************************************)
EXTENDS Naturals, FiniteSets

CONSTANTS Readers,      \* tasks that take read leases
          Writers,      \* tasks that take write leases or bump the revision
          Root,         \* workspace roots
          NoLease,      \* "no lease held"
          MaxRevision   \* bound: no revision beyond this one is produced

Task == Readers \cup Writers
Snapshot == [root : Root, revision : Nat]

ASSUME LeaseAssumption ==
    /\ IsFiniteSet(Task)
    /\ MaxRevision \in Nat
    /\ Root # {}
    /\ NoLease \notin Snapshot

VARIABLES pc,             \* where each task is in its lease protocol
          woken,          \* waiters notified and not yet run
          readers,        \* _readers
          writer,         \* _writer
          waitingWriters, \* _waiting_writers
          closed,         \* _closed
          snapshot,       \* _snapshot
          lease           \* the snapshot in the lease a task holds

vars == <<pc, woken, readers, writer, waitingWriters, closed, snapshot, lease>>

WriteWaiting == {"writeWait", "bumpWait"}
AnyWaiting == {"readWait"} \cup WriteWaiting
In(states) == {t \in Task : pc[t] \in states}

Init ==
    /\ pc = [t \in Task |-> "idle"]
    /\ woken = {}
    /\ readers = 0
    /\ writer = FALSE
    /\ waitingWriters = 0
    /\ closed = FALSE
    /\ snapshot \in [root : Root, revision : {0}]
    /\ lease = [t \in Task |-> NoLease]

----------------------------------------------------------------------------
(* Condition.notify_all by task t, which itself is not waiting afterwards. *)
NotifyOthers(t) == woken' = In(AnyWaiting) \ {t}

(* Mutants: a reader overlooks queued writers; a writer overlooks readers. *)
ReadBlockedByWriterOnly == ~closed /\ writer
WriteBlockedByWriterOnly == ~closed /\ writer

(* The conditions of the two wait loops. *)
ReadBlocked == ~closed /\ (writer \/ waitingWriters > 0)
WriteBlocked == ~closed /\ (writer \/ readers > 0)

Goto(t, state) == pc' = [pc EXCEPT ![t] = state]
Runnable(t, wait) == pc[t] = "idle" \/ (pc[t] = wait /\ t \in woken)

(* read(): the first test of the loop, or the test after a wake-up. *)
Read(t) ==
    /\ Runnable(t, "readWait")
    /\ \/ /\ ReadBlocked
          /\ Goto(t, "readWait")
          /\ UNCHANGED <<readers, lease>>
       \/ /\ closed
          /\ Goto(t, "idle")
          /\ UNCHANGED <<readers, lease>>
       \/ /\ ~closed /\ ~ReadBlocked
          /\ Goto(t, "reading")
          /\ readers' = readers + 1
          /\ lease' = [lease EXCEPT ![t] = snapshot]
    /\ woken' = woken \ {t}
    /\ UNCHANGED <<writer, waitingWriters, closed, snapshot>>

(* The writers that wait without t, which leaves the wait loop. *)
OthersWaiting(t) ==
    IF pc[t] = "idle" THEN waitingWriters ELSE waitingWriters - 1

(* write() finds its condition false and waits (again). *)
WriteSleep(t, wait) ==
    /\ Runnable(t, wait)
    /\ WriteBlocked
    /\ Goto(t, wait)
    /\ waitingWriters' = OthersWaiting(t) + 1
    /\ woken' = woken \ {t}
    /\ UNCHANGED <<readers, writer, closed, snapshot, lease>>

(* write() after close(): the RuntimeError leaves through finally. *)
WriteRefused(t, wait) ==
    /\ Runnable(t, wait)
    /\ closed
    /\ Goto(t, "idle")
    /\ waitingWriters' = OthersWaiting(t)
    /\ NotifyOthers(t)
    /\ UNCHANGED <<readers, writer, closed, snapshot, lease>>

(* write() grants the lease. *)
WriteGranted(t) ==
    /\ Runnable(t, "writeWait")
    /\ ~closed /\ ~WriteBlocked
    /\ Goto(t, "writing")
    /\ writer' = TRUE
    /\ waitingWriters' = OthersWaiting(t)
    /\ lease' = [lease EXCEPT ![t] = snapshot]
    /\ NotifyOthers(t)
    /\ UNCHANGED <<readers, closed, snapshot>>

Write(t) ==
    WriteSleep(t, "writeWait") \/ WriteRefused(t, "writeWait") \/ WriteGranted(t)

(* The revisions still to be produced by tasks inside bump_revision(). *)
HasRoom == snapshot.revision + Cardinality(In({"bumpWait"})) < MaxRevision

(* bump_revision(): once write() grants, update() and release() follow     *)
(* without a suspension.                                                   *)
BumpGranted(t) ==
    /\ Runnable(t, "bumpWait")
    /\ ~closed /\ ~WriteBlocked
    /\ Goto(t, "idle")
    /\ waitingWriters' = OthersWaiting(t)
    /\ snapshot' = [snapshot EXCEPT !.revision = @ + 1]
    /\ NotifyOthers(t)
    /\ UNCHANGED <<readers, writer, closed, lease>>

Bump(t) ==
    /\ pc[t] = "idle" => HasRoom
    /\ WriteSleep(t, "bumpWait") \/ WriteRefused(t, "bumpWait") \/ BumpGranted(t)

(* update(): only under an unreleased write lease; the root may change.    *)
Update(t, root) ==
    /\ pc[t] = "writing" /\ writer
    /\ HasRoom
    /\ snapshot' = [root |-> root, revision |-> snapshot.revision + 1]
    /\ UNCHANGED <<pc, woken, readers, writer, waitingWriters, closed, lease>>

(* release() and __aexit__, by way of _release(). *)
Release(t) ==
    /\ \/ /\ pc[t] = "writing"
          /\ writer' = FALSE
          /\ UNCHANGED readers
       \/ /\ pc[t] = "reading"
          /\ readers' = readers - 1
          /\ UNCHANGED writer
    /\ Goto(t, "idle")
    /\ lease' = [lease EXCEPT ![t] = NoLease]
    /\ NotifyOthers(t)
    /\ UNCHANGED <<waitingWriters, closed, snapshot>>

(* The task is cancelled inside Condition.wait.  A reader just leaves; a   *)
(* writer leaves through the finally clause of write().                    *)
CancelWait(t) ==
    /\ \/ /\ pc[t] = "readWait"
          /\ woken' = woken \ {t}
          /\ UNCHANGED waitingWriters
       \/ /\ pc[t] \in WriteWaiting
          /\ waitingWriters' = waitingWriters - 1
          /\ NotifyOthers(t)
    /\ Goto(t, "idle")
    /\ UNCHANGED <<readers, writer, closed, snapshot, lease>>

(* Mutant: close() notifies nobody. *)
CloseSilently ==
    /\ ~closed
    /\ closed' = TRUE
    /\ UNCHANGED <<pc, woken, readers, writer, waitingWriters, snapshot, lease>>

Close ==
    /\ ~closed
    /\ closed' = TRUE
    /\ woken' = In(AnyWaiting)
    /\ UNCHANGED <<pc, readers, writer, waitingWriters, snapshot, lease>>

Next ==
    \/ \E t \in Readers : Read(t)
    \/ \E t \in Writers : Write(t) \/ Bump(t)
    \/ \E t \in Writers, root \in Root : Update(t, root)
    \/ \E t \in Task : Release(t) \/ CancelWait(t)
    \/ Close

Spec == Init /\ [][Next]_vars

(* The event loop runs every task that was woken. *)
Resume(t) == pc[t] # "idle" /\ (Read(t) \/ Write(t) \/ Bump(t))

(* Holders release, since leases are used as `async with` or in a          *)
(* try/finally.  Nobody has to ask for a lease.                            *)
HoldersRelease == \A t \in Task : WF_vars(Release(t))

----------------------------------------------------------------------------
(* The type of every variable. *)
TypeOK ==
    /\ pc \in [Task -> {"idle", "reading", "writing"} \cup AnyWaiting]
    /\ woken \in SUBSET Task
    /\ readers \in Nat
    /\ writer \in BOOLEAN
    /\ waitingWriters \in Nat
    /\ closed \in BOOLEAN
    /\ snapshot \in Snapshot
    /\ lease \in [Task -> Snapshot \cup {NoLease}]

(* The three counters say exactly who holds and who queues, whatever mix   *)
(* of grants, cancellations inside write() and refusals after close() came *)
(* before; and a writer is alone.                                          *)
CountersMatch ==
    /\ readers = Cardinality(In({"reading"}))
    /\ waitingWriters = Cardinality(In(WriteWaiting))
    /\ writer <=> In({"writing"}) # {}

Exclusion ==
    \A t \in In({"writing"}) :
        In({"reading"}) = {} /\ In({"writing"}) = {t}

(* "Keep workspace identity stable for readers": the root and the revision *)
(* a reader got with its lease are still the current ones while it holds.  *)
StableIdentity == \A t \in In({"reading"}) : lease[t] = snapshot

(* Nobody sleeps through its chance: a waiter that has not been notified   *)
(* since its last test has a condition that still makes it wait.           *)
NoLostWakeup ==
    \A t \in In(AnyWaiting) \ woken :
        IF pc[t] = "readWait" THEN ReadBlocked ELSE WriteBlocked

(* A read lease is never granted past a writer that queues.                *)
WriterPreferred ==
    [][\A t \in Task :
          pc[t] # "reading" /\ pc'[t] = "reading" => In(WriteWaiting) = {}]_vars

(* Readers cannot starve a queued writer: if holders release, it leaves    *)
(* the queue, whatever stream of readers comes and goes (checked with one  *)
(* writer, since writers overtake each other).                             *)
WriterServed ==
    HoldersRelease =>
        \A t \in Writers : pc[t] \in WriteWaiting ~> pc[t] \notin WriteWaiting

(* close() lets every waiter go, and admits nobody afterwards, even when   *)
(* a holder never releases.                                                *)
CloseDrains == closed ~> [](In(AnyWaiting) = {})
=============================================================================
