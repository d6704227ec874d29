------------------------------ MODULE Database ------------------------------
(***************************************************************************)
(* SQLiteDatabase of storage/database.py: one shared connection, opened    *)
(* on demand, and one operation lock that serialises reads and writes.     *)
(* The repositories over it (storage/repositories.py) turn an Exception    *)
(* of the operation into a failure; a cancelled caller gets its            *)
(* CancelledError.  A write stands for any body of them: it is staged by   *)
(* the body and durable once committed.                                    *)
(***************************************************************************)
EXTENDS Naturals, Sequences

CONSTANTS Reader, Writer

VARIABLES connected,  \* _connection is not None
          lock,       \* holder and waiters of _operation_lock, in order
          tx,         \* the connection is inside a transaction
          staged,     \* the writes in that transaction
          durable,    \* the writes in the file
          access      \* how far each operation is

vars == <<connected, lock, tx, staged, durable, access>>

Task == Reader \cup Writer
Over == {"ok", "failed", "cancelled"}

Init ==
    /\ connected = FALSE /\ lock = <<>> /\ tx = FALSE
    /\ staged = {} /\ durable = {}
    /\ access = [t \in Task |-> [pc |-> "idle", seen |-> {}]]

At(t, pc) == access[t].pc = pc
Go(t, pc) == access' = [access EXCEPT ![t].pc = pc]
Release(t, pc) == Go(t, pc) /\ lock' = Tail(lock)
Held(t) == lock # <<>> /\ Head(lock) = t

(* read() and write() open the database first; whoever comes while another *)
(* one opens it finds it open.  The open may fail or be cancelled.         *)
Open(t) ==
    /\ At(t, "idle")
    /\ \/ Go(t, "queued") /\ lock' = Append(lock, t) /\ connected' = TRUE
       \/ ~connected /\ \E pc \in {"failed", "cancelled"} : Go(t, pc)
          /\ UNCHANGED <<lock, connected>>
    /\ UNCHANGED <<tx, staged, durable>>

(* close() takes the lock of open(), not the operation lock: a transaction *)
(* that is open goes with the connection.                                  *)
Close ==
    /\ connected
    /\ connected' = FALSE /\ tx' = FALSE /\ staged' = {}
    /\ UNCHANGED <<lock, durable, access>>

(* The repositories' SELECTs: they see what the connection sees. *)
Read(t) ==
    /\ t \in Reader /\ At(t, "queued") /\ Held(t)
    /\ lock' = Tail(lock)
    /\ \/ connected /\ access' = [access EXCEPT ![t] = [pc |-> "ok", seen |-> durable \cup staged]]
       \/ Go(t, "failed")
    /\ UNCHANGED <<connected, tx, staged, durable>>

(* BEGIN IMMEDIATE, before the try: it fails without a connection and      *)
(* inside a transaction.                                                   *)
BeginWrite(t) ==
    /\ t \in Writer /\ At(t, "queued") /\ Held(t)
    /\ \/ connected /\ ~tx /\ tx' = TRUE /\ Go(t, "body") /\ UNCHANGED lock
       \/ Release(t, "failed") /\ UNCHANGED tx
    /\ UNCHANGED <<connected, staged, durable>>

(* A cancelled BEGIN: the statement runs on the connection's thread all    *)
(* the same, and nobody rolls it back.                                     *)
BeginCancelled(t) ==
    /\ t \in Writer /\ At(t, "queued") /\ Held(t)
    /\ Release(t, "cancelled")
    /\ tx' = (tx \/ connected)
    /\ UNCHANGED <<connected, staged, durable>>

(* The body of a write, and the rollback when it raises or is cancelled.   *)
Body(t) ==
    /\ At(t, "body")
    /\ \/ tx /\ staged' = staged \cup {t} /\ Go(t, "commit") /\ UNCHANGED <<lock, tx>>
       \/ \E pc \in {"failed", "cancelled"} : Release(t, pc)
          /\ tx' = FALSE /\ staged' = {}
    /\ UNCHANGED <<connected, durable>>

(* Mutant: the result of the commit is not looked at. *)
CommitUnseen(t) ==
    /\ At(t, "commit")
    /\ \/ /\ tx
          /\ \E pc \in {"ok", "cancelled"} : Release(t, pc)
          /\ durable' = durable \cup staged /\ tx' = FALSE /\ staged' = {}
       \/ Release(t, "ok") /\ UNCHANGED <<tx, staged, durable>>
    /\ UNCHANGED connected

(* The commit is in the else of the try: one that fails is not rolled      *)
(* back unless SQLite does it, one whose caller is cancelled runs on the   *)
(* thread all the same.  A connection closed meanwhile fails it.           *)
Commit(t) ==
    /\ At(t, "commit")
    /\ \/ /\ tx
          /\ \E pc \in {"ok", "cancelled"} : Release(t, pc)
          /\ durable' = durable \cup staged /\ tx' = FALSE /\ staged' = {}
       \/ Release(t, "failed") /\ UNCHANGED <<tx, staged, durable>>
       \/ Release(t, "failed") /\ tx' = FALSE /\ staged' = {} /\ UNCHANGED durable
    /\ UNCHANGED connected

(* A caller cancelled while it waits for the lock: its waiter is removed.  *)
LeaveQueue(t) ==
    /\ At(t, "queued") /\ Go(t, "cancelled")
    /\ \E i \in 2..Len(lock) :
          /\ lock[i] = t
          /\ lock' = SubSeq(lock, 1, i - 1) \o SubSeq(lock, i + 1, Len(lock))
    /\ UNCHANGED <<connected, tx, staged, durable>>

Step(t) == Read(t) \/ BeginWrite(t) \/ BeginCancelled(t) \/ Body(t) \/ Commit(t)

Next == Close \/ \E t \in Task : Open(t) \/ Step(t) \/ LeaveQueue(t)

Spec == Init /\ [][Next]_vars

----------------------------------------------------------------------------
(* A write reported as done is in the file, and one reported as failed     *)
(* never gets there, even when a commit failed and its transaction stays   *)
(* open under the next operations (SQLiteDatabase.write).                  *)
ReportedTruly ==
    \A t \in Writer : /\ At(t, "ok") => t \in durable
                      /\ At(t, "failed") => t \notin durable
=============================================================================
