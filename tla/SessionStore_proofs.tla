------------------------ MODULE SessionStore_proofs -------------------------
(* Proofs about SessionStore for any turns, edits and sessions: no commit  *)
(* is overwritten by an older record, the edits of a service are serial,   *)
(* and what reads and writes do together is what one step could do.        *)
EXTENDS SessionStore, SequenceTheorems, TLAPS

(* The operation lock: who waits, each once, and who is ahead of whom.     *)
InQueue(x) == \E i \in 1..Len(queue) : queue[i] = x
Ahead(x, y) == \A i, j \in 1..Len(queue) : queue[i] = x /\ queue[j] = y => i < j
Once == \A i, j \in 1..Len(queue) : queue[i] = queue[j] => i = j

(* A turn that is under way holds the lease of its session. *)
LeaseInv ==
    \A t \in Turn :
        turn[t].pc \in {"loading", "executing", "saving", "stuck"}
            => active[SessionOf[t]] = t

(* Who works on an operation is in the queue; what is in the queue works   *)
(* on one or was cancelled.                                                *)
QueueInv ==
    /\ Once
    /\ \A e \in Edit :
          /\ edit[e].pc \in Working => InQueue(e)
          /\ InQueue(e) => edit[e].pc \in Working \cup {"failed"}
    /\ \A t \in Turn :
          /\ turn[t].pc \in {"loading", "saving"} => InQueue(t)
          /\ InQueue(t) => turn[t].pc \in {"loading", "saving", "stuck"}

(* What an edit has read, by where it is and what it does; and the lock of *)
(* its service.                                                            *)
EditInv ==
    /\ \A e \in Edit :
          /\ edit[e].pc \in {"idle", "loading"} => edit[e].seen = NoRecord
          /\ edit[e].pc = "loading" => edit[e].kind \notin {"create", "delete"}
          /\ edit[e].pc = "writing" =>
                (edit[e].seen = NoRecord <=> edit[e].kind \in {"create", "delete"})
    /\ \A e, f \in Edit :
          e # f /\ edit[e].pc \in Working /\ edit[f].pc \in Working
              => Service(edit[e].kind) # Service(edit[f].kind)

(* An edit that reads a record is ahead of the turn that reads it later:   *)
(* it has loaded before the turn has, and saves before the turn does.      *)
OrderInv ==
    \A t \in Turn, e \in Edit : SessionOf[t] = SessionOf[e] =>
        /\ turn[t].pc = "loading" /\ edit[e].pc = "loading" => Ahead(e, t)
        /\ turn[t].pc \in {"executing", "saving"} => edit[e].pc # "loading"
        /\ turn[t].pc = "saving" /\ edit[e].pc = "writing" /\ edit[e].seen # NoRecord
              => Ahead(e, t)

(* Nobody is about to write back a record that lacks a commit: what an     *)
(* edit or a turn has read still tells of every turn that the session's    *)
(* record has to tell of.                                                  *)
Kept(r, s) == \A u \in saved \ removed : SessionOf[u] = s => u \in Told(r)
SavedInv ==
    /\ \A s \in Session : Kept(record[s], s)
    /\ \A e \in Edit : edit[e].pc = "writing" /\ edit[e].seen # NoRecord
                           => Kept(edit[e].seen, SessionOf[e])
    /\ \A t \in Turn : turn[t].pc \in {"executing", "saving"} =>
                           Kept(turn[t].base, SessionOf[t]) /\ turn[t].base # NoRecord
    /\ \A t \in Turn : turn[t].pc = "saving" =>
                           turn[t].new # NoRecord /\ t \in Told(turn[t].new)

UnderInv ==
    \A e \in Edit :
        /\ edit[e].pc = "idle" => edit[e].under = {}
        /\ \A x \in edit[e].under :
              /\ x \in Edit /\ edit[x].pc # "idle"
              /\ Service(edit[x].kind) # Service(edit[e].kind)

(* Nor one that tells of more: of another session's turns, or of a turn    *)
(* that was not committed, but for the one that is committing.             *)
SavedIn(s) == {u \in saved : SessionOf[u] = s}
TellsInv ==
    /\ \A s \in Session : Told(record[s]) \subseteq SavedIn(s)
    /\ \A e \in Edit : edit[e].pc = "writing" /\ edit[e].seen # NoRecord =>
          Told(edit[e].seen) \cup Told(edit[e].new) \subseteq SavedIn(SessionOf[e])
    /\ \A t \in Turn :
          /\ turn[t].pc \in {"executing", "saving"} =>
                Told(turn[t].base) \subseteq SavedIn(SessionOf[t])
          /\ turn[t].pc = "saving" =>
                Told(turn[t].new) \subseteq SavedIn(SessionOf[t]) \cup {t}
          /\ t \in saved => turn[t].pc = "done"

StoreInv ==
    /\ TypeOK /\ LeaseInv /\ QueueInv /\ EditInv /\ OrderInv /\ SavedInv /\ UnderInv
    /\ TellsInv

----------------------------------------------------------------------------
(* The queue: leaving it, going back to its end, joining it.               *)
LEMMA HeadIs ==
    ASSUME queue \in Seq(Task), NEW x, Holds(x)
    PROVE  queue # <<>> /\ Len(queue) \in Nat \ {0} /\ queue[1] = x /\ InQueue(x)
  <1>1. queue # <<>> /\ Head(queue) = x  BY DEF Holds
  <1>2. Len(queue) \in Nat \ {0}  BY <1>1, EmptySeq
  <1>3. queue[1] = x  BY <1>1
  <1> QED  BY <1>1, <1>2, <1>3 DEF InQueue

LEMMA HeadIsFirst ==
    ASSUME queue \in Seq(Task), NEW x, Holds(x), NEW y, InQueue(y)
    PROVE  ~Ahead(y, x)
  <1>1. Len(queue) \in Nat \ {0} /\ queue[1] = x  BY HeadIs
  <1>2. PICK i \in 1..Len(queue) : queue[i] = y  BY DEF InQueue
  <1> QED  BY <1>1, <1>2 DEF Ahead

LEMMA LeaveKeeps ==
    ASSUME queue \in Seq(Task), Once, NEW x, Holds(x), Leave
    PROVE  /\ queue' \in Seq(Task)
           /\ Once'
           /\ \A y : InQueue(y)' <=> InQueue(y) /\ y # x
           /\ \A y, z : Ahead(y, z) => Ahead(y, z)'
  <1>1. Len(queue) \in Nat \ {0} /\ queue[1] = x /\ queue # <<>>  BY HeadIs
  <1>2. /\ queue' \in Seq(Task)
        /\ Len(queue') = Len(queue) - 1
        /\ \A i \in 1..Len(queue') : queue'[i] = queue[i + 1]
    BY <1>1, HeadTailProperties DEF Leave
  <1>3. Once'  BY <1>1, <1>2 DEF Once
  <1>4. ASSUME NEW y PROVE InQueue(y)' <=> InQueue(y) /\ y # x
    <2>1. ASSUME InQueue(y)' PROVE InQueue(y) /\ y # x
      <3>1. PICK i \in 1..Len(queue') : queue'[i] = y  BY <2>1 DEF InQueue
      <3>2. i + 1 \in 1..Len(queue) /\ queue[i + 1] = y /\ i + 1 # 1  BY <1>1, <1>2, <3>1
      <3>3. 1 \in 1..Len(queue)  BY <1>1
      <3> QED  BY <1>1, <3>2, <3>3 DEF InQueue, Once
    <2>2. ASSUME InQueue(y), y # x PROVE InQueue(y)'
      <3>1. PICK i \in 1..Len(queue) : queue[i] = y  BY <2>2 DEF InQueue
      <3>2. i # 1  BY <1>1, <2>2, <3>1
      <3>3. i - 1 \in 1..Len(queue') /\ queue'[i - 1] = y  BY <1>1, <1>2, <3>1, <3>2
      <3> QED  BY <3>3 DEF InQueue
    <2> QED  BY <2>1, <2>2
  <1>5. ASSUME NEW y, NEW z, Ahead(y, z) PROVE Ahead(y, z)'
    <2> SUFFICES ASSUME NEW i \in 1..Len(queue'), NEW j \in 1..Len(queue'),
                        queue'[i] = y, queue'[j] = z
                 PROVE  i < j
      BY DEF Ahead
    <2>1. /\ i + 1 \in 1..Len(queue) /\ queue[i + 1] = y
          /\ j + 1 \in 1..Len(queue) /\ queue[j + 1] = z
      BY <1>1, <1>2
    <2>2. i + 1 < j + 1  BY <1>5, <2>1 DEF Ahead
    <2> QED  BY <2>2
  <1> QED  BY <1>2, <1>3, <1>4, <1>5

LEMMA JoinKeeps ==
    ASSUME queue \in Seq(Task), Once, NEW x \in Task, ~InQueue(x),
           queue' = Append(queue, x)
    PROVE  /\ queue' \in Seq(Task)
           /\ Once'
           /\ \A y : InQueue(y)' <=> InQueue(y) \/ y = x
           /\ \A y, z : y # x /\ z # x /\ Ahead(y, z) => Ahead(y, z)'
           /\ \A y : y # x => Ahead(y, x)'
  <1>1. /\ Len(queue) \in Nat
        /\ queue' \in Seq(Task)
        /\ Len(queue') = Len(queue) + 1
        /\ \A i \in 1..Len(queue) : queue'[i] = queue[i]
        /\ queue'[Len(queue) + 1] = x
    OBVIOUS
  <1>2. \A i \in 1..Len(queue) : queue[i] # x  BY DEF InQueue
  <1>3. Once'  BY <1>1, <1>2 DEF Once
  <1>4. ASSUME NEW y PROVE InQueue(y)' <=> InQueue(y) \/ y = x
    BY <1>1 DEF InQueue
  <1>5. ASSUME NEW y, NEW z, y # x, z # x, Ahead(y, z) PROVE Ahead(y, z)'
    BY <1>1, <1>5 DEF Ahead
  <1>6. ASSUME NEW y, y # x PROVE Ahead(y, x)'
    BY <1>1, <1>2, <1>6 DEF Ahead
  <1> QED  BY <1>1, <1>3, <1>4, <1>5, <1>6

LEMMA AgainKeeps ==
    ASSUME queue \in Seq(Task), Once, NEW x \in Task, Holds(x), QueueAgain(x)
    PROVE  /\ queue' \in Seq(Task)
           /\ Once'
           /\ \A y : InQueue(y)' <=> InQueue(y)
           /\ \A y, z : y # x /\ z # x /\ Ahead(y, z) => Ahead(y, z)'
           /\ \A y : y # x => Ahead(y, x)'
  <1>1. Len(queue) \in Nat \ {0} /\ queue[1] = x /\ queue # <<>> /\ InQueue(x)  BY HeadIs
  <1>2. /\ Tail(queue) \in Seq(Task)
        /\ Len(Tail(queue)) = Len(queue) - 1
        /\ \A i \in 1..Len(queue) - 1 : Tail(queue)[i] = queue[i + 1]
    BY <1>1, HeadTailProperties
  <1>3. /\ queue' \in Seq(Task)
        /\ Len(queue') = Len(queue)
        /\ \A i \in 1..Len(queue) - 1 : queue'[i] = queue[i + 1]
        /\ queue'[Len(queue)] = x
    BY <1>1, <1>2 DEF QueueAgain
  <1>4. \A i \in 2..Len(queue) : queue[i] # x  BY <1>1 DEF Once
  <1>5. Once'  BY <1>1, <1>3, <1>4 DEF Once
  <1>6. ASSUME NEW y PROVE InQueue(y)' <=> InQueue(y)
    <2>1. ASSUME InQueue(y)' PROVE InQueue(y)
      <3>1. PICK i \in 1..Len(queue) : queue'[i] = y  BY <1>3, <2>1 DEF InQueue
      <3>2. CASE i = Len(queue)  BY <1>1, <1>3, <3>1, <3>2
      <3>3. CASE i # Len(queue)  BY <1>1, <1>3, <3>1, <3>3 DEF InQueue
      <3> QED  BY <3>2, <3>3
    <2>2. ASSUME InQueue(y) PROVE InQueue(y)'
      <3>1. PICK i \in 1..Len(queue) : queue[i] = y  BY <2>2 DEF InQueue
      <3>2. CASE i = 1
        <4>1. Len(queue) \in 1..Len(queue') /\ queue'[Len(queue)] = y  BY <1>1, <1>3, <3>1, <3>2
        <4> QED  BY <4>1 DEF InQueue
      <3>3. CASE i # 1
        <4>1. i - 1 \in 1..Len(queue') /\ queue'[i - 1] = y  BY <1>1, <1>3, <3>1, <3>3
        <4> QED  BY <4>1 DEF InQueue
      <3> QED  BY <3>2, <3>3
    <2> QED  BY <2>1, <2>2
  <1>7. ASSUME NEW y, NEW z, y # x, z # x, Ahead(y, z) PROVE Ahead(y, z)'
    <2> SUFFICES ASSUME NEW i \in 1..Len(queue'), NEW j \in 1..Len(queue'),
                        queue'[i] = y, queue'[j] = z
                 PROVE  i < j
      BY DEF Ahead
    <2>1. /\ i + 1 \in 1..Len(queue) /\ queue[i + 1] = y
          /\ j + 1 \in 1..Len(queue) /\ queue[j + 1] = z
      BY <1>1, <1>3, <1>7
    <2>2. i + 1 < j + 1  BY <1>7, <2>1 DEF Ahead
    <2> QED  BY <2>2
  <1>8. ASSUME NEW y, y # x PROVE Ahead(y, x)'
    BY <1>1, <1>3, <1>4, <1>8 DEF Ahead
  <1> QED  BY <1>3, <1>5, <1>6, <1>7, <1>8

----------------------------------------------------------------------------
(* Records. *)
LEMMA RecordIs ==
    ASSUME NEW r \in Record
    PROVE  /\ r.summary \subseteq Turn /\ r.turns \in Seq(Turn)
           /\ Len(r.turns) \in Nat /\ DOMAIN r.turns = 1..Len(r.turns)
           /\ \A i \in 1..Len(r.turns) : r.turns[i] \in Turn
           /\ Told(r) = r.summary \cup {r.turns[i] : i \in 1..Len(r.turns)}
  <1>1. r.summary \subseteq Turn /\ r.turns \in Seq(Turn)  BY DEF Record
  <1>2. r # NoRecord  BY RecordAssumption
  <1>3. Len(r.turns) \in Nat /\ DOMAIN r.turns = 1..Len(r.turns)  BY <1>1, LenProperties
  <1>4. \A i \in 1..Len(r.turns) : r.turns[i] \in Turn  BY <1>1, ElementOfSeq
  <1> QED  BY <1>1, <1>2, <1>3, <1>4 DEF Told

LEMMA SuffixIs ==
    ASSUME NEW s \in Seq(Turn), NEW m \in 1..Len(s) + 1
    PROVE  /\ SubSeq(s, m, Len(s)) \in Seq(Turn)
           /\ Len(SubSeq(s, m, Len(s))) = Len(s) - m + 1
           /\ \A i \in 1..Len(s) - m + 1 : SubSeq(s, m, Len(s))[i] = s[m + i - 1]
  <1>1. Len(s) \in Nat  BY LenProperties
  <1>2. \A i \in m..Len(s) : s[i] \in Turn  BY <1>1, ElementOfSeq
  <1> QED  BY <1>1, <1>2, SubSeqProperties

(* A compaction gives a record, which tells of no turn but those there     *)
(* were, and of the last one.                                              *)
LEMMA CompactedIs ==
    ASSUME NEW r \in Record, NEW n \in 0..Len(r.turns), NEW d \in 0..Len(r.turns) - n
    PROVE  /\ Compacted(r, n, d) \in Record
           /\ Told(Compacted(r, n, d)) \subseteq Told(r)
           /\ Len(r.turns) > 0 /\ (d = 0 \/ n + d < Len(r.turns))
                => r.turns[Len(r.turns)] \in Told(Compacted(r, n, d))
  <1> DEFINE L == Len(r.turns)
             c == Compacted(r, n, d)
  <1>1. L \in Nat /\ r.turns \in Seq(Turn) /\ r.summary \subseteq Turn
    BY RecordIs
  <1>2. \A i \in 1..L : r.turns[i] \in Turn  BY RecordIs
  <1>3. n + d + 1 \in 1..L + 1  BY <1>1
  <1>4. /\ SubSeq(r.turns, n + d + 1, L) \in Seq(Turn)
        /\ Len(SubSeq(r.turns, n + d + 1, L)) = L - (n + d)
        /\ \A i \in 1..L - (n + d) : SubSeq(r.turns, n + d + 1, L)[i] = r.turns[n + d + i]
    BY <1>1, <1>3, SuffixIs
  <1>5. {r.turns[i] : i \in 1..n} \subseteq Turn  BY <1>1, <1>2
  <1>6. c \in Record  BY <1>1, <1>4, <1>5 DEF Compacted, Record
  <1>7. c.summary = r.summary \cup {r.turns[i] : i \in 1..n} /\ c.turns = SubSeq(r.turns, n + d + 1, L)
    BY DEF Compacted
  <1>8. ASSUME L > 0, d = 0 \/ n + d < L PROVE r.turns[L] \in Told(c)
    <2>1. CASE n = L
      <3>1. r.turns[L] \in c.summary  BY <1>1, <1>7, <1>8, <2>1
      <3> QED  BY <1>6, <3>1, RecordIs
    <2>2. CASE n # L
      <3>1. L - (n + d) \in 1..Len(c.turns)  BY <1>1, <1>4, <1>7, <1>8, <2>2
      <3>2. c.turns[L - (n + d)] = r.turns[L]  BY <1>1, <1>4, <1>7, <3>1
      <3> QED  BY <1>6, <3>1, <3>2, RecordIs
    <2> QED  BY <2>1, <2>2
  <1>9. Told(c) \subseteq Told(r)
    <2>1. Told(c) = c.summary \cup {c.turns[i] : i \in 1..Len(c.turns)}  BY <1>6, RecordIs
    <2>2. Told(r) = r.summary \cup {r.turns[i] : i \in 1..L}  BY RecordIs
    <2>3. c.summary \subseteq Told(r)  BY <1>1, <1>7, <2>2
    <2>4. ASSUME NEW i \in 1..Len(c.turns)  PROVE c.turns[i] \in Told(r)
      <3>1. n + d + i \in 1..L /\ c.turns[i] = r.turns[n + d + i]  BY <1>1, <1>4, <1>7
      <3> QED  BY <2>2, <3>1
    <2> QED  BY <2>1, <2>3, <2>4
  <1> QED  BY <1>6, <1>8, <1>9

LEMMA EmptyIs == EmptyRecord \in Record /\ Told(EmptyRecord) = {} /\ Told(NoRecord) = {}
  <1>1. EmptyRecord.summary = {} /\ EmptyRecord.turns = <<>>  BY DEF EmptyRecord
  <1>2. EmptyRecord \in Record  BY EmptySeq DEF EmptyRecord, Record
  <1>3. Told(EmptyRecord) = {} \cup {EmptyRecord.turns[i] : i \in 1..Len(EmptyRecord.turns)}
    BY <1>1, <1>2, RecordIs
  <1>4. Len(EmptyRecord.turns) = 0  BY <1>1, EmptySeq
  <1> QED  BY <1>2, <1>3, <1>4 DEF Told

(* A service makes of a record one that tells of no other turn.            *)
LEMMA ChangedIs ==
    ASSUME NEW kind \in Kind, NEW r \in Record, NEW new \in Changed(kind, r)
    PROVE  new \in Record /\ Told(new) \subseteq Told(r)
  <1>1. r.turns \in Seq(Turn) /\ r.summary \subseteq Turn /\ Len(r.turns) \in Nat
    BY RecordIs
  <1>2. EmptyRecord \in Record /\ Told(EmptyRecord) = {}  BY EmptyIs
  <1>3. CASE kind = "rename"  BY <1>3 DEF Changed
  <1>4. CASE kind = "clear"
    <2>1. new = [r EXCEPT !.turns = <<>>]  BY <1>4 DEF Changed
    <2>2. new \in Record /\ new.summary = r.summary /\ new.turns = <<>>
      BY <2>1, EmptySeq DEF Record
    <2>3. Len(new.turns) = 0  BY <2>2, EmptySeq
    <2>4. Told(new) = new.summary \cup {new.turns[i] : i \in 1..Len(new.turns)}
      BY <2>2, RecordIs
    <2> QED  BY <2>2, <2>3, <2>4, RecordIs
  <1>5. CASE kind = "undo"
    <2>1. new = [r EXCEPT !.turns = SubSeq(r.turns, 1, Len(r.turns) - 1)]
      BY <1>5 DEF Changed
    <2>2. \A i \in 1..Len(r.turns) - 1 : r.turns[i] \in Turn  BY <1>1, RecordIs
    <2>3. SubSeq(r.turns, 1, Len(r.turns) - 1) \in Seq(Turn)
      BY <1>1, <2>2, SubSeqProperties
    <2>4. /\ new \in Record /\ new.summary = r.summary
          /\ new.turns = SubSeq(r.turns, 1, Len(r.turns) - 1)
      BY <2>1, <2>3 DEF Record
    <2>5. /\ Len(new.turns) <= Len(r.turns)
          /\ \A i \in 1..Len(new.turns) : new.turns[i] = r.turns[i]
      <3>1. r.turns # <<>> /\ Len(r.turns) - 1 \in 0..Len(r.turns)
        <4>1. r.turns # <<>>  BY <1>5 DEF Changed
        <4>2. Len(r.turns) # 0  BY <1>1, <4>1, EmptySeq
        <4> QED  BY <1>1, <4>1, <4>2
      <3> QED  BY <1>1, <2>2, <2>4, <3>1, SubSeqProperties
    <2>6. Len(new.turns) \in Nat  BY <2>4, RecordIs
    <2>7. 1..Len(new.turns) \subseteq 1..Len(r.turns)  BY <1>1, <2>5, <2>6
    <2>8. Told(new) = new.summary \cup {new.turns[i] : i \in 1..Len(new.turns)}
      BY <2>4, RecordIs
    <2>9. Told(r) = r.summary \cup {r.turns[i] : i \in 1..Len(r.turns)}  BY RecordIs
    <2> QED  BY <2>4, <2>5, <2>7, <2>8, <2>9
  <1>6. CASE kind = "compress"
    <2>1. PICK n \in DOMAIN r.turns : new = Compacted(r, n, 0)  BY <1>6 DEF Changed
    <2>2. n \in 0..Len(r.turns) /\ 0 \in 0..Len(r.turns) - n  BY <1>1, RecordIs
    <2> QED  BY <2>1, <2>2, CompactedIs
  <1>7. CASE kind \in {"create", "delete"}  BY <1>2, <1>7 DEF Changed
  <1> QED  BY <1>3, <1>4, <1>5, <1>6, <1>7 DEF Kind

(* A noted write changes nothing but the under of edits of its session     *)
(* that are about to write what they have read.                            *)
LEMMA NotedIs ==
    ASSUME TypeOK, NEW x \in Task
    PROVE  /\ Noted(x) \in [Edit -> EditState]
           /\ \A f \in Edit :
                 /\ Noted(x)[f].pc = edit[f].pc /\ Noted(x)[f].kind = edit[f].kind
                 /\ Noted(x)[f].seen = edit[f].seen /\ Noted(x)[f].new = edit[f].new
                 /\ \/ Noted(x)[f].under = edit[f].under
                    \/ /\ Noted(x)[f].under = edit[f].under \cup {x}
                       /\ f # x /\ edit[f].pc = "writing" /\ edit[f].seen # NoRecord
                       /\ SessionOf[f] = SessionOf[x]
  <1> SUFFICES ASSUME NEW f \in Edit
               PROVE  /\ Noted(x)[f] \in EditState
                      /\ Noted(x)[f].pc = edit[f].pc /\ Noted(x)[f].kind = edit[f].kind
                      /\ Noted(x)[f].seen = edit[f].seen /\ Noted(x)[f].new = edit[f].new
                      /\ \/ Noted(x)[f].under = edit[f].under
                         \/ /\ Noted(x)[f].under = edit[f].under \cup {x}
                            /\ f # x /\ edit[f].pc = "writing" /\ edit[f].seen # NoRecord
                            /\ SessionOf[f] = SessionOf[x]
    BY DEF Noted
  <1>1. edit[f] \in EditState  BY DEF TypeOK
  <1>2. [edit[f] EXCEPT !.under = @ \cup {x}] \in EditState  BY <1>1 DEF EditState
  <1> QED  BY <1>1, <1>2 DEF Noted, EditState

----------------------------------------------------------------------------
(* Types are kept by every step. *)
LEMMA EditTypes ==
    ASSUME TypeOK, Once, NEW e \in Edit, EditNext(e)
    PROVE  TypeOK'
  <1>1. e \in Task /\ edit[e] \in EditState /\ SessionOf[e] \in Session
    BY StoreAssumption DEF Task, TypeOK
  <1>2. ASSUME NEW kind \in Kind, Enqueue(e, kind), UNCHANGED <<record, active, turn, saved, removed>>
        PROVE  TypeOK'
    <2>1. edit' \in [Edit -> EditState]
      BY <1>1, <1>2 DEF Enqueue, TypeOK, EditState, Working
    <2>2. queue' \in Seq(Task)  BY <1>1, <1>2 DEF Enqueue, TypeOK
    <2> QED  BY <1>2, <2>1, <2>2 DEF TypeOK
  <1>3. ASSUME NEW kind \in Kind, Busy(e, kind) PROVE TypeOK'
    <2>1. edit' \in [Edit -> EditState]  BY <1>1, <1>3 DEF Busy, TypeOK, EditState
    <2> QED  BY <1>3, <2>1 DEF TypeOK, Busy
  <1>4. CASE EditLoads(e)
    <2>1. record[SessionOf[e]] \in Record  BY <1>1, <1>4 DEF EditLoads, TypeOK, MaybeRecord
    <2>2. PICK new \in Changed(edit[e].kind, record[SessionOf[e]]) :
             edit' = [edit EXCEPT ![e].pc = "writing", ![e].seen = record[SessionOf[e]],
                                  ![e].new = new]
      BY <1>4 DEF EditLoads
    <2>3. new \in Record  BY <1>1, <2>1, <2>2, ChangedIs DEF EditState
    <2>4. edit' \in [Edit -> EditState]
      BY <1>1, <2>1, <2>2, <2>3 DEF TypeOK, EditState, Working, MaybeRecord
    <2>5. queue' \in Seq(Task)  BY <1>1, <1>4, AgainKeeps DEF EditLoads, TypeOK
    <2> QED  BY <1>4, <2>4, <2>5 DEF TypeOK, EditLoads
  <1>5. CASE EditFails(e)
    <2>1. edit' \in [Edit -> EditState]  BY <1>1, <1>5 DEF EditFails, TypeOK, EditState
    <2>2. queue' \in Seq(Task)  BY <1>1, <1>5, LeaveKeeps DEF EditFails, TypeOK
    <2> QED  BY <1>5, <2>1, <2>2 DEF TypeOK, EditFails
  <1>6. ASSUME Applied(e), Holds(e), Leave, UNCHANGED <<active, turn, saved>>,
               edit[e].pc = "writing",
               NEW pc \in {"ok", "failed"}, edit' = [Noted(e) EXCEPT ![e].pc = pc]
        PROVE  TypeOK'
    <2>1. Noted(e) \in [Edit -> EditState]  BY <1>1, NotedIs
    <2>2. edit' \in [Edit -> EditState]  BY <1>6, <2>1 DEF EditState
    <2>3. queue' \in Seq(Task)  BY <1>1, <1>6, LeaveKeeps DEF TypeOK
    <2>4. NoRecord \in MaybeRecord /\ EmptyRecord \in MaybeRecord /\ edit[e].new \in MaybeRecord
      BY <1>1, EmptySeq DEF MaybeRecord, EmptyRecord, Record, EditState
    <2>5. record' \in [Session -> MaybeRecord]
      BY <1>1, <1>6, <2>4 DEF Applied, TypeOK
    <2>6. \A r \in MaybeRecord : Told(r) \subseteq Turn
      BY RecordIs DEF MaybeRecord, Told
    <2>7. record[SessionOf[e]] \in MaybeRecord /\ edit[e].seen \in MaybeRecord
      BY <1>1 DEF TypeOK, EditState
    <2>8. removed' \subseteq Turn  BY <1>6, <2>6, <2>7 DEF Applied, TypeOK
    <2> QED  BY <1>6, <2>2, <2>3, <2>5, <2>8 DEF TypeOK
  <1>7. CASE EditWrites(e)  BY <1>6, <1>7 DEF EditWrites
  <1>8. CASE Abort(e)
    <2>1. CASE edit' = [edit EXCEPT ![e].pc = "failed"] /\ UNCHANGED <<queue, record, removed>>
      <3>1. edit' \in [Edit -> EditState]  BY <1>1, <2>1 DEF TypeOK, EditState
      <3> QED  BY <1>8, <2>1, <3>1 DEF TypeOK, Abort
    <2> QED  BY <1>6, <1>8, <2>1 DEF Abort
  <1>9. ASSUME NEW kind \in Kind, Begin(e, kind) PROVE TypeOK'  BY <1>2, <1>9 DEF Begin
  <1> QED  BY <1>3, <1>4, <1>5, <1>7, <1>8, <1>9 DEF EditNext

(* The commit of a turn: its new record tells of it. *)
LEMMA CommitIs ==
    ASSUME TypeOK, NEW t \in Turn, Commit(t), turn[t].base # NoRecord
    PROVE  \E new \in Record :
              /\ turn' = [turn EXCEPT ![t].pc = "saving", ![t].new = new]
              /\ t \in Told(new) /\ Told(new) \subseteq Told(turn[t].base) \cup {t}
  <1> DEFINE h == [turn[t].base EXCEPT !.turns = Append(@, t)]
  <1>1. turn[t].base \in Record  BY DEF TypeOK, TurnState, MaybeRecord
  <1>2. turn[t].base.turns \in Seq(Turn)  BY <1>1, RecordIs
  <1>3. h \in Record /\ h.turns = Append(turn[t].base.turns, t)
    <2>1. Append(turn[t].base.turns, t) \in Seq(Turn)  BY <1>2
    <2>2. \A r \in Record, q \in Seq(Turn) :
             [r EXCEPT !.turns = q] \in Record /\ [r EXCEPT !.turns = q].turns = q
      BY DEF Record
    <2> QED  BY <1>1, <2>1, <2>2
  <1>4. Len(h.turns) \in Nat /\ Len(h.turns) > 0 /\ h.turns[Len(h.turns)] = t
    BY <1>2, <1>3
  <1>5. PICK n \in 0..Len(h.turns) : \E d \in 0..Len(h.turns) - n :
           /\ d = 0 \/ n + d < Len(h.turns)
           /\ turn' = [turn EXCEPT ![t].pc = "saving", ![t].new = Compacted(h, n, d)]
    BY DEF Commit
  <1>6. PICK d \in 0..Len(h.turns) - n :
           /\ d = 0 \/ n + d < Len(h.turns)
           /\ turn' = [turn EXCEPT ![t].pc = "saving", ![t].new = Compacted(h, n, d)]
    BY <1>5
  <1>8. h.summary = turn[t].base.summary  BY <1>1 DEF Record
  <1> HIDE DEF h
  <1>7. /\ Compacted(h, n, d) \in Record /\ t \in Told(Compacted(h, n, d))
        /\ Told(Compacted(h, n, d)) \subseteq Told(h)
    BY <1>3, <1>4, <1>6, CompactedIs
  <1>9. Told(h) \subseteq Told(turn[t].base) \cup {t}
    <2>1. /\ Told(h) = h.summary \cup {h.turns[i] : i \in 1..Len(h.turns)}
          /\ Told(turn[t].base) = turn[t].base.summary
                \cup {turn[t].base.turns[i] : i \in 1..Len(turn[t].base.turns)}
      BY <1>1, <1>3, RecordIs
    <2>2. Len(turn[t].base.turns) \in Nat /\ Len(h.turns) = Len(turn[t].base.turns) + 1
      BY <1>2, <1>3
    <2>3. ASSUME NEW i \in 1..Len(h.turns)  PROVE h.turns[i] \in Told(turn[t].base) \cup {t}
      <3>1. CASE i = Len(h.turns)  BY <1>4, <3>1
      <3>2. CASE i # Len(h.turns)
        <4>1. i \in 1..Len(turn[t].base.turns)  BY <2>2, <3>2
        <4>2. h.turns[i] = turn[t].base.turns[i]  BY <1>2, <1>3, <4>1
        <4> QED  BY <2>1, <4>1, <4>2
      <3> QED  BY <3>1, <3>2
    <2> QED  BY <1>8, <2>1, <2>3
  <1> QED  BY <1>6, <1>7, <1>9

LEMMA TurnTypes ==
    ASSUME TypeOK, Once, NEW t \in Turn, TurnNext(t),
           turn[t].pc = "executing" => turn[t].base # NoRecord,
           turn[t].pc = "saving" => turn[t].new # NoRecord
    PROVE  TypeOK'
  <1>1. t \in Task /\ turn[t] \in TurnState /\ SessionOf[t] \in Session
    BY StoreAssumption DEF Task, TypeOK
  <1>2. ASSUME Ended(t) PROVE turn' \in [Turn -> TurnState] /\ active' \in [Session -> Turn \cup {NoTurn}]
    BY <1>1, <1>2 DEF Ended, TypeOK, TurnState
  <1>3. CASE Submit(t)
    <2>1. turn' \in [Turn -> TurnState] /\ active' \in [Session -> Turn \cup {NoTurn}]
      BY <1>1, <1>3 DEF Submit, TypeOK, TurnState
    <2>2. queue' \in Seq(Task)  BY <1>1, <1>3 DEF Submit, TypeOK
    <2> QED  BY <1>3, <2>1, <2>2 DEF TypeOK, Submit
  <1>4. CASE TurnLoads(t)
    <2>1. queue' \in Seq(Task)  BY <1>1, <1>4, LeaveKeeps DEF TurnLoads, TypeOK
    <2>2. turn' \in [Turn -> TurnState] /\ active' \in [Session -> Turn \cup {NoTurn}]
      <3>1. record[SessionOf[t]] \in MaybeRecord  BY <1>1 DEF TypeOK
      <3> QED  BY <1>1, <1>2, <1>4, <3>1 DEF TurnLoads, TypeOK, TurnState
    <2> QED  BY <1>4, <2>1, <2>2 DEF TypeOK, TurnLoads
  <1>5. CASE AbortSubmit(t)
    <2>1. turn' \in [Turn -> TurnState]  BY <1>1, <1>5 DEF AbortSubmit, TypeOK, TurnState
    <2> QED  BY <1>5, <2>1 DEF TypeOK, AbortSubmit
  <1>6. CASE Commit(t)
    <2>1. PICK new \in Record : turn' = [turn EXCEPT ![t].pc = "saving", ![t].new = new]
      BY <1>6, CommitIs DEF Commit
    <2>2. turn' \in [Turn -> TurnState]  BY <1>1, <2>1 DEF TypeOK, TurnState, MaybeRecord
    <2>3. queue' \in Seq(Task)  BY <1>1, <1>6 DEF Commit, TypeOK
    <2> QED  BY <1>6, <2>2, <2>3 DEF TypeOK, Commit
  <1>7. CASE EndUnsaved(t)  BY <1>2, <1>7 DEF TypeOK, EndUnsaved
  <1>8. CASE TurnSaves(t)
    <2>1. queue' \in Seq(Task)  BY <1>1, <1>8, LeaveKeeps DEF TurnSaves, TypeOK
    <2>2. turn[t].new \in MaybeRecord /\ turn[t].base \in MaybeRecord  BY <1>1 DEF TurnState
    <2>3. record' \in [Session -> MaybeRecord]  BY <1>1, <1>8, <2>2 DEF TurnSaves, TypeOK
    <2>4. \A r \in MaybeRecord : Told(r) \subseteq Turn
      BY RecordIs DEF MaybeRecord, Told
    <2>5. removed' \subseteq Turn /\ saved' \subseteq Turn
      BY <1>8, <2>2, <2>4 DEF TurnSaves, TypeOK
    <2>6. edit' \in [Edit -> EditState]  BY <1>1, <1>8, NotedIs DEF TurnSaves
    <2> QED  BY <1>2, <1>8, <2>1, <2>3, <2>5, <2>6 DEF TypeOK, TurnSaves
  <1>9. CASE TurnSaveFails(t)
    <2>1. queue' \in Seq(Task)
      BY <1>1, <1>9, LeaveKeeps, AgainKeeps DEF TurnSaveFails, TypeOK
    <2>2. turn' \in [Turn -> TurnState] /\ active' \in [Session -> Turn \cup {NoTurn}]
      BY <1>1, <1>2, <1>9 DEF TurnSaveFails, TypeOK, TurnState
    <2> QED  BY <1>9, <2>1, <2>2 DEF TypeOK, TurnSaveFails
  <1> QED  BY <1>3, <1>4, <1>5, <1>6, <1>7, <1>8, <1>9 DEF TurnNext

----------------------------------------------------------------------------
(* What a step of an edit may be, without its records: it begins, is       *)
(* refused, loads, gives up or writes.                                     *)
OthersStay(e) ==
    \A f \in Edit \ {e} :
        /\ edit'[f].pc = edit[f].pc /\ edit'[f].kind = edit[f].kind
        /\ edit'[f].seen = edit[f].seen /\ edit'[f].new = edit[f].new

Began(e) ==
    /\ edit[e].pc = "idle" /\ queue' = Append(queue, e)
    /\ UNCHANGED <<record, removed>>
    /\ edit'[e].seen = edit[e].seen
    /\ edit'[e].pc = IF edit'[e].kind \in {"create", "delete"} THEN "writing" ELSE "loading"
    /\ edit'[e].kind = "create" \/ active[SessionOf[e]] = NoTurn
    /\ \A f \in Edit : edit[f].pc \in Working
                           => Service(edit[f].kind) # Service(edit'[e].kind)
    /\ \A f \in Edit : edit'[f].under = edit[f].under

Refused(e) ==
    /\ edit[e].pc = "idle" /\ edit'[e].pc = "failed"
    /\ UNCHANGED <<queue, record, removed>>
    /\ \A f \in Edit : edit'[f].under = edit[f].under

Loaded(e) ==
    /\ edit[e].pc = "loading" /\ Holds(e) /\ QueueAgain(e)
    /\ UNCHANGED <<record, removed>>
    /\ edit'[e].pc = "writing" /\ edit'[e].kind = edit[e].kind
    /\ edit'[e].seen = record[SessionOf[e]] /\ edit'[e].seen # NoRecord
    /\ Told(edit'[e].new) \subseteq Told(edit'[e].seen)
    /\ \A f \in Edit : edit'[f].under = edit[f].under

GaveUp(e) ==
    /\ edit[e].pc \in Working /\ edit'[e].pc = "failed" /\ edit'[e].kind = edit[e].kind
    /\ UNCHANGED <<record, removed>>
    /\ (Holds(e) /\ Leave) \/ UNCHANGED queue
    /\ \A f \in Edit : edit'[f].under = edit[f].under

Wrote(e) ==
    /\ edit[e].pc = "writing" /\ Holds(e) /\ Leave /\ Applied(e)
    /\ edit'[e].pc \in {"ok", "failed"} /\ edit'[e].kind = edit[e].kind
    /\ \A f \in Edit :
          \/ edit'[f].under = edit[f].under
          \/ /\ edit'[f].under = edit[f].under \cup {e}
             /\ f # e /\ edit[f].pc = "writing"

LEMMA EditCases ==
    ASSUME TypeOK, NEW e \in Edit, EditNext(e)
    PROVE  /\ UNCHANGED <<active, turn, saved>>
           /\ OthersStay(e)
           /\ Began(e) \/ Refused(e) \/ Loaded(e) \/ GaveUp(e) \/ Wrote(e)
  <1>1. e \in Task /\ edit \in [Edit -> EditState]  BY DEF Task, TypeOK
  <1>3. ASSUME NEW kind \in Kind, Begin(e, kind)
        PROVE  UNCHANGED <<active, turn, saved>> /\ OthersStay(e) /\ Began(e)
    BY <1>1, <1>3 DEF Begin, Enqueue, LockFree, OthersStay, Began, EditState
  <1>4. ASSUME NEW kind \in Kind, Busy(e, kind)
        PROVE  UNCHANGED <<active, turn, saved>> /\ OthersStay(e) /\ Refused(e)
    BY <1>1, <1>4 DEF Busy, OthersStay, Refused, EditState
  <1>5. ASSUME EditLoads(e)
        PROVE  UNCHANGED <<active, turn, saved>> /\ OthersStay(e) /\ Loaded(e)
    <2>1. e \in Edit /\ edit[e] \in EditState /\ SessionOf[e] \in Session
      BY <1>1, StoreAssumption
    <2>2. record[SessionOf[e]] \in Record
      BY <1>5, <2>1 DEF EditLoads, TypeOK, MaybeRecord
    <2>3. PICK new \in Changed(edit[e].kind, record[SessionOf[e]]) :
             edit' = [edit EXCEPT ![e].pc = "writing", ![e].seen = record[SessionOf[e]],
                                  ![e].new = new]
      BY <1>5 DEF EditLoads
    <2>4. Told(new) \subseteq Told(record[SessionOf[e]])
      BY <2>1, <2>2, <2>3, ChangedIs DEF EditState
    <2>5. /\ OthersStay(e) /\ edit'[e].pc = "writing" /\ edit'[e].kind = edit[e].kind
          /\ edit'[e].seen = record[SessionOf[e]] /\ edit'[e].new = new
          /\ \A f \in Edit : edit'[f].under = edit[f].under
      BY <1>1, <2>3 DEF OthersStay, EditState
    <2> QED  BY <1>5, <2>2, <2>4, <2>5 DEF EditLoads, Loaded
  <1>6. ASSUME edit' = [edit EXCEPT ![e].pc = "failed"]
        PROVE  /\ OthersStay(e) /\ edit'[e].pc = "failed" /\ edit'[e].kind = edit[e].kind
               /\ \A f \in Edit : edit'[f].under = edit[f].under
    BY <1>1, <1>6 DEF OthersStay, EditState
  <1>7. ASSUME EditFails(e)
        PROVE  UNCHANGED <<active, turn, saved>> /\ OthersStay(e) /\ GaveUp(e)
    BY <1>6, <1>7 DEF EditFails, GaveUp
  <1>8. ASSUME NEW pc \in {"ok", "failed"}, edit' = [Noted(e) EXCEPT ![e].pc = pc]
        PROVE  /\ OthersStay(e) /\ edit'[e].pc = pc /\ edit'[e].kind = edit[e].kind
               /\ \A f \in Edit :
                     \/ edit'[f].under = edit[f].under
                     \/ /\ edit'[f].under = edit[f].under \cup {e}
                        /\ f # e /\ edit[f].pc = "writing"
    <2>1. Noted(e) \in [Edit -> EditState]  BY <1>1, NotedIs
    <2>2. \A f \in Edit : f # e => edit'[f] = Noted(e)[f]  BY <1>8, <2>1
    <2>3. edit'[e].pc = pc /\ edit'[e].kind = Noted(e)[e].kind /\ edit'[e].under = Noted(e)[e].under
      BY <1>8, <2>1 DEF EditState
    <2>4. OthersStay(e)  BY <1>1, <2>2, NotedIs DEF OthersStay
    <2> QED  BY <1>1, <2>2, <2>3, <2>4, NotedIs
  <1>9. ASSUME EditWrites(e)
        PROVE  UNCHANGED <<active, turn, saved>> /\ OthersStay(e) /\ Wrote(e)
    BY <1>8, <1>9 DEF EditWrites, Wrote
  <1>10. ASSUME Abort(e)
         PROVE  UNCHANGED <<active, turn, saved>> /\ OthersStay(e) /\ (GaveUp(e) \/ Wrote(e))
    BY <1>6, <1>8, <1>10 DEF Abort, GaveUp, Wrote
  <1> QED  BY <1>3, <1>4, <1>5, <1>7, <1>9, <1>10 DEF EditNext

----------------------------------------------------------------------------
(* What a step of a turn may be: it enters, loads, is stuck, commits, ends *)
(* (where it does, with or without its place in the queue), saves or tries *)
(* again.                                                                  *)
SameTurns(t) == \A u \in Turn \ {t} : turn'[u] = turn[u]

Entered(t) ==
    /\ turn[t].pc = "idle" /\ turn'[t].pc = "loading"
    /\ active[SessionOf[t]] = NoTurn
    /\ active' = [active EXCEPT ![SessionOf[t]] = t]
    /\ queue' = Append(queue, t)
    /\ UNCHANGED <<record, edit, saved, removed>>

Read(t) ==
    /\ turn[t].pc = "loading" /\ turn'[t].pc = "executing" /\ Holds(t) /\ Leave
    /\ turn'[t].base = record[SessionOf[t]] /\ turn'[t].base # NoRecord
    /\ UNCHANGED <<active, record, edit, saved, removed>>

Stuck(t) ==
    /\ turn[t].pc = "loading" /\ turn'[t].pc = "stuck"
    /\ UNCHANGED <<active, queue, record, edit, saved, removed>>

Committed(t) ==
    /\ turn[t].pc = "executing" /\ turn'[t].pc = "saving"
    /\ queue' = Append(queue, t)
    /\ turn'[t].base = turn[t].base
    /\ turn'[t].new # NoRecord /\ t \in Told(turn'[t].new)
    /\ Told(turn'[t].new) \subseteq Told(turn[t].base) \cup {t}
    /\ UNCHANGED <<active, record, edit, saved, removed>>

Finished(t) ==
    /\ turn'[t].pc = "done"
    /\ active' = [active EXCEPT ![SessionOf[t]] = NoTurn]
    /\ \/ turn[t].pc \in {"loading", "saving"} /\ Holds(t) /\ Leave
       \/ turn[t].pc = "executing" /\ UNCHANGED queue
    /\ UNCHANGED <<record, edit, saved, removed>>

Again(t) ==
    /\ turn[t].pc = "saving" /\ turn'[t].pc = "saving" /\ Holds(t) /\ QueueAgain(t)
    /\ turn'[t].base = turn[t].base /\ turn'[t].new = turn[t].new
    /\ UNCHANGED <<active, record, edit, saved, removed>>

LEMMA TurnCases ==
    ASSUME TypeOK, NEW t \in Turn, TurnNext(t),
           turn[t].pc = "executing" => turn[t].base # NoRecord
    PROVE  /\ SameTurns(t)
           /\ \/ Entered(t) \/ Read(t) \/ Stuck(t) \/ Committed(t) \/ Finished(t) \/ Again(t)
              \/ TurnSaves(t)
  <1>1. turn \in [Turn -> TurnState]  BY DEF TypeOK
  <1>2. ASSUME Ended(t)
        PROVE  SameTurns(t) /\ turn'[t].pc = "done"
    BY <1>1, <1>2 DEF Ended, SameTurns, TurnState
  <1>3. CASE Submit(t)
    <2>1. SameTurns(t) /\ turn'[t].pc = "loading"
      BY <1>1, <1>3 DEF Submit, SameTurns, TurnState
    <2> QED  BY <1>3, <2>1 DEF Submit, Entered
  <1>4. CASE TurnLoads(t)
    <2>1. CASE Ended(t)  BY <1>2, <1>4, <2>1 DEF TurnLoads, Finished, Ended
    <2>2. CASE /\ turn' = [turn EXCEPT ![t].pc = "executing", ![t].base = record[SessionOf[t]]]
               /\ record[SessionOf[t]] # NoRecord /\ UNCHANGED active
      <3>1. /\ SameTurns(t) /\ turn'[t].pc = "executing"
            /\ turn'[t].base = record[SessionOf[t]]
        BY <1>1, <2>2 DEF SameTurns, TurnState
      <3> QED  BY <1>4, <2>2, <3>1 DEF TurnLoads, Read
    <2> QED  BY <1>4, <2>1, <2>2 DEF TurnLoads
  <1>5. CASE AbortSubmit(t)
    <2>1. SameTurns(t) /\ turn'[t].pc = "stuck"
      BY <1>1, <1>5 DEF AbortSubmit, SameTurns, TurnState
    <2> QED  BY <1>5, <2>1 DEF AbortSubmit, Stuck
  <1>6. CASE Commit(t)
    <2>1. PICK new \in Record : /\ turn' = [turn EXCEPT ![t].pc = "saving", ![t].new = new]
                                /\ t \in Told(new)
                                /\ Told(new) \subseteq Told(turn[t].base) \cup {t}
      BY <1>6, CommitIs DEF Commit
    <2>2. /\ SameTurns(t) /\ turn'[t].pc = "saving" /\ turn'[t].new = new
          /\ turn'[t].base = turn[t].base
      BY <1>1, <2>1 DEF SameTurns, TurnState
    <2> QED  BY <1>6, <2>1, <2>2, RecordAssumption DEF Commit, Committed
  <1>7. CASE EndUnsaved(t)  BY <1>2, <1>7 DEF EndUnsaved, Finished, Ended
  <1>8. CASE TurnSaves(t)  BY <1>2, <1>8 DEF TurnSaves
  <1>9. CASE TurnSaveFails(t)
    <2>1. CASE Ended(t) /\ Leave  BY <1>2, <1>9, <2>1 DEF TurnSaveFails, Finished, Ended
    <2>2. CASE /\ turn' = [turn EXCEPT ![t].tries = 1]
               /\ QueueAgain(t) /\ UNCHANGED active
      <3>1. /\ SameTurns(t) /\ turn'[t].pc = turn[t].pc
            /\ turn'[t].base = turn[t].base /\ turn'[t].new = turn[t].new
        BY <1>1, <2>2 DEF SameTurns, TurnState
      <3> QED  BY <1>9, <2>2, <3>1 DEF TurnSaveFails, Again
    <2> QED  BY <1>9, <2>1, <2>2 DEF TurnSaveFails
  <1> QED  BY <1>3, <1>4, <1>5, <1>6, <1>7, <1>8, <1>9 DEF TurnNext

----------------------------------------------------------------------------
(* Steps of the edits keep the invariant. *)
LEMMA EditQueue ==
    ASSUME StoreInv, NEW e \in Edit, EditNext(e)
    PROVE  QueueInv'
  <1>1. /\ TypeOK /\ QueueInv /\ Once /\ queue \in Seq(Task)
        /\ e \in Task /\ \A t \in Turn : t # e
    BY StoreAssumption DEF StoreInv, QueueInv, TypeOK, Task
  <1>2. UNCHANGED turn /\ OthersStay(e) /\ (Began(e) \/ Refused(e) \/ Loaded(e) \/ GaveUp(e) \/ Wrote(e))
    BY <1>1, EditCases
  <1>3. CASE Began(e)
    <2>1. ~InQueue(e)  BY <1>1, <1>3 DEF QueueInv, Began, Working
    <2>2. Once' /\ \A y : InQueue(y)' <=> InQueue(y) \/ y = e
      BY <1>1, <1>3, <2>1, JoinKeeps DEF Began
    <2>3. edit'[e].pc \in Working  BY <1>3 DEF Began, Working
    <2> QED  BY <1>1, <1>2, <2>2, <2>3 DEF QueueInv, OthersStay
  <1>4. CASE Refused(e)
    <2>1. ~InQueue(e)  BY <1>1, <1>4 DEF QueueInv, Refused, Working
    <2>2. Once' /\ \A y : InQueue(y)' <=> InQueue(y)
      BY <1>1, <1>4 DEF Refused, Once, InQueue
    <2>3. edit'[e].pc = "failed"  BY <1>4 DEF Refused
    <2> QED  BY <1>1, <1>2, <2>1, <2>2, <2>3 DEF QueueInv, OthersStay, Working
  <1>5. CASE Loaded(e)
    <2>1. Once' /\ \A y : InQueue(y)' <=> InQueue(y)
      BY <1>1, <1>5, AgainKeeps DEF Loaded
    <2>2. edit'[e].pc \in Working /\ edit[e].pc \in Working  BY <1>5 DEF Loaded, Working
    <2> QED  BY <1>1, <1>2, <2>1, <2>2 DEF QueueInv, OthersStay
  <1>6. CASE GaveUp(e)
    <2>1. Once' /\ \A y : y # e => (InQueue(y)' <=> InQueue(y))
      <3>1. CASE Holds(e) /\ Leave  BY <1>1, <3>1, LeaveKeeps
      <3>2. CASE UNCHANGED queue  BY <1>1, <3>2 DEF Once, InQueue
      <3> QED  BY <1>6, <3>1, <3>2 DEF GaveUp
    <2>2. edit'[e].pc = "failed"  BY <1>6 DEF GaveUp
    <2> QED  BY <1>1, <1>2, <2>1, <2>2 DEF QueueInv, OthersStay, Working
  <1>7. CASE Wrote(e)
    <2>1. Once' /\ \A y : InQueue(y)' <=> InQueue(y) /\ y # e
      BY <1>1, <1>7, LeaveKeeps DEF Wrote
    <2>2. edit'[e].pc \in {"ok", "failed"}  BY <1>7 DEF Wrote
    <2> QED  BY <1>1, <1>2, <2>1, <2>2 DEF QueueInv, OthersStay, Working
  <1> QED  BY <1>2, <1>3, <1>4, <1>5, <1>6, <1>7

LEMMA EditEdit ==
    ASSUME StoreInv, NEW e \in Edit, EditNext(e)
    PROVE  EditInv'
  <1>1. TypeOK /\ EditInv  BY DEF StoreInv
  <1>2. OthersStay(e) /\ (Began(e) \/ Refused(e) \/ Loaded(e) \/ GaveUp(e) \/ Wrote(e))
    BY <1>1, EditCases
  <1>3. /\ edit'[e].pc \in {"idle", "loading"} => edit'[e].seen = NoRecord
        /\ edit'[e].pc = "loading" => edit'[e].kind \notin {"create", "delete"}
        /\ edit'[e].pc = "writing" =>
              (edit'[e].seen = NoRecord <=> edit'[e].kind \in {"create", "delete"})
    <2>1. CASE Began(e)  BY <1>1, <2>1 DEF Began, EditInv
    <2>2. CASE Refused(e)  BY <2>2 DEF Refused
    <2>3. CASE Loaded(e)  BY <1>1, <2>3 DEF Loaded, EditInv
    <2>4. CASE GaveUp(e)  BY <2>4 DEF GaveUp
    <2>5. CASE Wrote(e)  BY <2>5 DEF Wrote
    <2> QED  BY <1>2, <2>1, <2>2, <2>3, <2>4, <2>5
  <1>4. \A f \in Edit : /\ f # e /\ edit'[e].pc \in Working /\ edit[f].pc \in Working
                        => Service(edit'[e].kind) # Service(edit[f].kind)
    <2>1. CASE Began(e)  BY <2>1 DEF Began
    <2>2. CASE Refused(e)  BY <2>2 DEF Refused, Working
    <2>3. CASE Loaded(e)  BY <1>1, <2>3 DEF Loaded, EditInv, Working
    <2>4. CASE GaveUp(e)  BY <2>4 DEF GaveUp, Working
    <2>5. CASE Wrote(e)  BY <2>5 DEF Wrote, Working
    <2> QED  BY <1>2, <2>1, <2>2, <2>3, <2>4, <2>5
  <1> QED  BY <1>1, <1>2, <1>3, <1>4 DEF EditInv, OthersStay

LEMMA EditOrder ==
    ASSUME StoreInv, NEW e \in Edit, EditNext(e)
    PROVE  OrderInv'
  <1>1. /\ TypeOK /\ LeaseInv /\ QueueInv /\ OrderInv /\ Once /\ queue \in Seq(Task)
        /\ e \in Task /\ \A t \in Turn : t # e /\ t # NoTurn
    BY StoreAssumption DEF StoreInv, QueueInv, TypeOK, Task
  <1>2. UNCHANGED turn /\ OthersStay(e) /\ (Began(e) \/ Refused(e) \/ Loaded(e) \/ GaveUp(e) \/ Wrote(e))
    BY <1>1, EditCases
  <1>3. \A f \in Edit, t \in Turn : f # e /\ Ahead(f, t) => Ahead(f, t)'
    <2>1. CASE Began(e)
      <3>1. ~InQueue(e)  BY <1>1, <2>1 DEF QueueInv, Began, Working
      <3> QED  BY <1>1, <2>1, <3>1, JoinKeeps DEF Began
    <2>2. CASE UNCHANGED queue  BY <2>2 DEF Ahead
    <2>3. CASE Loaded(e)  BY <1>1, <2>3, AgainKeeps DEF Loaded
    <2>4. CASE Holds(e) /\ Leave  BY <1>1, <2>4, LeaveKeeps
    <2> QED  BY <1>2, <2>1, <2>2, <2>3, <2>4 DEF Refused, GaveUp, Wrote
  <1>4. ASSUME NEW t \in Turn, SessionOf[t] = SessionOf[e]
        PROVE  /\ turn[t].pc = "loading" => edit'[e].pc # "loading"
               /\ turn[t].pc \in {"executing", "saving"} => edit'[e].pc # "loading"
               /\ ~(turn[t].pc = "saving" /\ edit'[e].pc = "writing" /\ edit'[e].seen # NoRecord)
    <2>1. CASE Began(e)
      <3>1. CASE edit'[e].kind = "create"
        BY <1>1, <1>4, <2>1, <3>1 DEF Began, StoreInv, EditInv
      <3>2. CASE active[SessionOf[e]] = NoTurn
        BY <1>1, <1>4, <3>2 DEF LeaseInv
      <3> QED  BY <2>1, <3>1, <3>2 DEF Began
    <2>2. CASE Refused(e)  BY <2>2 DEF Refused
    <2>3. CASE Loaded(e)  BY <1>1, <1>4, <2>3 DEF Loaded, OrderInv
    <2>4. CASE GaveUp(e)  BY <2>4 DEF GaveUp
    <2>5. CASE Wrote(e)  BY <2>5 DEF Wrote
    <2> QED  BY <1>2, <2>1, <2>2, <2>3, <2>4, <2>5
  <1>5. ASSUME NEW t \in Turn, NEW f \in Edit, SessionOf[t] = SessionOf[f], f # e
        PROVE  /\ turn'[t].pc = "loading" /\ edit'[f].pc = "loading" => Ahead(f, t)'
               /\ turn'[t].pc \in {"executing", "saving"} => edit'[f].pc # "loading"
               /\ turn'[t].pc = "saving" /\ edit'[f].pc = "writing" /\ edit'[f].seen # NoRecord
                     => Ahead(f, t)'
    BY <1>1, <1>2, <1>3, <1>5 DEF OrderInv, OthersStay
  <1> QED  BY <1>2, <1>4, <1>5 DEF OrderInv

LEMMA EditUnder ==
    ASSUME StoreInv, NEW e \in Edit, EditNext(e)
    PROVE  UnderInv'
  <1>1. TypeOK /\ EditInv /\ UnderInv  BY DEF StoreInv
  <1>2. OthersStay(e) /\ (Began(e) \/ Refused(e) \/ Loaded(e) \/ GaveUp(e) \/ Wrote(e))
    BY <1>1, EditCases
  <1>3. \A f \in Edit : edit'[f].pc # "idle" \/ (edit'[f].pc = edit[f].pc /\ f # e)
    BY <1>2 DEF OthersStay, Began, Refused, Loaded, GaveUp, Wrote
  <1>4. \A f \in Edit : edit[f].pc # "idle" => edit'[f].kind = edit[f].kind
    BY <1>2 DEF OthersStay, Began, Refused, Loaded, GaveUp, Wrote
  <1>5. ASSUME NEW f \in Edit, NEW x \in edit'[f].under, x \in edit[f].under
        PROVE  /\ x \in Edit /\ edit'[x].pc # "idle"
               /\ Service(edit'[x].kind) # Service(edit'[f].kind)
    BY <1>1, <1>3, <1>4, <1>5 DEF UnderInv
  <1>6. ASSUME NEW f \in Edit, NEW x \in edit'[f].under, x \notin edit[f].under
        PROVE  /\ x \in Edit /\ edit'[x].pc # "idle"
               /\ Service(edit'[x].kind) # Service(edit'[f].kind)
    <2>1. Wrote(e) /\ x = e /\ f # e /\ edit[f].pc = "writing"
      BY <1>2, <1>6 DEF Began, Refused, Loaded, GaveUp, Wrote
    <2>2. edit[e].pc = "writing"  BY <2>1 DEF Wrote
    <2>3. Service(edit[e].kind) # Service(edit[f].kind)
      BY <1>1, <2>1, <2>2 DEF EditInv, Working
    <2> QED  BY <1>3, <1>4, <2>1, <2>2, <2>3
  <1>7. ASSUME NEW f \in Edit, edit'[f].pc = "idle" PROVE edit'[f].under = {}
    <2>1. f # e /\ edit[f].pc = "idle"  BY <1>3, <1>7
    <2> QED  BY <1>1, <1>2, <2>1 DEF UnderInv, Began, Refused, Loaded, GaveUp, Wrote
  <1> QED  BY <1>5, <1>6, <1>7 DEF UnderInv

LEMMA EditSaved ==
    ASSUME StoreInv, NEW e \in Edit, EditNext(e)
    PROVE  SavedInv'
  <1>1. TypeOK /\ EditInv /\ SavedInv /\ SessionOf[e] \in Session
    BY StoreAssumption DEF StoreInv, Task
  <1>2. /\ UNCHANGED <<turn, saved>> /\ OthersStay(e)
        /\ Began(e) \/ Refused(e) \/ Loaded(e) \/ GaveUp(e) \/ Wrote(e)
    BY <1>1, EditCases
  <1>3. removed \subseteq removed'
    BY <1>2 DEF Began, Refused, Loaded, GaveUp, Wrote, Applied
  <1>4. \A r, s : Kept(r, s) => (\A u \in saved' \ removed' : SessionOf[u] = s => u \in Told(r))
    BY <1>2, <1>3 DEF Kept
  <1>5. \A s \in Session : Kept(record[s], s)'
    <2>1. CASE UNCHANGED record  BY <1>1, <1>4, <2>1 DEF SavedInv, Kept
    <2>2. CASE Wrote(e)
      <3> SUFFICES ASSUME NEW s \in Session, NEW u \in saved \ removed', SessionOf[u] = s
                   PROVE  u \in Told(record'[s])
        BY <1>2 DEF Kept
      <3>1. u \in Told(record[s])  BY <1>1, <1>3 DEF SavedInv, Kept
      <3>2. CASE s # SessionOf[e]
        BY <1>1, <2>2, <3>1, <3>2 DEF Wrote, Applied, TypeOK
      <3>3. CASE s = SessionOf[e] /\ edit[e].seen = NoRecord
        BY <2>2, <3>1, <3>3 DEF Wrote, Applied
      <3>4. CASE s = SessionOf[e] /\ edit[e].seen # NoRecord
        <4>1. edit[e].pc = "writing"  BY <2>2 DEF Wrote
        <4>2. u \in Told(edit[e].seen)  BY <1>1, <1>3, <3>4, <4>1 DEF SavedInv, Kept
        <4>3. u \in Told(edit[e].new)  BY <2>2, <3>4, <4>2 DEF Wrote, Applied
        <4>4. edit[e].kind \notin {"create", "delete"}  BY <1>1, <3>4, <4>1 DEF EditInv
        <4>5. record'[s] = edit[e].new
          BY <1>1, <2>2, <3>4, <4>4 DEF Wrote, Applied, TypeOK
        <4> QED  BY <4>3, <4>5
      <3> QED  BY <3>2, <3>3, <3>4
    <2> QED  BY <1>2, <2>1, <2>2 DEF Began, Refused, Loaded, GaveUp
  <1>6. ASSUME NEW f \in Edit, edit'[f].pc = "writing", edit'[f].seen # NoRecord
        PROVE  Kept(edit[f].seen, SessionOf[f])'
    <2>1. CASE f # e
      <3>1. Kept(edit[f].seen, SessionOf[f]) /\ edit'[f].seen = edit[f].seen
        BY <1>1, <1>2, <1>6, <2>1 DEF SavedInv, OthersStay
      <3> QED  BY <1>4, <3>1 DEF Kept
    <2>2. CASE f = e /\ Loaded(e)
      <3>1. Kept(record[SessionOf[e]], SessionOf[e]) /\ edit'[e].seen = record[SessionOf[e]]
        BY <1>1, <2>2 DEF SavedInv, Loaded
      <3> QED  BY <1>4, <2>2, <3>1 DEF Kept
    <2>3. CASE f = e /\ Began(e)
      BY <1>1, <1>6, <2>3 DEF Began, EditInv
    <2> QED  BY <1>2, <1>6, <2>1, <2>2, <2>3 DEF Refused, GaveUp, Wrote
  <1>7. ASSUME NEW t \in Turn, turn'[t].pc \in {"executing", "saving"}
        PROVE  Kept(turn[t].base, SessionOf[t])' /\ turn'[t].base # NoRecord
    <2>1. Kept(turn[t].base, SessionOf[t]) /\ turn[t].base # NoRecord
      BY <1>1, <1>2, <1>7 DEF SavedInv
    <2> QED  BY <1>2, <1>4, <2>1 DEF Kept
  <1>8. \A t \in Turn : turn'[t].pc = "saving" =>
                            turn'[t].new # NoRecord /\ t \in Told(turn'[t].new)
    BY <1>1, <1>2 DEF SavedInv
  <1> QED  BY <1>5, <1>6, <1>7, <1>8 DEF SavedInv

(* What an edit writes: what it computed, or nothing at all.               *)
LEMMA WriteIs ==
    ASSUME StoreInv, NEW e \in Edit, Wrote(e)
    PROVE  /\ \A s \in Session : s # SessionOf[e] => record'[s] = record[s]
           /\ edit[e].seen = NoRecord =>
                 /\ Told(record'[SessionOf[e]]) = {}
                 /\ removed' = removed \cup Told(record[SessionOf[e]])
           /\ edit[e].seen # NoRecord =>
                 /\ record'[SessionOf[e]] = edit[e].new
                 /\ removed' = removed \cup (Told(edit[e].seen) \ Told(edit[e].new))
  <1>1. /\ TypeOK /\ EditInv /\ SessionOf[e] \in Session /\ record \in [Session -> MaybeRecord]
        /\ edit[e].pc = "writing" /\ Applied(e)
    BY StoreAssumption DEF StoreInv, TypeOK, Task, Wrote
  <1>2. Told(NoRecord) = {} /\ Told(EmptyRecord) = {}  BY EmptyIs
  <1>3. edit[e].seen = NoRecord <=> edit[e].kind \in {"create", "delete"}
    BY <1>1 DEF EditInv
  <1> QED  BY <1>1, <1>2, <1>3 DEF Applied

LEMMA EditTells ==
    ASSUME StoreInv, NEW e \in Edit, EditNext(e)
    PROVE  TellsInv'
  <1>1. /\ TypeOK /\ EditInv /\ TellsInv /\ e \in Task
        /\ \A f \in Edit : SessionOf[f] \in Session
    BY StoreAssumption DEF StoreInv, Task
  <1>2. /\ UNCHANGED <<turn, saved>> /\ OthersStay(e)
        /\ Began(e) \/ Refused(e) \/ Loaded(e) \/ GaveUp(e) \/ Wrote(e)
    BY <1>1, EditCases
  <1>3. \A s : SavedIn(s)' = SavedIn(s)  BY <1>2 DEF SavedIn
  <1>4. ASSUME NEW s \in Session  PROVE Told(record'[s]) \subseteq SavedIn(s)
    <2>1. CASE UNCHANGED record  BY <1>1, <2>1 DEF TellsInv
    <2>2. CASE Wrote(e)
      <3>1. edit[e].pc = "writing"  BY <2>2 DEF Wrote
      <3> QED  BY <1>1, <2>2, <3>1, WriteIs DEF TellsInv
    <2> QED  BY <1>2, <2>1, <2>2 DEF Began, Refused, Loaded, GaveUp
  <1>5. ASSUME NEW f \in Edit, edit'[f].pc = "writing", edit'[f].seen # NoRecord
        PROVE  Told(edit'[f].seen) \cup Told(edit'[f].new) \subseteq SavedIn(SessionOf[f])
    <2>1. CASE f # e  BY <1>1, <1>2, <1>5, <2>1 DEF TellsInv, OthersStay
    <2>2. CASE f = e /\ Loaded(e)  BY <1>1, <2>2 DEF TellsInv, Loaded
    <2>3. CASE f = e /\ Began(e)  BY <1>1, <1>5, <2>3 DEF Began, EditInv
    <2> QED  BY <1>2, <1>5, <2>1, <2>2, <2>3 DEF Refused, GaveUp, Wrote
  <1>6. \A t \in Turn :
          /\ turn'[t].pc \in {"executing", "saving"} =>
                Told(turn'[t].base) \subseteq SavedIn(SessionOf[t])
          /\ turn'[t].pc = "saving" =>
                Told(turn'[t].new) \subseteq SavedIn(SessionOf[t]) \cup {t}
          /\ t \in saved' => turn'[t].pc = "done"
    BY <1>1, <1>2 DEF TellsInv
  <1> QED  BY <1>3, <1>4, <1>5, <1>6 DEF TellsInv

----------------------------------------------------------------------------
(* Steps of the turns keep the invariant. *)
LEMMA TurnLease ==
    ASSUME StoreInv, NEW t \in Turn, TurnNext(t)
    PROVE  LeaseInv'
  <1>1. /\ TypeOK /\ LeaseInv /\ SessionOf[t] \in Session
        /\ \A u \in Turn : SessionOf[u] \in Session /\ u # NoTurn
        /\ active \in [Session -> Turn \cup {NoTurn}]
    BY StoreAssumption DEF StoreInv, TypeOK, Task
  <1>2. /\ SameTurns(t)
        /\ \/ Entered(t) \/ Read(t) \/ Stuck(t) \/ Committed(t) \/ Finished(t) \/ Again(t)
           \/ TurnSaves(t)
    BY <1>1, TurnCases DEF StoreInv, SavedInv
  <1>3. CASE Entered(t)  BY <1>1, <1>2, <1>3 DEF Entered, LeaseInv, SameTurns
  <1>4. CASE Read(t) \/ Stuck(t) \/ Committed(t) \/ Again(t)
    BY <1>1, <1>2, <1>4 DEF Read, Stuck, Committed, Again, LeaseInv, SameTurns
  <1>5. CASE /\ turn[t].pc \in {"loading", "executing", "saving"} /\ turn'[t].pc = "done"
             /\ active' = [active EXCEPT ![SessionOf[t]] = NoTurn]
    <2>1. active[SessionOf[t]] = t  BY <1>1, <1>5 DEF LeaseInv
    <2> QED  BY <1>1, <1>2, <1>5, <2>1 DEF LeaseInv, SameTurns
  <1>6. CASE TurnSaves(t)
    <2>1. turn'[t].pc = "done"  BY <1>1, <1>6 DEF TurnSaves, Ended, TypeOK, TurnState
    <2> QED  BY <1>5, <1>6, <2>1 DEF TurnSaves, Ended
  <1>7. CASE Finished(t)  BY <1>5, <1>7 DEF Finished
  <1> QED  BY <1>2, <1>3, <1>4, <1>6, <1>7

(* A save leaves the edits where they are.                                 *)
LEMMA SaveIs ==
    ASSUME TypeOK, NEW t \in Turn, TurnSaves(t)
    PROVE  /\ turn[t].pc = "saving" /\ turn'[t].pc = "done" /\ Holds(t) /\ Leave
           /\ \A f \in Edit :
                 /\ edit'[f].pc = edit[f].pc /\ edit'[f].kind = edit[f].kind
                 /\ edit'[f].seen = edit[f].seen /\ edit'[f].new = edit[f].new
                 /\ \/ edit'[f].under = edit[f].under
                    \/ /\ edit[f].pc = "writing" /\ edit[f].seen # NoRecord
                       /\ SessionOf[f] = SessionOf[t]
  <1>1. t \in Task /\ turn \in [Turn -> TurnState]  BY DEF Task, TypeOK
  <1>2. turn'[t].pc = "done"  BY <1>1 DEF TurnSaves, Ended, TurnState
  <1>3. edit' = Noted(t)  BY DEF TurnSaves
  <1> QED  BY <1>1, <1>2, <1>3, NotedIs DEF TurnSaves

LEMMA TurnQueue ==
    ASSUME StoreInv, NEW t \in Turn, TurnNext(t)
    PROVE  QueueInv'
  <1>1. /\ TypeOK /\ QueueInv /\ Once /\ queue \in Seq(Task)
        /\ t \in Task /\ \A f \in Edit : f # t
    BY StoreAssumption DEF StoreInv, QueueInv, TypeOK, Task
  <1>2. /\ SameTurns(t)
        /\ \/ Entered(t) \/ Read(t) \/ Stuck(t) \/ Committed(t) \/ Finished(t) \/ Again(t)
           \/ TurnSaves(t)
    BY <1>1, TurnCases DEF StoreInv, SavedInv
  <1>3. CASE Entered(t) \/ Committed(t)
    <2>1. ~InQueue(t)  BY <1>1, <1>3 DEF QueueInv, Entered, Committed
    <2>2. Once' /\ \A y : InQueue(y)' <=> InQueue(y) \/ y = t
      BY <1>1, <1>3, <2>1, JoinKeeps DEF Entered, Committed
    <2>3. turn'[t].pc \in {"loading", "saving"} /\ UNCHANGED edit
      BY <1>3 DEF Entered, Committed
    <2> QED  BY <1>1, <1>2, <2>2, <2>3 DEF QueueInv, SameTurns
  <1>4. CASE Stuck(t)
    <2>1. Once' /\ \A y : InQueue(y)' <=> InQueue(y)
      BY <1>1, <1>4 DEF Stuck, Once, InQueue
    <2> QED  BY <1>1, <1>2, <1>4, <2>1 DEF QueueInv, SameTurns, Stuck
  <1>5. CASE Again(t)
    <2>1. Once' /\ \A y : InQueue(y)' <=> InQueue(y)
      BY <1>1, <1>5, AgainKeeps DEF Again
    <2> QED  BY <1>1, <1>2, <1>5, <2>1 DEF QueueInv, SameTurns, Again
  <1>6. CASE Holds(t) /\ Leave /\ turn'[t].pc \in {"executing", "done"}
             /\ \A f \in Edit : edit'[f].pc = edit[f].pc
    <2>1. Once' /\ \A y : InQueue(y)' <=> InQueue(y) /\ y # t
      BY <1>1, <1>6, LeaveKeeps
    <2> QED  BY <1>1, <1>2, <1>6, <2>1 DEF QueueInv, SameTurns
  <1>7. CASE UNCHANGED <<queue, edit>> /\ turn[t].pc = "executing" /\ turn'[t].pc = "done"
    <2>1. Once' /\ \A y : InQueue(y)' <=> InQueue(y)
      BY <1>1, <1>7 DEF Once, InQueue
    <2> QED  BY <1>1, <1>2, <1>7, <2>1 DEF QueueInv, SameTurns
  <1>8. CASE TurnSaves(t)  BY <1>1, <1>6, <1>8, SaveIs
  <1>9. CASE Read(t)  BY <1>6, <1>9 DEF Read
  <1>10. CASE Finished(t)  BY <1>6, <1>7, <1>10 DEF Finished
  <1> QED  BY <1>2, <1>3, <1>4, <1>5, <1>8, <1>9, <1>10

(* Whoever holds the lock has nobody ahead: a turn that loads finds no     *)
(* edit of its session about to load, and one that saves finds none that   *)
(* has loaded and not written.                                             *)
LEMMA NoEditAhead ==
    ASSUME StoreInv, NEW t \in Turn, Holds(t), NEW e \in Edit, SessionOf[t] = SessionOf[e]
    PROVE  /\ turn[t].pc = "loading" => edit[e].pc # "loading"
           /\ turn[t].pc = "saving" => ~(edit[e].pc = "writing" /\ edit[e].seen # NoRecord)
  <1>1. queue \in Seq(Task) /\ OrderInv /\ (edit[e].pc \in Working => InQueue(e))
    BY DEF StoreInv, TypeOK, QueueInv
  <1>2. InQueue(e) => ~Ahead(e, t)  BY <1>1, HeadIsFirst
  <1> QED  BY <1>1, <1>2 DEF OrderInv, Working

LEMMA TurnOrder ==
    ASSUME StoreInv, NEW t \in Turn, TurnNext(t)
    PROVE  OrderInv'
  <1>1. /\ TypeOK /\ QueueInv /\ OrderInv /\ Once /\ queue \in Seq(Task)
        /\ t \in Task /\ \A f \in Edit : f # t
    BY StoreAssumption DEF StoreInv, QueueInv, TypeOK, Task
  <1>2. /\ SameTurns(t)
        /\ \/ Entered(t) \/ Read(t) \/ Stuck(t) \/ Committed(t) \/ Finished(t) \/ Again(t)
           \/ TurnSaves(t)
    BY <1>1, TurnCases DEF StoreInv, SavedInv
  <1>3. \A f \in Edit : edit'[f].pc = edit[f].pc /\ edit'[f].seen = edit[f].seen
    BY <1>1, <1>2, SaveIs DEF Entered, Read, Stuck, Committed, Finished, Again
  <1>4. (Entered(t) \/ Committed(t)) => ~InQueue(t)
    BY <1>1 DEF QueueInv, Entered, Committed
  <1>5. \A f \in Edit, u \in Turn : u # t /\ Ahead(f, u) => Ahead(f, u)'
    <2>1. CASE Entered(t) \/ Committed(t)
      BY <1>1, <1>4, <2>1, JoinKeeps DEF Entered, Committed
    <2>2. CASE UNCHANGED queue  BY <2>2 DEF Ahead
    <2>3. CASE Again(t)  BY <1>1, <2>3, AgainKeeps DEF Again
    <2>4. CASE Holds(t) /\ Leave  BY <1>1, <2>4, LeaveKeeps
    <2> QED  BY <1>1, <1>2, <2>1, <2>2, <2>3, <2>4, SaveIs DEF Read, Stuck, Finished
  <1>6. \A f \in Edit : turn'[t].pc \in {"loading", "saving"} => Ahead(f, t)'
    <2>1. CASE Entered(t) \/ Committed(t)
      BY <1>1, <1>4, <2>1, JoinKeeps DEF Entered, Committed
    <2>2. CASE Again(t)  BY <1>1, <2>2, AgainKeeps DEF Again
    <2>3. CASE turn'[t].pc \notin {"loading", "saving"}  BY <2>3
    <2> QED  BY <1>1, <1>2, <2>1, <2>2, <2>3, SaveIs DEF Read, Stuck, Finished
  <1>7. ASSUME NEW f \in Edit, SessionOf[t] = SessionOf[f],
               turn'[t].pc \in {"executing", "saving"}
        PROVE  edit[f].pc # "loading"
    <2>1. CASE Read(t)  BY <1>7, <2>1, NoEditAhead DEF Read
    <2>2. CASE turn[t].pc \in {"executing", "saving"}  BY <1>1, <1>7, <2>2 DEF OrderInv
    <2> QED  BY <1>1, <1>2, <1>7, <2>1, <2>2, SaveIs
             DEF Entered, Stuck, Committed, Finished, Again
  <1>8. ASSUME NEW u \in Turn, NEW f \in Edit, SessionOf[u] = SessionOf[f]
        PROVE  /\ turn'[u].pc = "loading" /\ edit'[f].pc = "loading" => Ahead(f, u)'
               /\ turn'[u].pc \in {"executing", "saving"} => edit'[f].pc # "loading"
               /\ turn'[u].pc = "saving" /\ edit'[f].pc = "writing" /\ edit'[f].seen # NoRecord
                     => Ahead(f, u)'
    <2>1. CASE u = t  BY <1>3, <1>6, <1>7, <1>8, <2>1
    <2>2. CASE u # t
      <3>1. turn'[u] = turn[u]  BY <1>2, <2>2 DEF SameTurns
      <3> QED  BY <1>1, <1>3, <1>5, <1>8, <2>2, <3>1 DEF OrderInv
    <2> QED  BY <2>1, <2>2
  <1> QED  BY <1>8 DEF OrderInv

LEMMA TurnEdit ==
    ASSUME StoreInv, NEW t \in Turn, TurnNext(t)
    PROVE  EditInv' /\ UnderInv'
  <1>1. TypeOK /\ EditInv /\ UnderInv  BY DEF StoreInv
  <1>2. \/ Entered(t) \/ Read(t) \/ Stuck(t) \/ Committed(t) \/ Finished(t) \/ Again(t)
        \/ TurnSaves(t)
    BY <1>1, TurnCases DEF StoreInv, SavedInv
  <1>3. \A f \in Edit : /\ edit'[f].pc = edit[f].pc /\ edit'[f].kind = edit[f].kind
                        /\ edit'[f].seen = edit[f].seen
                        /\ edit'[f].under = edit[f].under
    BY <1>1, <1>2, SaveIs, NoEditAhead DEF Entered, Read, Stuck, Committed, Finished, Again
  <1>4. EditInv'  BY <1>1, <1>3 DEF EditInv
  <1>5. UnderInv'  BY <1>1, <1>3 DEF UnderInv
  <1> QED  BY <1>4, <1>5

LEMMA TurnSaved ==
    ASSUME StoreInv, NEW t \in Turn, TurnNext(t)
    PROVE  SavedInv'
  <1>1. /\ TypeOK /\ SavedInv /\ LeaseInv /\ SessionOf[t] \in Session
        /\ record \in [Session -> MaybeRecord]
    BY StoreAssumption DEF StoreInv, Task, TypeOK
  <1>2. /\ SameTurns(t)
        /\ \/ Entered(t) \/ Read(t) \/ Stuck(t) \/ Committed(t) \/ Finished(t) \/ Again(t)
           \/ TurnSaves(t)
    BY <1>1, TurnCases DEF SavedInv
  <1>3. CASE TurnSaves(t)
    <2>1. turn[t].pc = "saving" /\ turn'[t].pc = "done"  BY <1>1, <1>3, SaveIs
    <2>2. /\ record' = [record EXCEPT ![SessionOf[t]] = turn[t].new]
          /\ removed' = removed \cup (Told(turn[t].base) \ Told(turn[t].new))
          /\ saved' = saved \cup {t}
      BY <1>3 DEF TurnSaves
    <2>3. \A r, s : Kept(r, s) /\ s # SessionOf[t]
             => \A u \in saved' \ removed' : SessionOf[u] = s => u \in Told(r)
      BY <2>2 DEF Kept
    <2>4. ASSUME NEW s \in Session PROVE Kept(record[s], s)'
      <3>1. CASE s # SessionOf[t]
        <4>1. record'[s] = record[s] /\ Kept(record[s], s)
          BY <1>1, <2>2, <3>1 DEF SavedInv
        <4> QED  BY <2>3, <3>1, <4>1 DEF Kept
      <3>2. CASE s = SessionOf[t]
        <4> SUFFICES ASSUME NEW u \in saved' \ removed', SessionOf[u] = s
                     PROVE  u \in Told(turn[t].new)
          BY <1>1, <2>2, <3>2 DEF Kept
        <4>1. CASE u = t  BY <1>1, <2>1, <4>1 DEF SavedInv
        <4>2. CASE u # t
          <5>1. u \in Told(turn[t].base)
            BY <1>1, <2>1, <2>2, <3>2, <4>2 DEF SavedInv, Kept
          <5> QED  BY <2>2, <5>1
        <4> QED  BY <4>1, <4>2
      <3> QED  BY <3>1, <3>2
    <2>5. ASSUME NEW f \in Edit, edit'[f].pc = "writing", edit'[f].seen # NoRecord
          PROVE  Kept(edit[f].seen, SessionOf[f])'
      <3>1. edit[f].pc = "writing" /\ edit'[f].seen = edit[f].seen  BY <1>1, <1>3, <2>5, SaveIs
      <3>2. SessionOf[f] # SessionOf[t]
        BY <1>1, <1>3, <2>1, <2>5, <3>1, SaveIs, NoEditAhead
      <3>3. Kept(edit[f].seen, SessionOf[f])  BY <1>1, <2>5, <3>1 DEF SavedInv
      <3> QED  BY <2>3, <3>1, <3>2, <3>3 DEF Kept
    <2>6. ASSUME NEW u \in Turn, turn'[u].pc \in {"executing", "saving"}
          PROVE  /\ Kept(turn[u].base, SessionOf[u])' /\ turn'[u].base # NoRecord
                 /\ turn'[u].pc = "saving" => turn'[u].new # NoRecord /\ u \in Told(turn'[u].new)
      <3>1. u # t /\ turn'[u] = turn[u]  BY <1>2, <2>1, <2>6 DEF SameTurns
      <3>2. SessionOf[u] # SessionOf[t]  BY <1>1, <2>1, <2>6, <3>1 DEF LeaseInv
      <3>3. /\ Kept(turn[u].base, SessionOf[u]) /\ turn[u].base # NoRecord
            /\ turn[u].pc = "saving" => turn[u].new # NoRecord /\ u \in Told(turn[u].new)
        BY <1>1, <2>6, <3>1 DEF SavedInv
      <3> QED  BY <2>3, <3>1, <3>2, <3>3 DEF Kept
    <2> QED  BY <2>4, <2>5, <2>6 DEF SavedInv
  <1>4. CASE UNCHANGED <<record, edit, saved, removed>>
    <2>1. \A r, s : Kept(r, s)
             => \A u \in saved' \ removed' : SessionOf[u] = s => u \in Told(r)
      BY <1>4 DEF Kept
    <2>2. \A s \in Session : Kept(record[s], s)'
      BY <1>1, <1>4 DEF SavedInv, Kept
    <2>3. \A f \in Edit : edit'[f].pc = "writing" /\ edit'[f].seen # NoRecord
                              => Kept(edit[f].seen, SessionOf[f])'
      BY <1>1, <1>4 DEF SavedInv, Kept
    <2>4. \A u \in Turn \ {t} : turn'[u].pc \in {"executing", "saving"} =>
             /\ Kept(turn[u].base, SessionOf[u])' /\ turn'[u].base # NoRecord
             /\ turn'[u].pc = "saving" => turn'[u].new # NoRecord /\ u \in Told(turn'[u].new)
      BY <1>1, <1>2, <1>4 DEF SavedInv, Kept, SameTurns
    <2>5. ASSUME turn'[t].pc \in {"executing", "saving"}
          PROVE  Kept(turn[t].base, SessionOf[t])' /\ turn'[t].base # NoRecord
      <3>1. CASE Read(t)
        <4>1. Kept(record[SessionOf[t]], SessionOf[t])  BY <1>1 DEF SavedInv
        <4> QED  BY <2>1, <3>1, <4>1 DEF Read, Kept
      <3>2. CASE Committed(t) \/ Again(t)
        <4>1. Kept(turn[t].base, SessionOf[t]) /\ turn[t].base # NoRecord
              /\ turn'[t].base = turn[t].base
          BY <1>1, <3>2 DEF SavedInv, Committed, Again
        <4> QED  BY <2>1, <4>1 DEF Kept
      <3> QED  BY <1>1, <1>2, <2>5, <3>1, <3>2, SaveIs DEF Entered, Stuck, Finished
    <2>6. turn'[t].pc = "saving" => turn'[t].new # NoRecord /\ t \in Told(turn'[t].new)
      BY <1>1, <1>2, SaveIs
      DEF Entered, Read, Stuck, Committed, Finished, Again, SavedInv
    <2> QED  BY <2>2, <2>3, <2>4, <2>5, <2>6 DEF SavedInv
  <1> QED
    BY <1>2, <1>3, <1>4 DEF Entered, Read, Stuck, Committed, Finished, Again

LEMMA TurnTells ==
    ASSUME StoreInv, NEW t \in Turn, TurnNext(t)
    PROVE  TellsInv'
  <1>1. /\ TypeOK /\ TellsInv /\ record \in [Session -> MaybeRecord]
        /\ \A u \in Turn : SessionOf[u] \in Session
    BY StoreAssumption DEF StoreInv, Task, TypeOK
  <1>2. /\ SameTurns(t)
        /\ \/ Entered(t) \/ Read(t) \/ Stuck(t) \/ Committed(t) \/ Finished(t) \/ Again(t)
           \/ TurnSaves(t)
    BY <1>1, TurnCases DEF StoreInv, SavedInv
  <1>3. CASE TurnSaves(t)
    <2>1. /\ turn[t].pc = "saving" /\ turn'[t].pc = "done"
          /\ \A f \in Edit : /\ edit'[f].pc = edit[f].pc /\ edit'[f].seen = edit[f].seen
                              /\ edit'[f].new = edit[f].new
      BY <1>1, <1>3, SaveIs
    <2>2. /\ record' = [record EXCEPT ![SessionOf[t]] = turn[t].new]
          /\ saved' = saved \cup {t}
      BY <1>3 DEF TurnSaves
    <2>3. \A s : SavedIn(s) \subseteq SavedIn(s)'  BY <2>2 DEF SavedIn
    <2>4. ASSUME NEW s \in Session  PROVE Told(record'[s]) \subseteq SavedIn(s)'
      <3>1. CASE s # SessionOf[t]  BY <1>1, <2>2, <2>3, <3>1 DEF TellsInv
      <3>2. CASE s = SessionOf[t]
        <4>1. record'[s] = turn[t].new  BY <1>1, <2>2, <3>2
        <4>2. Told(turn[t].new) \subseteq SavedIn(s) \cup {t}  BY <1>1, <2>1, <3>2 DEF TellsInv
        <4>3. t \in SavedIn(s)'  BY <2>2, <3>2 DEF SavedIn
        <4> QED  BY <2>3, <4>1, <4>2, <4>3
      <3> QED  BY <3>1, <3>2
    <2>5. ASSUME NEW f \in Edit, edit'[f].pc = "writing", edit'[f].seen # NoRecord
          PROVE  Told(edit'[f].seen) \cup Told(edit'[f].new) \subseteq SavedIn(SessionOf[f])'
      BY <1>1, <2>1, <2>3, <2>5 DEF TellsInv
    <2>6. ASSUME NEW u \in Turn
          PROVE  /\ turn'[u].pc \in {"executing", "saving"} =>
                       Told(turn'[u].base) \subseteq SavedIn(SessionOf[u])'
                 /\ turn'[u].pc = "saving" =>
                       Told(turn'[u].new) \subseteq SavedIn(SessionOf[u])' \cup {u}
                 /\ u \in saved' => turn'[u].pc = "done"
      <3>1. CASE u = t  BY <2>1, <3>1
      <3>2. CASE u # t
        <4>1. turn'[u] = turn[u] /\ (u \in saved' => u \in saved)
          BY <1>2, <2>2, <3>2 DEF SameTurns
        <4> QED  BY <1>1, <2>3, <4>1 DEF TellsInv
      <3> QED  BY <3>1, <3>2
    <2> QED  BY <2>4, <2>5, <2>6 DEF TellsInv
  <1>4. CASE UNCHANGED <<record, edit, saved, removed>> /\ ~TurnSaves(t)
    <2>1. \A s : SavedIn(s)' = SavedIn(s)  BY <1>4 DEF SavedIn
    <2>2. ASSUME NEW u \in Turn
          PROVE  /\ turn'[u].pc \in {"executing", "saving"} =>
                       Told(turn'[u].base) \subseteq SavedIn(SessionOf[u])
                 /\ turn'[u].pc = "saving" =>
                       Told(turn'[u].new) \subseteq SavedIn(SessionOf[u]) \cup {u}
                 /\ u \in saved => turn'[u].pc = "done"
      <3>1. CASE u # t  BY <1>1, <1>2, <3>1 DEF SameTurns, TellsInv
      <3>2. CASE u = t /\ Read(t)  BY <1>1, <3>2 DEF Read, TellsInv
      <3>3. CASE u = t /\ Committed(t)  BY <1>1, <3>3 DEF Committed, TellsInv
      <3>4. CASE u = t /\ Again(t)  BY <1>1, <3>4 DEF Again, TellsInv
      <3>5. CASE u = t /\ (Entered(t) \/ Stuck(t) \/ Finished(t))
        BY <1>1, <3>5 DEF Entered, Stuck, Finished, TellsInv
      <3> QED  BY <1>2, <1>4, <3>1, <3>2, <3>3, <3>4, <3>5
    <2> QED  BY <1>1, <1>4, <2>1, <2>2 DEF TellsInv
  <1> QED
    BY <1>2, <1>3, <1>4 DEF Entered, Read, Stuck, Committed, Finished, Again

----------------------------------------------------------------------------
(* A place that is skipped belongs to nobody who works. *)
LEMMA SkipKeeps ==
    ASSUME StoreInv, Skip
    PROVE  StoreInv'
  <1> DEFINE x == Head(queue)
  <1>1. /\ TypeOK /\ QueueInv /\ Once /\ queue \in Seq(Task) /\ Holds(x) /\ Leave
        /\ UNCHANGED <<record, active, turn, edit, saved, removed>>
    BY DEF StoreInv, TypeOK, QueueInv, Skip, Holds
  <1>2. /\ x \in Edit => edit[x].pc = "failed"
        /\ x \in Turn => turn[x].pc = "stuck"
    BY StoreAssumption DEF Skip
  <1> HIDE DEF x
  <1>3. /\ queue' \in Seq(Task) /\ Once'
        /\ \A y : InQueue(y)' <=> InQueue(y) /\ y # x
        /\ \A y, z : Ahead(y, z) => Ahead(y, z)'
    BY <1>1, LeaveKeeps
  <1>4. TypeOK'  BY <1>1, <1>3 DEF TypeOK
  <1>5. QueueInv'  BY <1>1, <1>2, <1>3 DEF QueueInv, Working
  <1>6. OrderInv'  BY <1>1, <1>3 DEF StoreInv, OrderInv
  <1>7. LeaseInv' /\ EditInv' /\ UnderInv'
    BY <1>1 DEF StoreInv, LeaseInv, EditInv, UnderInv
  <1>8. SavedInv'  BY <1>1 DEF StoreInv, SavedInv, Kept
  <1>9. TellsInv'  BY <1>1 DEF StoreInv, TellsInv, SavedIn
  <1> QED  BY <1>4, <1>5, <1>6, <1>7, <1>8, <1>9 DEF StoreInv

----------------------------------------------------------------------------
(* The invariant holds in every state, for any turns, edits and sessions:  *)
(* types, leases, the queue of the operation lock, the locks of the        *)
(* services and what everybody has read (turns.py, sessions.py,            *)
(* conversations.py over database.py).                                     *)
THEOREM StoreInvariant == Spec => []StoreInv
  <1>1. Init => StoreInv
    <2> SUFFICES ASSUME Init PROVE StoreInv  OBVIOUS
    <2>1. EmptyRecord \in Record  BY EmptySeq DEF EmptyRecord, Record
    <2>2. TypeOK
      BY <2>1, EmptySeq
      DEF Init, TypeOK, MaybeRecord, TurnState, EditState, Kind, Working
    <2>3. \A x : ~InQueue(x)  BY EmptySeq DEF Init, InQueue
    <2>4. Once  BY EmptySeq DEF Init, Once
    <2>5. /\ \A t \in Turn : turn[t].pc = "idle"
          /\ \A e \in Edit : edit[e].pc = "idle" /\ edit[e].seen = NoRecord
                                                 /\ edit[e].under = {}
      BY DEF Init
    <2>6. LeaseInv /\ QueueInv /\ EditInv /\ OrderInv /\ UnderInv
      BY <2>3, <2>4, <2>5 DEF LeaseInv, QueueInv, EditInv, OrderInv, UnderInv, Working
    <2>7. SavedInv  BY <2>5 DEF Init, SavedInv, Kept
    <2>8. TellsInv
      <3>1. Told(EmptyRecord) = {}  BY EmptyIs
      <3> QED  BY <2>5, <3>1 DEF Init, TellsInv
    <2> QED  BY <2>2, <2>6, <2>7, <2>8 DEF StoreInv
  <1>2. StoreInv /\ [Next]_vars => StoreInv'
    <2> SUFFICES ASSUME StoreInv, [Next]_vars PROVE StoreInv'  OBVIOUS
    <2>1. TypeOK /\ Once  BY DEF StoreInv, QueueInv
    <2>2. ASSUME NEW e \in Edit, EditNext(e) PROVE StoreInv'
      <3>1. TypeOK'  BY <2>1, <2>2, EditTypes
      <3>2. LeaseInv'  BY <2>1, <2>2, EditCases DEF StoreInv, LeaseInv
      <3> QED  BY <2>2, <3>1, <3>2, EditQueue, EditEdit, EditOrder, EditSaved, EditUnder,
                  EditTells DEF StoreInv
    <2>3. ASSUME NEW t \in Turn, TurnNext(t) PROVE StoreInv'
      <3>1. TypeOK'  BY <2>1, <2>3, TurnTypes DEF StoreInv, SavedInv
      <3> QED  BY <2>3, <3>1, TurnLease, TurnQueue, TurnEdit, TurnOrder, TurnSaved, TurnTells DEF StoreInv
    <2>4. CASE Skip  BY <2>4, SkipKeeps
    <2>5. CASE UNCHANGED vars
      BY <2>5 DEF vars, StoreInv, TypeOK, LeaseInv, QueueInv, EditInv, OrderInv, SavedInv,
                  UnderInv, InQueue, Ahead, Once, Kept, TellsInv, SavedIn
    <2> QED  BY <2>2, <2>3, <2>4, <2>5 DEF Next
  <1> QED  BY <1>1, <1>2, PTL DEF Spec

(* Every state of the store is typed; a commit is tried at most twice      *)
(* (turns.py:725-735).                                                     *)
THEOREM StoreTypes == Spec => []TypeOK
  <1>1. StoreInv => TypeOK  BY DEF StoreInv
  <1> QED  BY <1>1, StoreInvariant, PTL

(* A turn that was committed stays in its session's record until an        *)
(* operation takes out what it has read, however turns, edits, failures    *)
(* and cancellations interleave.                                           *)
THEOREM CommitsStay == Spec => []SavedStaysUnlessRemoved
  <1>1. StoreInv => SavedStaysUnlessRemoved
    BY StoreAssumption DEF StoreInv, SavedInv, Kept, SavedStaysUnlessRemoved, TypeOK, Task
  <1> QED  BY <1>1, StoreInvariant, PTL

(* While an edit is between its load and its save, no turn and no edit of  *)
(* its own service writes to its session.                                  *)
THEOREM EditsAreSerial == Spec => []OnlyTheOtherService
  <1>1. StoreInv => OnlyTheOtherService  BY DEF StoreInv, UnderInv, OnlyTheOtherService
  <1> QED  BY <1>1, StoreInvariant, PTL

----------------------------------------------------------------------------
(* A record that tells of every turn that must stay, and of none but the   *)
(* saved ones: as good as the one in the store.                            *)
ReadWell(r, s) == Kept(r, s) /\ Told(r) \subseteq SavedIn(s)

LEMMA SavedIsRecalled ==
    ASSUME StoreInv, NEW s \in Session
    PROVE  SavedIn(s) \subseteq Contract!Recalled(s)
  <1>1. Kept(record[s], s)  BY DEF StoreInv, SavedInv
  <1> QED  BY <1>1 DEF Kept, SavedIn, Contract!Recalled

(* What a rewrite counts as removed, from the record it has read, is what  *)
(* it takes out of the one in the store.                                   *)
LEMMA RemovesTheSame ==
    ASSUME StoreInv, NEW s \in Session, NEW old, ReadWell(old, s)
    PROVE  \A turns : removed \cup (Told(old) \ turns) = removed \cup (Told(record[s]) \ turns)
  <1>1. Kept(record[s], s) /\ Told(record[s]) \subseteq SavedIn(s)
    BY DEF StoreInv, SavedInv, TellsInv
  <1>2. \A x \in SavedIn(s) : x \in removed \/ (x \in Told(old) /\ x \in Told(record[s]))
    BY <1>1 DEF Kept, SavedIn, ReadWell
  <1> QED  BY <1>1, <1>2 DEF ReadWell

LEMMA WriteRefines ==
    ASSUME StoreInv, NEW e \in Edit, Wrote(e), UNCHANGED saved, TypeOK'
    PROVE  Contract!EditSession(SessionOf[e])
  <1> PICK s : s = SessionOf[e]  OBVIOUS
  <1> PICK turns : turns = Told(record'[s])  OBVIOUS
  <1>1. /\ s \in Session /\ record \in [Session -> MaybeRecord]
        /\ record' \in [Session -> MaybeRecord]
        /\ edit[e].pc = "writing" /\ SavedInv /\ TellsInv
    BY StoreAssumption DEF StoreInv, TypeOK, Task, Wrote
  <1>2. [r \in Session |-> Told(record'[r])] =
            [[r \in Session |-> Told(record[r])] EXCEPT ![s] = turns]
    BY <1>1, WriteIs
  <1>3. /\ turns \subseteq Contract!Recalled(s)
        /\ removed' = removed \cup (Told(record[s]) \ turns)
    <2>1. CASE edit[e].seen = NoRecord  BY <2>1, WriteIs
    <2>2. CASE edit[e].seen # NoRecord
      <3> PICK old : old = edit[e].seen  OBVIOUS
      <3>1. /\ Kept(old, s) /\ Told(old) \subseteq SavedIn(s)
            /\ Told(edit[e].new) \subseteq SavedIn(s)
        BY <1>1, <2>2 DEF SavedInv, TellsInv
      <3>2. /\ turns = Told(edit[e].new)
            /\ removed' = removed \cup (Told(old) \ turns)
        BY <2>2, WriteIs
      <3>3. SavedIn(s) \subseteq Contract!Recalled(s)  BY <1>1, SavedIsRecalled
      <3>4. ReadWell(old, s)  BY <3>1 DEF ReadWell
      <3>5. removed \cup (Told(old) \ turns) = removed \cup (Told(record[s]) \ turns)
        BY <1>1, <3>4, RemovesTheSame
      <3> QED  BY <3>1, <3>2, <3>3, <3>5
    <2> QED  BY <2>1, <2>2
  <1> QED  BY <1>1, <1>2, <1>3 DEF Contract!EditSession, Contract!Rewrite

LEMMA SaveRefines ==
    ASSUME StoreInv, NEW t \in Turn, TurnSaves(t), TypeOK'
    PROVE  Contract!CommitTurn(t)
  <1> PICK s : s = SessionOf[t]  OBVIOUS
  <1> PICK old : old = turn[t].base  OBVIOUS
  <1> PICK turns : turns = Told(turn[t].new)  OBVIOUS
  <1>1. /\ s \in Session /\ record \in [Session -> MaybeRecord]
        /\ turn[t].pc = "saving" /\ SavedInv /\ TellsInv
    BY StoreAssumption DEF StoreInv, TypeOK, Task, TurnSaves
  <1>2. /\ record' = [record EXCEPT ![s] = turn[t].new]
        /\ removed' = removed \cup (Told(old) \ turns)
        /\ saved' = saved \cup {t}
    BY DEF TurnSaves
  <1>3. /\ Kept(old, s) /\ Told(old) \subseteq SavedIn(s)
        /\ turns \subseteq SavedIn(s) \cup {t} /\ t \in turns /\ t \notin saved
    BY <1>1 DEF SavedInv, TellsInv
  <1>4. [r \in Session |-> Told(record'[r])] =
            [[r \in Session |-> Told(record[r])] EXCEPT ![s] = turns]
    BY <1>1, <1>2
  <1>5. /\ turns \ {t} \subseteq Contract!Recalled(s)
        /\ removed' = removed \cup (Told(record[s]) \ turns)
    <2>1. SavedIn(s) \subseteq Contract!Recalled(s)  BY <1>1, SavedIsRecalled
    <2>2. ReadWell(old, s)  BY <1>3 DEF ReadWell
    <2>3. removed \cup (Told(old) \ turns) = removed \cup (Told(record[s]) \ turns)
      BY <1>1, <2>2, RemovesTheSame
    <2> QED  BY <1>2, <1>3, <2>1, <2>3
  <1>6. (turns \ {t}) \cup {t} = turns  BY <1>3
  <1>7. Contract!Rewrite(s, (turns \ {t}) \cup {t})
    BY <1>1, <1>4, <1>5, <1>6 DEF Contract!Rewrite
  <1> QED  BY <1>2, <1>3, <1>5, <1>7 DEF Contract!CommitTurn

(* Although turns and both services read a record, suspend and write it    *)
(* back, each write does to the store what a commit or an edit in one step *)
(* would do: a turn appears in its own session's record, by its commit and *)
(* once, and leaves it only as removed.                                    *)
THEOREM StoreImplementsContract == Spec => ImplementsStoreContract
  <1>1. Init => Contract!StoreInit
    BY EmptyIs DEF Init, Contract!StoreInit
  <1>2. StoreInv /\ StoreInv' /\ [Next]_vars => [Contract!StoreNext]_(Contract!storeVars)
    <2> SUFFICES ASSUME StoreInv, StoreInv', [Next]_vars
                 PROVE  [Contract!StoreNext]_(Contract!storeVars)
      OBVIOUS
    <2>1. TypeOK /\ TypeOK'  BY DEF StoreInv
    <2>2. UNCHANGED <<record, saved, removed>> => UNCHANGED Contract!storeVars
      BY DEF Contract!storeVars
    <2>3. ASSUME NEW e \in Edit, EditNext(e)  PROVE [Contract!StoreNext]_(Contract!storeVars)
      <3>1. /\ UNCHANGED saved
            /\ Began(e) \/ Refused(e) \/ Loaded(e) \/ GaveUp(e) \/ Wrote(e)
        BY <2>1, <2>3, EditCases
      <3>2. CASE Wrote(e)
        <4>1. Contract!EditSession(SessionOf[e])  BY <2>1, <3>1, <3>2, WriteRefines
        <4>2. SessionOf[e] \in Session  BY StoreAssumption DEF Task
        <4> QED  BY <4>1, <4>2 DEF Contract!StoreNext
      <3>3. CASE UNCHANGED <<record, removed>>  BY <2>2, <3>1, <3>3
      <3> QED  BY <3>1, <3>2, <3>3 DEF Began, Refused, Loaded, GaveUp
    <2>4. ASSUME NEW t \in Turn, TurnNext(t)  PROVE [Contract!StoreNext]_(Contract!storeVars)
      <3>1. \/ Entered(t) \/ Read(t) \/ Stuck(t) \/ Committed(t) \/ Finished(t) \/ Again(t)
            \/ TurnSaves(t)
        BY <2>1, <2>4, TurnCases DEF StoreInv, SavedInv
      <3>2. CASE TurnSaves(t)  BY <2>1, <3>2, SaveRefines DEF Contract!StoreNext
      <3>3. CASE UNCHANGED <<record, saved, removed>>  BY <2>2, <3>3
      <3> QED  BY <3>1, <3>2, <3>3 DEF Entered, Read, Stuck, Committed, Finished, Again
    <2>5. CASE Skip  BY <2>2, <2>5 DEF Skip
    <2>6. CASE UNCHANGED vars  BY <2>2, <2>6 DEF vars
    <2> QED  BY <2>3, <2>4, <2>5, <2>6 DEF Next
  <1> QED
    BY <1>1, <1>2, StoreInvariant, PTL DEF Spec, ImplementsStoreContract, Contract!StoreSpec

(* What a rewrite of the contract makes of the records.                     *)
Rewrote(s, turns) ==
    /\ removed' = removed \cup (Told(record[s]) \ turns)
    /\ \A r \in Session : Told(record'[r]) = IF r = s THEN turns ELSE Told(record[r])

LEMMA RewriteIs ==
    ASSUME NEW s \in Session, NEW turns, Contract!Rewrite(s, turns)
    PROVE  Rewrote(s, turns)
  <1>1. /\ [r \in Session |-> Told(record'[r])] =
               [[r \in Session |-> Told(record[r])] EXCEPT ![s] = turns]
        /\ removed' = removed \cup (Told(record[s]) \ turns)
    BY DEF Contract!Rewrite
  <1>2. \A r \in Session : [q \in Session |-> Told(record'[q])][r] =
            IF r = s THEN turns ELSE Told(record[r])
    BY <1>1
  <1> QED  BY <1>1, <1>2 DEF Rewrote

LEMMA RewriteStays ==
    ASSUME saved \subseteq Turn, SavedStaysUnlessRemoved,
           NEW s \in Session, NEW turns, NEW more \in SUBSET Turn, Contract!Rewrite(s, turns),
           saved' = saved \cup more, \A t \in more : SessionOf[t] = s /\ t \in turns
    PROVE  saved' \subseteq Turn /\ SavedStaysUnlessRemoved'
  <1>1. /\ Told(record'[s]) = turns /\ removed' = removed \cup (Told(record[s]) \ turns)
        /\ \A r \in Session \ {s} : Told(record'[r]) = Told(record[r])
    BY RewriteIs DEF Rewrote
  <1>2. \A t \in Turn : SessionOf[t] \in Session  BY StoreAssumption DEF Task
  <1>3. ASSUME NEW u \in saved' \ removed'  PROVE u \in Told(record'[SessionOf[u]])
    <2>1. CASE u \in more  BY <1>1, <2>1
    <2>2. CASE u \notin more
      <3>1. /\ u \in saved \ removed /\ SessionOf[u] \in Session
            /\ u \in Told(record[SessionOf[u]])
        BY <1>1, <1>2, <1>3, <2>2 DEF SavedStaysUnlessRemoved
      <3>2. CASE SessionOf[u] = s  BY <1>1, <1>3, <3>1, <3>2
      <3>3. CASE SessionOf[u] # s  BY <1>1, <3>1, <3>3
      <3> QED  BY <3>2, <3>3
    <2> QED  BY <2>1, <2>2
  <1> QED  BY <1>3 DEF SavedStaysUnlessRemoved

(* The contract alone keeps every commit: whatever implements it, a turn   *)
(* that was committed stays in the record until a rewrite removes it.      *)
THEOREM ContractKeepsCommits ==
    ImplementsStoreContract => [](saved \subseteq Turn /\ SavedStaysUnlessRemoved)
  <1> DEFINE Stay == saved \subseteq Turn /\ SavedStaysUnlessRemoved
  <1>1. Contract!StoreInit => Stay
    BY DEF Contract!StoreInit, SavedStaysUnlessRemoved
  <1>2. Stay /\ [Contract!StoreNext]_(Contract!storeVars) => Stay'
    <2> SUFFICES ASSUME Stay, [Contract!StoreNext]_(Contract!storeVars)  PROVE Stay'  OBVIOUS
    <2>1. \A t \in Turn : SessionOf[t] \in Session  BY StoreAssumption DEF Task
    <2>2. ASSUME NEW t \in Turn, Contract!CommitTurn(t)  PROVE Stay'
      <3>1. PICK earlier : Contract!Rewrite(SessionOf[t], earlier \cup {t})
        BY <2>2 DEF Contract!CommitTurn
      <3>2. saved' = saved \cup {t}  BY <2>2 DEF Contract!CommitTurn
      <3> PICK s : s = SessionOf[t]  OBVIOUS
      <3> PICK turns : turns = earlier \cup {t}  OBVIOUS
      <3>3. s \in Session /\ Contract!Rewrite(s, turns)  BY <2>1, <3>1
      <3> PICK more : more = {t}  OBVIOUS
      <3>4. more \in SUBSET Turn /\ saved' = saved \cup more  BY <3>2
      <3>5. \A u \in more : SessionOf[u] = s /\ u \in turns  OBVIOUS
      <3> QED  BY <3>3, <3>4, <3>5, RewriteStays
    <2>3. ASSUME NEW s \in Session, Contract!EditSession(s)  PROVE Stay'
      <3>1. PICK turns : Contract!Rewrite(s, turns)  BY <2>3 DEF Contract!EditSession
      <3> PICK more : more = {}  OBVIOUS
      <3>2. more \in SUBSET Turn /\ saved' = saved \cup more
        BY <2>3 DEF Contract!EditSession
      <3>3. \A u \in more : SessionOf[u] = s /\ u \in turns  OBVIOUS
      <3> QED  BY <3>1, <3>2, <3>3, RewriteStays
    <2>4. CASE UNCHANGED Contract!storeVars
      <3>1. \A r \in Session : [q \in Session |-> Told(record'[q])][r] = Told(record[r])
        BY <2>4 DEF Contract!storeVars
      <3>2. UNCHANGED <<saved, removed>>  BY <2>4 DEF Contract!storeVars
      <3> QED  BY <2>1, <3>1, <3>2 DEF SavedStaysUnlessRemoved
    <2> QED  BY <2>2, <2>3, <2>4 DEF Contract!StoreNext
  <1> QED  BY <1>1, <1>2, PTL DEF ImplementsStoreContract, Contract!StoreSpec
=============================================================================
