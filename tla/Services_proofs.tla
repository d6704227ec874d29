--------------------------- MODULE Services_proofs ---------------------------
(* Proofs about the components the suite "services" explores, each for any *)
(* values of its constants.  They share nothing, so each but the broker is *)
(* an instance of its own.                                                 *)
EXTENDS ServiceParts, InteractionBroker, Selections_proofs

----------------------------------------------------------------------------
(* The database: who is in a transaction, and whose writes it holds.       *)
DbTypes ==
    /\ lock \in Seq(DB!Task)
    /\ tx \in BOOLEAN /\ connected \in BOOLEAN
    /\ access \in [DB!Task -> [pc : {"idle", "queued", "body", "commit"} \cup DB!Over,
                               seen : SUBSET DB!Task]]
    /\ staged \subseteq DB!Task /\ durable \subseteq DB!Task

(* Only the head of the queue is inside a write: its body starts with      *)
(* nothing staged, so its commit writes nothing of anybody else; what a    *)
(* failed commit leaves staged stays in a transaction that blocks BEGIN.   *)
DbInv ==
    /\ DbTypes
    /\ \A t \in DB!Task : DB!At(t, "body") \/ DB!At(t, "commit") => DB!Held(t)
    /\ ~tx => staged = {}
    /\ \A t \in DB!Task : DB!At(t, "body") => staged = {}
    /\ \A t \in DB!Task : DB!At(t, "commit") /\ tx => staged = {t}
    /\ \A t \in durable : access[t].pc \in {"ok", "cancelled"}
    /\ \A t \in Writer : DB!At(t, "ok") => t \in durable

(* What the queue of the operation lock does to its head.                  *)
LEMMA QueueHeads ==
    ASSUME NEW T, NEW s \in Seq(T), NEW t \in T
    PROVE  /\ Append(s, t) \in Seq(T)
           /\ s # <<>> => /\ Append(s, t) # <<>> /\ Head(Append(s, t)) = Head(s)
                          /\ Tail(s) \in Seq(T)
           /\ \A i \in 2..Len(s) :
                 LET q == SubSeq(s, 1, i - 1) \o SubSeq(s, i + 1, Len(s))
                 IN  q \in Seq(T) /\ q # <<>> /\ Head(q) = Head(s) /\ s # <<>>
  <1>1. ASSUME NEW i \in 2..Len(s)
        PROVE  LET q == SubSeq(s, 1, i - 1) \o SubSeq(s, i + 1, Len(s))
               IN  q \in Seq(T) /\ q # <<>> /\ Head(q) = Head(s) /\ s # <<>>
    <2> DEFINE a == SubSeq(s, 1, i - 1)
    <2> DEFINE b == SubSeq(s, i + 1, Len(s))
    <2>1. a \in Seq(T) /\ Len(a) = i - 1 /\ a[1] = s[1]  OBVIOUS
    <2>2. b \in Seq(T)  OBVIOUS
    <2> HIDE DEF a, b
    <2>3. a \o b \in Seq(T) /\ Len(a \o b) >= 1 /\ (a \o b)[1] = s[1]  BY <2>1, <2>2
    <2>4. a \o b # <<>> /\ Head(a \o b) = (a \o b)[1]  BY <2>3
    <2>5. s # <<>> /\ Head(s) = s[1]  OBVIOUS
    <2> QED  BY <2>3, <2>4, <2>5 DEF a, b
  <1> QED  BY <1>1

(* Inside the lock: t alone may be in the middle of a write.               *)
LEMMA DbAlone ==
    ASSUME DbInv, NEW t \in DB!Task, DB!Held(t), NEW u \in DB!Task, u # t
    PROVE  ~DB!At(u, "body") /\ ~DB!At(u, "commit")
  BY DEF DbInv, DB!Held

(* One task t moves to pc and nobody else does.                            *)
LEMMA DbMoves ==
    ASSUME DbTypes, NEW t \in DB!Task, NEW pc, DB!Go(t, pc),
           pc \in {"idle", "queued", "body", "commit"} \cup DB!Over
    PROVE  /\ access' \in [DB!Task -> [pc : {"idle", "queued", "body", "commit"} \cup DB!Over,
                                       seen : SUBSET DB!Task]]
           /\ access'[t].pc = pc
           /\ \A u \in DB!Task : u # t => access'[u] = access[u]
  BY DEF DbTypes, DB!Go

LEMMA DbOpenKeeps ==
    ASSUME DbInv, NEW t \in DB!Task, DB!Open(t)
    PROVE  DbInv'
  <1>1. DbTypes /\ lock \in Seq(DB!Task) /\ tx' = tx /\ staged' = staged /\ durable' = durable
    BY DEF DbInv, DbTypes, DB!Open
  <1>2. PICK pc \in {"queued", "failed", "cancelled"} : DB!Go(t, pc)  BY DEF DB!Open
  <1>3. /\ access' \in [DB!Task -> [pc : {"idle", "queued", "body", "commit"} \cup DB!Over,
                                    seen : SUBSET DB!Task]]
        /\ access'[t].pc = pc
        /\ \A u \in DB!Task : u # t => access'[u] = access[u]
    BY <1>1, <1>2, DbMoves DEF DB!Over
  <1>4. connected' \in BOOLEAN /\ (lock' = lock \/ lock' = Append(lock, t))
    BY <1>1 DEF DB!Open, DbTypes
  <1>5. lock' \in Seq(DB!Task) /\ \A u \in DB!Task : DB!Held(u) => DB!Held(u)'
    BY <1>1, <1>4, QueueHeads DEF DB!Held
  <1>6. DbTypes'  BY <1>1, <1>3, <1>4, <1>5 DEF DbTypes
  <1>7. access[t].pc = "idle"  BY DEF DB!Open, DB!At
  <1>8. \A u \in DB!Task : DB!At(u, "body")' \/ DB!At(u, "commit")' => DB!Held(u)'
    BY <1>2, <1>3, <1>5 DEF DbInv, DB!At
  <1> QED
    BY <1>1, <1>2, <1>3, <1>6, <1>7, <1>8 DEF DbInv, DbTypes, DB!At, DB!Task

(* The head of the queue ends: nobody is inside then.                      *)
LEMMA DbEnds ==
    ASSUME DbInv, NEW t \in DB!Task, DB!Held(t), lock' = Tail(lock),
           access'[t].pc \in DB!Over, \A u \in DB!Task : u # t => access'[u] = access[u]
    PROVE  /\ lock' \in Seq(DB!Task)
           /\ \A u \in DB!Task : ~DB!At(u, "body")' /\ ~DB!At(u, "commit")'
  <1>1. lock' \in Seq(DB!Task)  BY QueueHeads DEF DbInv, DbTypes, DB!Held
  <1>2. ASSUME NEW u \in DB!Task PROVE ~DB!At(u, "body")' /\ ~DB!At(u, "commit")'
    BY DbAlone, <1>2 DEF DB!At, DB!Over
  <1> QED  BY <1>1, <1>2

LEMMA DbReadKeeps ==
    ASSUME Reader \cap Writer = {}, DbInv, NEW t \in DB!Task, DB!Read(t)
    PROVE  DbInv'
  <1>1. /\ t \notin Writer /\ access[t].pc = "queued" /\ DB!Held(t) /\ lock' = Tail(lock)
        /\ tx' = tx /\ staged' = staged /\ durable' = durable /\ connected' = connected
    BY DEF DB!Read, DB!At
  <1>2. /\ access' \in [DB!Task -> [pc : {"idle", "queued", "body", "commit"} \cup DB!Over,
                                    seen : SUBSET DB!Task]]
        /\ access'[t].pc \in DB!Over
        /\ \A u \in DB!Task : u # t => access'[u] = access[u]
    <2>1. CASE DB!Go(t, "failed")  BY <2>1, DbMoves DEF DB!Over, DbInv
    <2>2. CASE access' = [access EXCEPT ![t] = [pc |-> "ok", seen |-> durable \cup staged]]
      <3>1. durable \cup staged \subseteq DB!Task  BY DEF DbInv, DbTypes
      <3> QED  BY <2>2, <3>1 DEF DbInv, DbTypes, DB!Over
    <2> QED  BY <2>1, <2>2 DEF DB!Read
  <1>3. /\ lock' \in Seq(DB!Task)
        /\ \A u \in DB!Task : ~DB!At(u, "body")' /\ ~DB!At(u, "commit")'
    BY <1>1, <1>2, DbEnds
  <1>4. DbTypes'  BY <1>1, <1>2, <1>3 DEF DbInv, DbTypes
  <1> QED  BY <1>1, <1>2, <1>3, <1>4 DEF DbInv, DbTypes, DB!At, DB!Over, DB!Task

LEMMA DbBeginKeeps ==
    ASSUME DbInv, NEW t \in DB!Task, DB!BeginWrite(t) \/ DB!BeginCancelled(t)
    PROVE  DbInv'
  <1>1. /\ access[t].pc = "queued" /\ DB!Held(t)
        /\ staged' = staged /\ durable' = durable /\ connected' = connected
    BY DEF DB!BeginWrite, DB!BeginCancelled, DB!At
  <1>2. CASE connected /\ ~tx /\ tx' = TRUE /\ DB!Go(t, "body") /\ UNCHANGED lock
    <2>1. /\ access' \in [DB!Task -> [pc : {"idle", "queued", "body", "commit"} \cup DB!Over,
                                      seen : SUBSET DB!Task]]
          /\ access'[t].pc = "body"
          /\ \A u \in DB!Task : u # t => access'[u] = access[u]
      BY <1>2, DbMoves DEF DbInv
    <2>2. staged = {}  BY <1>2 DEF DbInv
    <2>3. DbTypes'  BY <1>1, <1>2, <2>1 DEF DbInv, DbTypes
    <2> QED  BY <1>1, <1>2, <2>1, <2>2, <2>3 DEF DbInv, DbTypes, DB!At, DB!Held, DB!Task
  <1>3. CASE \E pc \in {"failed", "cancelled"} :
                DB!Release(t, pc) /\ tx' \in {tx, tx \/ connected}
    <2>1. PICK pc \in {"failed", "cancelled"} :
              DB!Go(t, pc) /\ lock' = Tail(lock) /\ tx' \in {tx, tx \/ connected}
      BY <1>3 DEF DB!Release
    <2>2. /\ access' \in [DB!Task -> [pc : {"idle", "queued", "body", "commit"} \cup DB!Over,
                                      seen : SUBSET DB!Task]]
          /\ access'[t].pc = pc
          /\ \A u \in DB!Task : u # t => access'[u] = access[u]
      BY <2>1, DbMoves DEF DbInv, DB!Over
    <2>3. /\ lock' \in Seq(DB!Task)
          /\ \A u \in DB!Task : ~DB!At(u, "body")' /\ ~DB!At(u, "commit")'
      BY <1>1, <2>1, <2>2, DbEnds DEF DB!Over
    <2>4. tx' \in BOOLEAN /\ (tx => tx')  BY <2>1 DEF DbInv, DbTypes
    <2>5. DbTypes'  BY <1>1, <2>2, <2>3, <2>4 DEF DbInv, DbTypes
    <2> QED  BY <1>1, <2>2, <2>3, <2>4, <2>5 DEF DbInv, DbTypes, DB!At, DB!Over, DB!Task
  <1>4. tx \in BOOLEAN /\ connected \in BOOLEAN  BY DEF DbInv, DbTypes
  <1> QED  BY <1>2, <1>3, <1>4 DEF DB!BeginWrite, DB!BeginCancelled

LEMMA DbBodyKeeps ==
    ASSUME DbInv, NEW t \in DB!Task, DB!Body(t)
    PROVE  DbInv'
  <1>1. /\ access[t].pc = "body" /\ DB!Held(t) /\ staged = {}
        /\ durable' = durable /\ connected' = connected
    BY DEF DB!Body, DB!At, DbInv
  <1>2. CASE tx /\ staged' = staged \cup {t} /\ DB!Go(t, "commit") /\ UNCHANGED <<lock, tx>>
    <2>1. /\ access' \in [DB!Task -> [pc : {"idle", "queued", "body", "commit"} \cup DB!Over,
                                      seen : SUBSET DB!Task]]
          /\ access'[t].pc = "commit"
          /\ \A u \in DB!Task : u # t => access'[u] = access[u]
      BY <1>2, DbMoves DEF DbInv
    <2>2. DbTypes'  BY <1>1, <1>2, <2>1 DEF DbInv, DbTypes
    <2>3. \A u \in DB!Task : u # t => ~DB!At(u, "body")' /\ ~DB!At(u, "commit")'
      BY <1>1, <2>1, DbAlone DEF DB!At
    <2> QED
      BY <1>1, <1>2, <2>1, <2>2, <2>3 DEF DbInv, DbTypes, DB!At, DB!Held, DB!Task
  <1>3. CASE /\ \E pc \in {"failed", "cancelled"} : DB!Release(t, pc)
             /\ tx' = FALSE /\ staged' = {}
    <2>1. PICK pc \in {"failed", "cancelled"} : DB!Go(t, pc) /\ lock' = Tail(lock)
      BY <1>3 DEF DB!Release
    <2>2. /\ access' \in [DB!Task -> [pc : {"idle", "queued", "body", "commit"} \cup DB!Over,
                                      seen : SUBSET DB!Task]]
          /\ access'[t].pc = pc
          /\ \A u \in DB!Task : u # t => access'[u] = access[u]
      BY <2>1, DbMoves DEF DbInv, DB!Over
    <2>3. /\ lock' \in Seq(DB!Task)
          /\ \A u \in DB!Task : ~DB!At(u, "body")' /\ ~DB!At(u, "commit")'
      BY <1>1, <2>1, <2>2, DbEnds DEF DB!Over
    <2>4. DbTypes'  BY <1>1, <1>3, <2>2, <2>3 DEF DbInv, DbTypes
    <2> QED  BY <1>1, <1>3, <2>2, <2>3, <2>4 DEF DbInv, DbTypes, DB!At, DB!Over, DB!Task
  <1> QED  BY <1>2, <1>3 DEF DB!Body

LEMMA DbCommitKeeps ==
    ASSUME DbInv, NEW t \in DB!Task, DB!Commit(t)
    PROVE  DbInv'
  <1>1. /\ access[t].pc = "commit" /\ DB!Held(t) /\ (tx => staged = {t})
        /\ connected' = connected
    BY DEF DB!Commit, DB!At, DbInv
  <1>2. PICK pc \in DB!Over : DB!Go(t, pc) /\ lock' = Tail(lock)
    BY DEF DB!Commit, DB!Release, DB!Over
  <1>3. /\ access' \in [DB!Task -> [pc : {"idle", "queued", "body", "commit"} \cup DB!Over,
                                    seen : SUBSET DB!Task]]
        /\ access'[t].pc = pc
        /\ \A u \in DB!Task : u # t => access'[u] = access[u]
    BY <1>2, DbMoves DEF DbInv
  <1>4. /\ lock' \in Seq(DB!Task)
        /\ \A u \in DB!Task : ~DB!At(u, "body")' /\ ~DB!At(u, "commit")'
    BY <1>1, <1>2, <1>3, DbEnds
  <1>5. \/ /\ tx /\ tx' = FALSE /\ staged' = {} /\ durable' = durable \cup staged
           /\ access'[t].pc \in {"ok", "cancelled"}
        \/ /\ access'[t].pc = "failed" /\ durable' = durable
           /\ (tx' = tx /\ staged' = staged) \/ (tx' = FALSE /\ staged' = {})
    <2>1. \A x \in DB!Over : DB!Go(t, x) => access'[t].pc = x
      BY DbMoves DEF DbInv
    <2> QED  BY <2>1 DEF DB!Commit, DB!Release, DB!Over
  <1>6. DbTypes'  BY <1>1, <1>3, <1>4, <1>5 DEF DbInv, DbTypes
  <1>7. \A u \in durable' : access'[u].pc \in {"ok", "cancelled"}
    BY <1>1, <1>3, <1>5 DEF DbInv, DbTypes
  <1>8. \A u \in Writer : DB!At(u, "ok")' => u \in durable'
    BY <1>1, <1>3, <1>5 DEF DbInv, DB!At, DB!Task
  <1>9. ~tx' => staged' = {}  BY <1>5 DEF DbInv
  <1> QED  BY <1>4, <1>6, <1>7, <1>8, <1>9 DEF DbInv

LEMMA DbLeaveKeeps ==
    ASSUME DbInv, NEW t \in DB!Task, DB!LeaveQueue(t)
    PROVE  DbInv'
  <1>1. /\ access[t].pc = "queued" /\ DB!Go(t, "cancelled")
        /\ tx' = tx /\ staged' = staged /\ durable' = durable /\ connected' = connected
    BY DEF DB!LeaveQueue, DB!At
  <1>2. /\ access' \in [DB!Task -> [pc : {"idle", "queued", "body", "commit"} \cup DB!Over,
                                    seen : SUBSET DB!Task]]
        /\ access'[t].pc = "cancelled"
        /\ \A u \in DB!Task : u # t => access'[u] = access[u]
    BY <1>1, DbMoves DEF DbInv, DB!Over
  <1>3. lock' \in Seq(DB!Task) /\ lock' # <<>> /\ Head(lock') = Head(lock) /\ lock # <<>>
    <2>1. lock \in Seq(DB!Task)  BY DEF DbInv, DbTypes
    <2>2. PICK i \in 2..Len(lock) :
              lock' = SubSeq(lock, 1, i - 1) \o SubSeq(lock, i + 1, Len(lock))
      BY DEF DB!LeaveQueue
    <2> HIDE DEF DB!LeaveQueue
    <2> QED  BY <2>1, <2>2, QueueHeads
  <1>4. DbTypes'  BY <1>1, <1>2, <1>3 DEF DbInv, DbTypes
  <1> QED
    BY <1>1, <1>2, <1>3, <1>4 DEF DbInv, DbTypes, DB!At, DB!Held, DB!Over, DB!Task

(* Closing the connection drops the transaction under whoever is in it.    *)
LEMMA DbCloseKeeps == ASSUME DbInv, DB!Close \/ UNCHANGED DB!vars PROVE DbInv'
  <1>1. CASE DB!Close
    BY <1>1 DEF DbInv, DbTypes, DB!Close, DB!At, DB!Held
  <1>2. CASE UNCHANGED DB!vars
    BY <1>2 DEF DbInv, DbTypes, DB!vars, DB!At, DB!Held
  <1> QED  BY <1>1, <1>2

(* DbInv is an invariant of the database, for any readers and writers.     *)
THEOREM DatabaseInvariant ==
    ASSUME Reader \cap Writer = {} PROVE DB!Spec => []DbInv
  <1>1. DB!Init => DbInv
    <2> SUFFICES ASSUME DB!Init PROVE DbInv  OBVIOUS
    <2>1. \A t \in DB!Task : access[t].pc = "idle"  BY DEF DB!Init
    <2>2. access \in [DB!Task -> [pc : {"idle", "queued", "body", "commit"} \cup DB!Over,
                                  seen : SUBSET DB!Task]]
      BY DEF DB!Init
    <2>3. lock \in Seq(DB!Task)  BY DEF DB!Init
    <2>4. DbTypes  BY <2>2, <2>3 DEF DB!Init, DbTypes
    <2> QED  BY <2>1, <2>4 DEF DB!Init, DbInv, DB!At, DB!Task
  <1>2. DbInv /\ [DB!Next]_(DB!vars) => DbInv'
    BY DbOpenKeeps, DbReadKeeps, DbBeginKeeps, DbBodyKeeps, DbCommitKeeps, DbLeaveKeeps,
       DbCloseKeeps DEF DB!Next, DB!Step
  <1> QED  BY <1>1, <1>2, PTL DEF DB!Spec, ReportedTruly

(* A write reported as done is in the file, and one reported as failed     *)
(* never gets there, whatever was cancelled, closed or left in an open     *)
(* transaction meanwhile.                                                  *)
THEOREM WritesAreReportedTruly ==
    ASSUME Reader \cap Writer = {} PROVE DB!Spec => []ReportedTruly
  <1>1. DbInv => DB!ReportedTruly  BY DEF DbInv, DB!ReportedTruly, DB!At
  <1> QED  BY <1>1, DatabaseInvariant, PTL DEF ReportedTruly

----------------------------------------------------------------------------
(* The tools: leases exclude each other, and what a patch read is all the  *)
(* file holds until it writes, but for the threads of interrupted tools.   *)
ToolStep == {"idle", "waiting", "reading", "writing", "orphaned", "running", "killing"}
            \cup Tools!Over
ToolRun == [pc : ToolStep, does : {"look", "write", "patch", "spawn"}, seen : SUBSET Run,
            wrote : BOOLEAN]
ToolTypes ==
    /\ file \subseteq Run /\ lease \subseteq Run /\ child \subseteq Run /\ token \subseteq Run
    /\ run \in [Run -> ToolRun]

(* What a tool does at each of its steps, and who has changed the file. *)
Doings ==
    \A r \in Run :
       /\ Tools!At(r, "idle") => ~run[r].wrote /\ run[r].does = "look"
       /\ Tools!At(r, "reading") => run[r].does \in {"look", "patch"}
       /\ run[r].pc \in {"writing", "orphaned"} => run[r].does \in {"write", "patch"}
       /\ run[r].pc \in {"running", "killing"} => run[r].does = "spawn"
       /\ r \in file \/ (\E w \in Run : r \in run[w].seen) =>
             run[r].wrote \/ run[r].does = "spawn"

LeasesExclude ==
    /\ \A r \in Run : r \in lease <=> run[r].pc \in {"reading", "writing", "running", "killing"}
    /\ \A q, r \in lease : q = r \/ (Tools!Reads(q) /\ Tools!Reads(r))
    /\ \A r \in child : run[r].pc \in {"running", "killing"}

(* A thread wrote to the file since the patch w read it. *)
Overtaken(w) ==
    \E o \in file \ run[w].seen : Tools!At(o, "cancelled") /\ run[o].wrote
PatchesAreCurrent ==
    \A w \in Run : Tools!At(w, "writing") /\ run[w].does = "patch" /\ ~run[w].wrote =>
        file \subseteq run[w].seen \/ Overtaken(w)

ToolInv == ToolTypes /\ Doings /\ LeasesExclude /\ PatchesAreCurrent

(* One tool moves on and the file stays. *)
LEMMA ToolMoves ==
    ASSUME ToolInv, NEW r \in Run, file' = file, token' \subseteq Run,
           run' \in [Run -> ToolRun],
           \A q \in Run : q # r => run'[q] = run[q],
           run'[r].wrote = run[r].wrote, run'[r].pc # "idle",
           run[r].does = "spawn" => run'[r].does = "spawn",
           run'[r].seen = run[r].seen \/ run'[r].seen = file,
           run'[r].pc = "reading" => run'[r].does \in {"look", "patch"},
           run'[r].pc \in {"writing", "orphaned"} => run'[r].does \in {"write", "patch"},
           run'[r].pc \in {"running", "killing"} => run'[r].does = "spawn",
           run'[r].pc = "writing" => \/ run'[r].seen = file \/ run'[r].does = "write"
                                     \/ run'[r] = run[r],
           Tools!At(r, "cancelled") => run'[r].pc = "cancelled",
           lease' = IF run'[r].pc \in {"reading", "writing", "running", "killing"}
                    THEN lease \cup {r} ELSE lease \ {r},
           r \in lease => run'[r].does = run[r].does,
           r \notin lease /\ r \in lease' =>
               \A q \in lease : run'[r].does = "look" /\ Tools!Reads(q),
           child' \subseteq child \cup {r}, r \in child' => run'[r].pc \in {"running", "killing"}
    PROVE  ToolInv'
  <1>1. lease \subseteq Run /\ file \subseteq Run /\ child \subseteq Run /\ token \subseteq Run
    BY DEF ToolInv, ToolTypes
  <1>2. ToolTypes'
    <2>1. lease' \subseteq Run /\ child' \subseteq Run /\ file' \subseteq Run  BY <1>1
    <2> QED  BY <2>1 DEF ToolTypes
  <1>3. Doings'
    <2> SUFFICES ASSUME NEW q \in Run
                 PROVE  /\ run'[q].pc = "idle" => ~run'[q].wrote /\ run'[q].does = "look"
                        /\ run'[q].pc = "reading" => run'[q].does \in {"look", "patch"}
                        /\ run'[q].pc \in {"writing", "orphaned"} => run'[q].does \in {"write", "patch"}
                        /\ run'[q].pc \in {"running", "killing"} => run'[q].does = "spawn"
                        /\ q \in file \/ (\E w \in Run : q \in run'[w].seen) =>
                              run'[q].wrote \/ run'[q].does = "spawn"
      BY DEF Doings, Tools!At
    <2>1. ASSUME q \in file \/ (\E w \in Run : q \in run'[w].seen)
          PROVE  run'[q].wrote \/ run'[q].does = "spawn"
      <3>1. q \in file \/ (\E w \in Run : q \in run[w].seen)  BY <2>1
      <3>2. run[q].wrote \/ run[q].does = "spawn"  BY <3>1 DEF ToolInv, Doings
      <3> QED  BY <3>2
    <2>2. CASE q = r  BY <2>1, <2>2
    <2>3. CASE q # r  BY <2>1, <2>3 DEF ToolInv, Doings, Tools!At
    <2> QED  BY <2>2, <2>3
  <1>4. LeasesExclude'
    <2>1. \A q \in Run : q \in lease' <=> run'[q].pc \in {"reading", "writing", "running", "killing"}
      BY DEF ToolInv, LeasesExclude
    <2>2. ASSUME NEW p \in lease', NEW q \in lease', p # q
          PROVE  run'[p].does = "look" /\ run'[q].does = "look"
      <3>1. p \in Run /\ q \in Run /\ (p # r => p \in lease) /\ (q # r => q \in lease)
        BY <1>1, <2>2
      <3>2. CASE p # r /\ q # r
        BY <2>2, <3>1, <3>2 DEF ToolInv, LeasesExclude, Tools!Reads
      <3>3. CASE p = r
        BY <2>2, <3>1, <3>3 DEF ToolInv, LeasesExclude, Tools!Reads
      <3>4. CASE q = r
        BY <2>2, <3>1, <3>4 DEF ToolInv, LeasesExclude, Tools!Reads
      <3> QED  BY <3>2, <3>3, <3>4
    <2>3. \A q \in child' : run'[q].pc \in {"running", "killing"}
      BY <1>1 DEF ToolInv, LeasesExclude
    <2> QED  BY <2>1, <2>2, <2>3 DEF LeasesExclude, Tools!Reads
  <1>5. PatchesAreCurrent'
    <2> SUFFICES ASSUME NEW w \in Run, run'[w].pc = "writing", run'[w].does = "patch", ~run'[w].wrote
                 PROVE  \/ file \subseteq run'[w].seen
                        \/ \E o \in file \ run'[w].seen : run'[o].pc = "cancelled" /\ run'[o].wrote
      BY DEF PatchesAreCurrent, Overtaken, Tools!At
    <2>1. CASE w = r /\ run'[w].seen = file  BY <2>1
    <2>2. CASE run'[w] = run[w]
      <3>1. file \subseteq run[w].seen \/ Overtaken(w)
        BY <2>2 DEF ToolInv, PatchesAreCurrent, Tools!At
      <3>2. \A o \in Run : run[o].pc = "cancelled" /\ run[o].wrote =>
                              run'[o].pc = "cancelled" /\ run'[o].wrote
        BY DEF Tools!At
      <3> QED  BY <1>1, <2>2, <3>1, <3>2 DEF Overtaken, Tools!At
    <2> QED  BY <2>1, <2>2
  <1> QED  BY <1>2, <1>3, <1>4, <1>5 DEF ToolInv

(* The kinds of tools in the catalog. *)
LEMMA ToolKinds ==
    {Tools!Tools[t] : t \in DOMAIN Tools!Tools} = {"look", "write", "patch", "spawn"}
  BY DEF Tools!Tools

(* Nobody but the threads of interrupted tools writes beside a lease that  *)
(* is no reader's.                                                         *)
LEMMA WriterIsAlone ==
    ASSUME ToolInv, NEW w \in Run, NEW r \in Run, w # r, Tools!At(w, "writing")
    PROVE  r \notin child /\ ~Tools!At(r, "writing")
  <1>1. w \in lease /\ ~Tools!Reads(w)
    BY DEF ToolInv, LeasesExclude, Doings, Tools!At, Tools!Reads
  <1>2. r \notin lease  BY <1>1 DEF ToolInv, LeasesExclude
  <1> QED  BY <1>2 DEF ToolInv, LeasesExclude, Tools!At

LEMMA ToolWrites ==
    ASSUME ToolInv, NEW r \in Run, Tools!Write(r)
    PROVE  ToolInv'
  <1>1. /\ run[r].pc \in {"writing", "orphaned"} /\ run[r].wrote = FALSE
        /\ run[r].does \in {"write", "patch"}
        /\ UNCHANGED <<lease, child, token>>
        /\ file' = {r} \cup (IF run[r].does = "patch" THEN run[r].seen ELSE {})
    BY DEF ToolInv, Doings, ToolTypes, Tools!Write
  <1>2. /\ run' \in [Run -> ToolRun]
        /\ \A q \in Run : q # r => run'[q] = run[q]
        /\ run'[r].wrote = TRUE /\ run'[r].seen = run[r].seen /\ run'[r].does = run[r].does
        /\ run'[r].pc = IF run[r].pc = "orphaned" THEN "cancelled" ELSE run[r].pc
    BY DEF ToolInv, ToolTypes, ToolRun, ToolStep, Tools!Over, Tools!Write
  <1>3. /\ lease \subseteq Run /\ child \subseteq Run /\ token \subseteq Run
        /\ file \subseteq Run /\ run[r].seen \subseteq Run
    BY DEF ToolInv, ToolTypes, ToolRun
  <1>4. ToolTypes'  BY <1>1, <1>2, <1>3 DEF ToolTypes
  <1>5. Doings'
    <2> SUFFICES ASSUME NEW q \in Run
                 PROVE  /\ run'[q].pc = "idle" => ~run'[q].wrote /\ run'[q].does = "look"
                        /\ run'[q].pc = "reading" => run'[q].does \in {"look", "patch"}
                        /\ run'[q].pc \in {"writing", "orphaned"} => run'[q].does \in {"write", "patch"}
                        /\ run'[q].pc \in {"running", "killing"} => run'[q].does = "spawn"
                        /\ q \in file' \/ (\E w \in Run : q \in run'[w].seen) =>
                              run'[q].wrote \/ run'[q].does = "spawn"
      BY DEF Doings, Tools!At
    <2>1. CASE q = r  BY <1>1, <1>2, <2>1
    <2>2. CASE q # r
      <3>1. q \in file' \/ (\E w \in Run : q \in run'[w].seen) => \E w \in Run : q \in run[w].seen
        BY <1>1, <1>2, <2>2
      <3> QED  BY <1>2, <2>2, <3>1 DEF ToolInv, Doings, Tools!At
    <2> QED  BY <2>1, <2>2
  <1>6. LeasesExclude'
    <2>1. \A q \in Run : q \in lease' <=> run'[q].pc \in {"reading", "writing", "running", "killing"}
      BY <1>1, <1>2 DEF ToolInv, LeasesExclude
    <2>2. \A q \in Run : run'[q].does = run[q].does  BY <1>2
    <2>3. \A p, q \in lease' : p = q \/ (Tools!Reads(p)' /\ Tools!Reads(q)')
      BY <1>1, <1>3, <2>2 DEF ToolInv, LeasesExclude, Tools!Reads
    <2>4. r \notin child  BY <1>1 DEF ToolInv, LeasesExclude
    <2>5. \A q \in child' : run'[q].pc \in {"running", "killing"}
      BY <1>1, <1>2, <1>3, <2>4 DEF ToolInv, LeasesExclude
    <2> QED  BY <2>1, <2>3, <2>5 DEF LeasesExclude
  <1>7. PatchesAreCurrent'
    <2> SUFFICES ASSUME NEW w \in Run, run'[w].pc = "writing", run'[w].does = "patch", ~run'[w].wrote
                 PROVE  \E o \in file' \ run'[w].seen : run'[o].pc = "cancelled" /\ run'[o].wrote
      BY DEF PatchesAreCurrent, Overtaken, Tools!At
    <2>1. w # r /\ run'[w] = run[w] /\ Tools!At(w, "writing")  BY <1>2 DEF Tools!At
    <2>2. run[r].pc = "orphaned"  BY <1>1, <2>1, WriterIsAlone DEF Tools!At
    <2>3. r \notin run[w].seen  BY <1>1 DEF ToolInv, Doings
    <2> QED  BY <1>1, <1>2, <2>1, <2>2, <2>3
  <1> QED  BY <1>4, <1>5, <1>6, <1>7 DEF ToolInv

LEMMA ToolWorks ==
    ASSUME ToolInv, NEW r \in Run, Tools!Works(r)
    PROVE  ToolInv'
  <1>1. r \in child /\ file' = file \cup {r} /\ UNCHANGED <<lease, child, token, run>>
    BY DEF Tools!Works
  <1>2. ToolTypes' /\ LeasesExclude'
    BY <1>1 DEF ToolInv, ToolTypes, LeasesExclude, Tools!Reads
  <1>3. run[r].does = "spawn"  BY <1>1 DEF ToolInv, LeasesExclude, Doings
  <1>4. Doings'  BY <1>1, <1>3 DEF ToolInv, Doings, Tools!At
  <1>5. ASSUME NEW w \in Run, Tools!At(w, "writing")  PROVE FALSE
    <2>1. w # r  BY <1>3, <1>5 DEF ToolInv, Doings, Tools!At
    <2> QED  BY <1>1, <1>5, <2>1, WriterIsAlone
  <1>6. PatchesAreCurrent'  BY <1>1, <1>5 DEF PatchesAreCurrent, Tools!At
  <1> QED  BY <1>2, <1>4, <1>6 DEF ToolInv

(* The steps that leave the file alone. *)
LEMMA ToolProceeds ==
    ASSUME ToolInv, NEW r \in Run,
           \/ Tools!Execute(r) \/ Tools!Lease(r) \/ Tools!Read(r) \/ Tools!Written(r)
           \/ Tools!Collected(r) \/ Tools!Interrupt(r) \/ Tools!Killed(r)
    PROVE  ToolInv'
  <1>1. run \in [Run -> ToolRun]
        /\ file \subseteq Run /\ token \subseteq Run /\ lease \subseteq Run /\ child \subseteq Run
    BY DEF ToolInv, ToolTypes
  <1>2. ASSUME NEW pc \in ToolStep, Tools!Go(r, pc)
        PROVE  /\ run' \in [Run -> ToolRun]
               /\ \A q \in Run : q # r => run'[q] = run[q]
               /\ run'[r].pc = pc /\ run'[r].wrote = run[r].wrote
               /\ run'[r].does = run[r].does /\ run'[r].seen = run[r].seen
    BY <1>1, <1>2 DEF Tools!Go, ToolRun
  <1>3. /\ r \in lease <=> run[r].pc \in {"reading", "writing", "running", "killing"}
        /\ r \in child => run[r].pc \in {"running", "killing"}
    BY DEF ToolInv, LeasesExclude
  <1>4. /\ run[r].pc = "reading" => run[r].does \in {"look", "patch"}
        /\ run[r].pc = "idle" => run[r].does = "look"
        /\ run[r].pc \in {"writing", "orphaned"} => run[r].does \in {"write", "patch"}
        /\ run[r].pc \in {"running", "killing"} => run[r].does = "spawn"
    BY DEF ToolInv, Doings, Tools!At
  <1>5. CASE Tools!Execute(r)
    <2>1. /\ run[r].pc = "idle" /\ UNCHANGED <<file, lease, child, token>>
      BY <1>5 DEF Tools!Execute, Tools!At
    <2>2. PICK does \in {"look", "write", "patch", "spawn"} :
             run' = [run EXCEPT ![r].does = does,
                                ![r].pc = IF r \in token THEN "cancelled" ELSE "waiting"]
      BY <1>5, ToolKinds DEF Tools!Execute
    <2>3. /\ run' \in [Run -> ToolRun]
          /\ \A q \in Run : q # r => run'[q] = run[q]
          /\ run'[r].pc \in {"cancelled", "waiting"} /\ run'[r].wrote = run[r].wrote
          /\ run'[r].seen = run[r].seen
      <3>1. PICK pc \in {"cancelled", "waiting"} :
                pc = IF r \in token THEN "cancelled" ELSE "waiting"
        OBVIOUS
      <3>2. PICK g : g = [run EXCEPT ![r].does = does]  OBVIOUS
      <3>3. /\ g \in [Run -> ToolRun] /\ g[r].wrote = run[r].wrote /\ g[r].seen = run[r].seen
            /\ \A q \in Run : q # r => g[q] = run[q]
        BY <1>1, <3>2 DEF ToolRun
      <3>4. run' = [g EXCEPT ![r].pc = pc]  BY <2>2, <3>1, <3>2
      <3>5. pc \in ToolStep  BY DEF ToolStep, Tools!Over
      <3> QED  BY <3>3, <3>4, <3>5 DEF ToolRun
    <2> QED  BY <1>1, <1>3, <1>4, <2>1, <2>3, ToolMoves DEF Tools!At
  <1>6. CASE Tools!Lease(r)
    <2>1. /\ run[r].pc = "waiting" /\ UNCHANGED <<file, token>>
          /\ \A q \in lease : Tools!Reads(r) /\ Tools!Reads(q)
      BY <1>6 DEF Tools!Lease, Tools!At
    <2>2. CASE Tools!Go(r, "failed") /\ UNCHANGED <<lease, child>>
      <3>1. "failed" \in ToolStep  BY DEF ToolStep, Tools!Over
      <3> QED  BY <1>1, <1>2, <1>3, <2>1, <2>2, <3>1, ToolMoves DEF Tools!At
    <2>3. CASE /\ lease' = lease \cup {r}
               /\ Tools!Go(r, CASE run[r].does = "write" -> "writing" [] run[r].does = "spawn" -> "running"
                                [] OTHER -> "reading")
               /\ child' = IF run[r].does = "spawn" THEN child \cup {r} ELSE child
      <3>1. PICK pc : pc = CASE run[r].does = "write" -> "writing" [] run[r].does = "spawn" -> "running"
                             [] OTHER -> "reading"
        OBVIOUS
      <3>2. /\ pc \in ToolStep /\ Tools!Go(r, pc)
            /\ pc \in {"reading", "writing", "running"}
            /\ pc = "writing" => run[r].does = "write"
            /\ pc = "running" <=> run[r].does = "spawn"
            /\ pc = "reading" => run[r].does \in {"look", "patch"}
        BY <1>1, <2>3, <3>1 DEF ToolStep, ToolRun
      <3> QED  BY <1>1, <1>2, <1>3, <2>1, <2>3, <3>2, ToolMoves DEF Tools!At, Tools!Reads
    <2> QED  BY <1>6, <2>2, <2>3 DEF Tools!Lease
  <1>7. CASE Tools!Read(r)
    <2>1. run[r].pc = "reading" /\ UNCHANGED <<file, child, token>>
      BY <1>7 DEF Tools!Read, Tools!At
    <2>2. CASE /\ run[r].does = "patch" /\ UNCHANGED lease
               /\ run' = [run EXCEPT ![r].pc = "writing", ![r].seen = file]
      <3>1. /\ run' \in [Run -> ToolRun]
            /\ \A q \in Run : q # r => run'[q] = run[q]
            /\ run'[r].pc = "writing" /\ run'[r].wrote = run[r].wrote
            /\ run'[r].seen = file /\ run'[r].does = run[r].does
        <4>1. PICK g : g = [run EXCEPT ![r].pc = "writing"]  OBVIOUS
        <4>2. "writing" \in ToolStep  BY DEF ToolStep
        <4>3. /\ g \in [Run -> ToolRun] /\ g[r].wrote = run[r].wrote
              /\ g[r].does = run[r].does /\ g[r].pc = "writing"
              /\ \A q \in Run : q # r => g[q] = run[q]
          BY <1>1, <4>1, <4>2 DEF ToolRun
        <4>4. run' = [g EXCEPT ![r].seen = file]  BY <2>2, <4>1
        <4> QED  BY <1>1, <4>3, <4>4 DEF ToolRun
      <3> QED  BY <1>1, <1>3, <2>1, <2>2, <3>1, ToolMoves DEF Tools!At
    <2>3. CASE \E pc \in {"succeeded", "failed"} : Tools!Go(r, pc) /\ lease' = lease \ {r}
      <3>1. PICK pc \in {"succeeded", "failed"} : Tools!Go(r, pc)  BY <2>3
      <3>2. pc \in ToolStep  BY DEF ToolStep, Tools!Over
      <3> QED  BY <1>1, <1>2, <1>3, <2>1, <2>3, <3>1, <3>2, ToolMoves DEF Tools!At
    <2> QED  BY <1>7, <2>2, <2>3 DEF Tools!Read
  <1>8. CASE Tools!Written(r) \/ Tools!Collected(r)
    <2>1. /\ run[r].pc \in {"writing", "running"} /\ UNCHANGED <<file, child, token>>
          /\ lease' = lease \ {r} /\ r \notin child
      BY <1>3, <1>8 DEF Tools!Written, Tools!Collected, Tools!At
    <2>2. PICK pc \in {"succeeded", "failed"} : Tools!Go(r, pc)
      BY <1>8 DEF Tools!Written, Tools!Collected
    <2>3. pc \in ToolStep  BY DEF ToolStep, Tools!Over
    <2> QED  BY <1>1, <1>2, <1>3, <2>1, <2>2, <2>3, ToolMoves DEF Tools!At
  <1>9. CASE Tools!Interrupt(r)
    <2>1. UNCHANGED <<file, child, token>> /\ Tools!InBody(r)  BY <1>9 DEF Tools!Interrupt
    <2>2. CASE run[r].pc = "running"
      <3>1. Tools!Go(r, "killing") /\ lease' = lease /\ "killing" \in ToolStep
        BY <1>9, <2>2 DEF Tools!Interrupt, Tools!At, ToolStep
      <3> QED  BY <1>1, <1>2, <1>3, <1>4, <2>1, <2>2, <3>1, ToolMoves DEF Tools!At
    <2>3. CASE run[r].pc # "running"
      <3>1. PICK pc : pc = IF Tools!At(r, "writing") /\ ~run[r].wrote THEN "orphaned"
                           ELSE IF r \in token THEN "cancelled" ELSE "failed"
        OBVIOUS
      <3>2. Tools!Go(r, pc) /\ lease' = lease \ {r}
        BY <1>9, <2>3, <3>1 DEF Tools!Interrupt, Tools!At
      <3>3. /\ pc \in ToolStep /\ pc \in {"orphaned", "cancelled", "failed"}
            /\ pc = "orphaned" => run[r].pc = "writing"
        BY <3>1 DEF ToolStep, Tools!Over, Tools!At
      <3>4. r \notin child /\ run[r].pc # "cancelled"
        BY <1>3, <2>1, <2>3 DEF Tools!InBody
      <3> QED  BY <1>1, <1>2, <1>3, <1>4, <2>1, <3>2, <3>3, <3>4, ToolMoves DEF Tools!At
    <2> QED  BY <2>2, <2>3
  <1>10. CASE Tools!Killed(r)
    <2>1. /\ run[r].pc = "killing" /\ UNCHANGED <<file, token>>
          /\ child' = child \ {r} /\ lease' = lease \ {r}
      BY <1>10 DEF Tools!Killed, Tools!At
    <2>2. PICK pc \in {"cancelled", "failed"} : Tools!Go(r, pc)  BY <1>10 DEF Tools!Killed
    <2>3. pc \in ToolStep  BY DEF ToolStep, Tools!Over
    <2> QED  BY <1>1, <1>2, <1>3, <2>1, <2>2, <2>3, ToolMoves DEF Tools!At
  <1> QED  BY <1>5, <1>6, <1>7, <1>8, <1>9, <1>10

LEMMA ToolInvStep == ToolInv /\ [Tools!Next]_(Tools!vars) => ToolInv'
  <1> SUFFICES ASSUME ToolInv, [Tools!Next]_(Tools!vars)  PROVE ToolInv'  OBVIOUS
  <1>1. CASE UNCHANGED Tools!vars
    BY <1>1 DEF Tools!vars, ToolInv, ToolTypes, Doings, LeasesExclude, PatchesAreCurrent,
                Overtaken, Tools!At, Tools!Reads
  <1>2. ASSUME NEW r \in Run, Tools!Exits(r) \/ Tools!Ask(r)  PROVE ToolInv'
    <2>1. child' \subseteq child /\ token' \subseteq token \cup {r} /\ UNCHANGED <<file, lease, run>>
      BY <1>2 DEF Tools!Exits, Tools!Ask
    <2> QED
      BY <2>1 DEF ToolInv, ToolTypes, Doings, LeasesExclude, PatchesAreCurrent, Overtaken,
                  Tools!At, Tools!Reads
  <1> QED  BY <1>1, <1>2, ToolWrites, ToolWorks, ToolProceeds DEF Tools!Next, Tools!Step

(* Of the work of several tools on one file nothing is lost but to a tool  *)
(* that replaces the file or to the thread of one that was interrupted,    *)
(* and no process of a command runs without the lease of its tool, for any *)
(* number of executions (tools/base.py:execute, tools/files.py,            *)
(* tools/process.py).                                                      *)
THEOREM ToolsKeepApart == Tools!Spec => ToolsAreIsolated
  <1>1. Tools!Init => ToolInv
    <2> SUFFICES ASSUME Tools!Init  PROVE ToolInv  OBVIOUS
    <2>1. /\ file = {} /\ lease = {} /\ child = {} /\ token = {}
          /\ run = [r \in Run |-> [pc |-> "idle", does |-> "look", seen |-> {}, wrote |-> FALSE]]
      BY DEF Tools!Init
    <2>2. \A r \in Run : run[r] = [pc |-> "idle", does |-> "look", seen |-> {}, wrote |-> FALSE]
      BY <2>1
    <2>3. ToolTypes  BY <2>1 DEF ToolTypes, ToolRun, ToolStep
    <2>4. Doings /\ LeasesExclude /\ PatchesAreCurrent
      BY <2>1, <2>2 DEF Doings, LeasesExclude, PatchesAreCurrent, Tools!At
    <2> QED  BY <2>3, <2>4 DEF ToolInv
  <1>2. ToolInv => Tools!ChildrenAreLeased
    BY DEF ToolInv, ToolTypes, LeasesExclude, Tools!ChildrenAreLeased
  <1>3. ASSUME ToolInv, [Tools!Next]_(Tools!vars)
        PROVE  [\/ file \subseteq file'
                \/ \E w \in file' : /\ ~run[w].wrote /\ run'[w].wrote
                                    /\ run[w].does = "write" \/ Tools!At(w, "orphaned")
                \/ \E o \in file \ file' : Tools!At(o, "cancelled") /\ run[o].wrote]_(Tools!vars)
    <2> SUFFICES ASSUME NEW r \in Run, Tools!Write(r)
                 PROVE  \/ file \subseteq file'
                        \/ \E w \in file' : /\ ~run[w].wrote /\ run'[w].wrote
                                            /\ run[w].does = "write" \/ Tools!At(w, "orphaned")
                        \/ \E o \in file \ file' : Tools!At(o, "cancelled") /\ run[o].wrote
      BY <1>3 DEF Tools!Next, Tools!Step, Tools!vars, Tools!Execute, Tools!Lease, Tools!Read,
                  Tools!Written, Tools!Collected, Tools!Interrupt, Tools!Killed, Tools!Works,
                  Tools!Exits, Tools!Ask
    <2>1. /\ run[r].pc \in {"writing", "orphaned"} /\ ~run[r].wrote /\ r \in file'
          /\ file' = {r} \cup (IF run[r].does = "patch" THEN run[r].seen ELSE {})
          /\ run'[r].wrote
      BY <1>3 DEF Tools!Write, ToolInv, ToolTypes
    <2>2. CASE run[r].does = "write" \/ run[r].pc = "orphaned"
      BY <2>1, <2>2 DEF Tools!At
    <2>3. CASE run[r].does = "patch" /\ run[r].pc = "writing"
      <3>1. file \subseteq run[r].seen \/ Overtaken(r)
        BY <1>3, <2>1, <2>3 DEF ToolInv, PatchesAreCurrent, Tools!At
      <3>2. r \notin file  BY <1>3, <2>1, <2>3 DEF ToolInv, Doings
      <3> QED  BY <2>1, <2>3, <3>1, <3>2 DEF Overtaken
    <2>4. run[r].does \in {"write", "patch"}  BY <1>3, <2>1 DEF ToolInv, Doings
    <2> QED  BY <2>1, <2>2, <2>3, <2>4
  <1> QED
    BY <1>1, <1>2, <1>3, ToolInvStep, PTL
       DEF Tools!Spec, ToolsAreIsolated, Tools!ToolsAreIsolated, Tools!NothingIsLost

----------------------------------------------------------------------------
(* The MCP client: what a caller waits for is its own, and a session is    *)
(* shaken before anything but a handshake goes over it.                    *)
McpStage == {"open", "close", "hello", "list", "call"}

(* A handshake follows every new transport, and a call is the last stage. *)
McpPlan == {p \in Seq(McpStage) :
              /\ \A i \in 1..Len(p) : p[i] = "call" => i = Len(p)
              /\ \A i \in 1..Len(p) : p[i] = "open" => i < Len(p) /\ p[i + 1] = "hello"}
CallAhead(p) == p # <<>> /\ p[Len(p)] = "call"

McpCaller == [pc : {"idle", "queued", "working"} \cup Mcp!Over, plan : McpPlan, waits : Nat,
              retried : BOOLEAN, answer : Nat]
McpRequest == [by : Caller, stage : McpStage, over : Nat, shaken : BOOLEAN, cut : BOOLEAN]

McpTypes ==
    /\ opened \in Nat /\ conn \in 0..opened /\ cut \in BOOLEAN
    /\ sent \in Seq(McpRequest) /\ wire \in Seq(SUBSET Nat) /\ Len(wire) = opened
    /\ \A n \in DOMAIN sent : sent[n].over \in 1..opened
    /\ \A k \in 1..opened : wire[k] \subseteq DOMAIN sent
    /\ caller \in [Caller -> McpCaller] /\ ran \in [Caller -> Nat]
    /\ turn \in Caller \cup {Mcp!Nobody}

Live(c) == caller[c].pc \in {"queued", "working"}
TurnsAreTaken ==
    /\ turn \in Caller => Mcp!At(turn, "working")
    /\ \A c \in Caller : /\ Mcp!At(c, "working") => turn = c
                         /\ Live(c) => caller[c].plan # <<>>

WaitsAreOwn ==
    \A c \in Caller : caller[c].waits # 0 =>
        /\ Mcp!At(c, "working") /\ caller[c].waits \in DOMAIN sent
        /\ LET q == sent[caller[c].waits] IN
             q.by = c /\ q.stage = Mcp!Stage(c) /\ q.over = conn

AnswersAreOwn ==
    \A c \in Caller : caller[c].answer # 0 =>
        /\ caller[c].answer \in DOMAIN sent
        /\ LET q == sent[caller[c].answer] IN q.by = c /\ caller[c].answer \in wire[q.over]

(* The calls c has sent, those of them the server has run, and the one it  *)
(* still has to send.                                                      *)
CallsOf(c) == {n \in DOMAIN sent : sent[n].by = c /\ sent[n].stage = "call"}
RunOf(c) == {n \in CallsOf(c) : n \in wire[sent[n].over]}
CallToCome(c) == /\ Live(c) /\ CallAhead(caller[c].plan)
                 /\ ~(caller[c].waits # 0 /\ Mcp!Stage(c) = "call")
Attempts(c) == IF caller[c].retried THEN 2 ELSE 1
RunsAreCounted ==
    \A c \in Caller :
       /\ ran[c] = Cardinality(RunOf(c))
       /\ Cardinality(CallsOf(c)) <= Attempts(c)
       /\ CallToCome(c) => Cardinality(CallsOf(c)) < Attempts(c)
       /\ Mcp!At(c, "idle") => CallsOf(c) = {} /\ caller[c].waits = 0

SessionsAreShaken ==
    /\ \/ cut \/ conn = 0 \/ conn \in shaken
       \/ turn \in Caller /\ Mcp!Stage(turn) = "hello"
    /\ Mcp!HandshakeFirst

McpInv == /\ McpTypes /\ TurnsAreTaken /\ WaitsAreOwn /\ AnswersAreOwn
          /\ RunsAreCounted /\ SessionsAreShaken

(* What a plan is when its first stage is done. *)
LEMMA PlanGoesOn ==
    ASSUME NEW p \in McpPlan, p # <<>>
    PROVE  /\ Head(p) \in McpStage /\ Tail(p) \in McpPlan
           /\ Head(p) = "call" => Tail(p) = <<>> /\ CallAhead(p)
           /\ Head(p) = "open" => Tail(p) # <<>> /\ Head(Tail(p)) = "hello"
           /\ CallAhead(Tail(p)) => CallAhead(p) /\ Head(p) # "call"
  <1>1. /\ p \in Seq(McpStage) /\ Head(p) = p[1] /\ Len(p) \in Nat \ {0}
        /\ \A i \in 1..Len(p) : p[i] = "call" => i = Len(p)
        /\ \A i \in 1..Len(p) : p[i] = "open" => i < Len(p) /\ p[i + 1] = "hello"
    BY DEF McpPlan
  <1>2. PICK q : q = Tail(p)  OBVIOUS
  <1>3. /\ q \in Seq(McpStage) /\ Len(q) = Len(p) - 1
        /\ \A i \in 1..Len(q) : q[i] = p[i + 1]
    BY <1>1, <1>2, HeadTailProperties
  <1>4. q \in McpPlan
    <2>1. ASSUME NEW i \in 1..Len(q)
          PROVE  /\ q[i] = "call" => i = Len(q)
                 /\ q[i] = "open" => i < Len(q) /\ q[i + 1] = "hello"
      <3>1. i + 1 \in 1..Len(p) /\ q[i] = p[i + 1]  BY <1>1, <1>3
      <3>2. q[i] = "open" => i + 1 < Len(p) /\ p[(i + 1) + 1] = "hello"  BY <1>1, <3>1
      <3>3. i < Len(q) => q[i + 1] = p[(i + 1) + 1]  BY <1>3
      <3> QED  BY <1>1, <1>3, <3>1, <3>2, <3>3
    <2> QED  BY <1>3, <2>1 DEF McpPlan
  <1>5. Head(p) = "call" => q = <<>> /\ CallAhead(p)  BY <1>1, <1>3 DEF CallAhead
  <1>6. Head(p) = "open" => q # <<>> /\ Head(q) = "hello"
    <2> SUFFICES ASSUME p[1] = "open"  PROVE q # <<>> /\ Head(q) = "hello"  BY <1>1
    <2>1. 1 < Len(p) /\ p[2] = "hello"  BY <1>1
    <2>2. q # <<>> /\ q[1] = "hello"  BY <1>1, <1>3, <2>1
    <2> QED  BY <1>3, <2>2
  <1>7. CallAhead(q) => CallAhead(p) /\ Head(p) # "call"
    <2> SUFFICES ASSUME q # <<>>, q[Len(q)] = "call"  PROVE CallAhead(p) /\ p[1] # "call"
      BY <1>1 DEF CallAhead
    <2>1. Len(q) \in 1..Len(q) /\ Len(q) + 1 = Len(p)  BY <1>1, <1>3
    <2>2. p[Len(p)] = "call" /\ Len(p) # 1  BY <1>1, <1>3, <2>1
    <2>3. CallAhead(p)  BY <2>2 DEF CallAhead
    <2>4. 1 \in 1..Len(p)  BY <1>1
    <2> QED  BY <1>1, <2>2, <2>3, <2>4
  <1> QED  BY <1>1, <1>2, <1>4, <1>5, <1>6, <1>7

LEMMA PlansAreGood ==
    /\ \A k \in DOMAIN Mcp!Plans : Mcp!Plans[k] \in McpPlan \ {<<>>}
    /\ Mcp!Retry \in McpPlan \ {<<>>}
  <1>1. ASSUME NEW k \in DOMAIN Mcp!Plans  PROVE Mcp!Plans[k] \in McpPlan \ {<<>>}
    <2>1. <<"open", "hello", "list">> \in McpPlan \ {<<>>}  BY DEF McpPlan, McpStage
    <2>2. <<"list">> \in McpPlan \ {<<>>}  BY DEF McpPlan, McpStage
    <2>3. <<"close", "open", "hello", "list">> \in McpPlan \ {<<>>}  BY DEF McpPlan, McpStage
    <2>4. <<"call">> \in McpPlan \ {<<>>}  BY DEF McpPlan, McpStage
    <2>5. <<"close">> \in McpPlan \ {<<>>}  BY DEF McpPlan, McpStage
    <2>6. \/ Mcp!Plans[k] = <<"open", "hello", "list">> \/ Mcp!Plans[k] = <<"list">>
          \/ Mcp!Plans[k] = <<"close", "open", "hello", "list">> \/ Mcp!Plans[k] = <<"call">>
          \/ Mcp!Plans[k] = <<"close">>
      BY <1>1 DEF Mcp!Plans
    <2> QED  BY <2>1, <2>2, <2>3, <2>4, <2>5, <2>6
  <1>2. Mcp!Retry \in McpPlan \ {<<>>}  BY DEF Mcp!Retry, McpPlan, McpStage
  <1> QED  BY <1>1, <1>2

(* Only the calls of finitely many requests. *)
LEMMA CallsAreFinite ==
    ASSUME McpTypes, NEW c
    PROVE  /\ IsFiniteSet(CallsOf(c)) /\ Cardinality(CallsOf(c)) \in Nat
           /\ IsFiniteSet(RunOf(c)) /\ Cardinality(RunOf(c)) \in Nat
           /\ Cardinality(RunOf(c)) <= Cardinality(CallsOf(c))
  <1>1. DOMAIN sent = 1..Len(sent) /\ Len(sent) \in Nat  BY DEF McpTypes
  <1>2. IsFiniteSet(1..Len(sent))  BY <1>1, FS_Interval
  <1>3. CallsOf(c) \subseteq 1..Len(sent) /\ RunOf(c) \subseteq CallsOf(c)
    BY <1>1 DEF CallsOf, RunOf
  <1>4. IsFiniteSet(CallsOf(c))  BY <1>2, <1>3, FS_Subset
  <1> QED  BY <1>3, <1>4, FS_Subset, FS_CardinalityType

(* A caller moves on and nothing is sent or answered: the others are not   *)
(* at work, and what it may still do is no more than before.               *)
LEMMA CallerMoves ==
    ASSUME Mcp!Nobody \notin Caller, McpInv, NEW c \in Caller, NEW v \in McpCaller,
           caller' \in [Caller -> McpCaller], caller'[c] = v,
           \A d \in Caller : d # c => caller'[d] = caller[d],
           sent' = sent, ran' = ran, opened' \in Nat, opened <= opened',
           wire' \in Seq(SUBSET Nat), Len(wire') = opened',
           \A k \in 1..opened' : wire'[k] = IF k <= opened THEN wire[k] ELSE {},
           conn' \in 0..opened', cut' \in BOOLEAN, conn' # conn => turn = c,
           turn' = IF v.pc = "working" THEN c ELSE IF turn = c THEN Mcp!Nobody ELSE turn,
           v.pc = "working" => turn \in {c, Mcp!Nobody},
           v.pc # "idle", v.waits = 0, v.pc \in {"queued", "working"} => v.plan # <<>>,
           \/ v.answer = 0 \/ v.answer = caller[c].answer
           \/ v.answer = caller[c].waits /\ v.answer \in wire[conn],
           \/ /\ v.retried = caller[c].retried
              /\ v.pc \in {"queued", "working"} /\ CallAhead(v.plan) =>
                    CallToCome(c) \/ Mcp!At(c, "idle")
           \/ v.retried /\ ~caller[c].retried,
           cut' \/ conn' = 0 \/ conn' \in shaken' \/ (turn' \in Caller /\ Mcp!Stage(turn)' = "hello")
    PROVE  McpInv'
  <1>1. /\ caller \in [Caller -> McpCaller] /\ opened \in Nat /\ conn \in 0..opened
        /\ DOMAIN sent = 1..Len(sent) /\ Len(sent) \in Nat
        /\ \A n \in DOMAIN sent : sent[n].over \in 1..opened
        /\ \A k \in 1..opened : wire[k] \subseteq DOMAIN sent
        /\ turn \in Caller \cup {Mcp!Nobody}
    BY DEF McpInv, McpTypes
  <1>2. McpTypes'
    <2>1. \A n \in DOMAIN sent : sent[n].over \in 1..opened'  BY <1>1
    <2>2. \A k \in 1..opened' : wire'[k] \subseteq DOMAIN sent  BY <1>1
    <2>3. turn' \in Caller \cup {Mcp!Nobody}  BY <1>1
    <2> QED  BY <2>1, <2>2, <2>3 DEF McpInv, McpTypes
  <1>3. \A n \in DOMAIN sent : wire'[sent[n].over] = wire[sent[n].over]  BY <1>1
  <1>4. \A d \in Caller : d # c /\ caller[d].pc = "working" => turn' = d /\ conn' = conn
    BY DEF McpInv, TurnsAreTaken, Mcp!At
  <1>5. TurnsAreTaken'
    <2>1. turn' \in Caller => caller'[turn'].pc = "working"
      BY DEF McpInv, TurnsAreTaken, Mcp!At
    <2>2. \A d \in Caller : /\ caller'[d].pc = "working" => turn' = d
                            /\ caller'[d].pc \in {"queued", "working"} => caller'[d].plan # <<>>
      BY <1>4 DEF McpInv, TurnsAreTaken, Mcp!At, Live
    <2> QED  BY <2>1, <2>2 DEF TurnsAreTaken, Mcp!At, Live
  <1>6. WaitsAreOwn'
    <2> SUFFICES ASSUME NEW d \in Caller, caller'[d].waits # 0
                 PROVE  /\ caller'[d].pc = "working" /\ caller'[d].waits \in DOMAIN sent
                        /\ sent[caller'[d].waits].by = d
                        /\ sent[caller'[d].waits].stage = Head(caller'[d].plan)
                        /\ sent[caller'[d].waits].over = conn'
      BY DEF WaitsAreOwn, Mcp!At, Mcp!Stage
    <2>1. d # c /\ caller'[d] = caller[d]  OBVIOUS
    <2>2. /\ caller[d].pc = "working" /\ caller[d].waits \in DOMAIN sent
          /\ sent[caller[d].waits].by = d /\ sent[caller[d].waits].stage = Head(caller[d].plan)
          /\ sent[caller[d].waits].over = conn
      BY <2>1 DEF McpInv, WaitsAreOwn, Mcp!At, Mcp!Stage
    <2> QED  BY <1>4, <2>1, <2>2
  <1>7. AnswersAreOwn'
    <2> SUFFICES ASSUME NEW d \in Caller, caller'[d].answer # 0
                 PROVE  /\ caller'[d].answer \in DOMAIN sent
                        /\ sent[caller'[d].answer].by = d
                        /\ caller'[d].answer \in wire'[sent[caller'[d].answer].over]
      BY DEF AnswersAreOwn
    <2>1. CASE caller'[d].answer = caller[d].answer
      BY <1>3, <2>1 DEF McpInv, AnswersAreOwn
    <2>2. CASE d = c /\ v.answer = caller[c].waits /\ v.answer \in wire[conn]
      <3>1. /\ caller[c].waits \in DOMAIN sent /\ sent[caller[c].waits].by = c
            /\ sent[caller[c].waits].over = conn
        BY <2>2 DEF McpInv, WaitsAreOwn
      <3> QED  BY <1>3, <2>2, <3>1
    <2> QED  BY <2>1, <2>2
  <1>8. RunsAreCounted'
    <2> SUFFICES ASSUME NEW d \in Caller
                 PROVE  /\ ran[d] = Cardinality(RunOf(d)')
                        /\ Cardinality(CallsOf(d)') <= Attempts(d)'
                        /\ CallToCome(d)' => Cardinality(CallsOf(d)') < Attempts(d)'
                        /\ caller'[d].pc = "idle" => CallsOf(d)' = {} /\ caller'[d].waits = 0
      BY DEF RunsAreCounted, Mcp!At
    <2>1. CallsOf(d)' = CallsOf(d)  BY DEF CallsOf
    <2>2. RunOf(d)' = RunOf(d)  BY <1>3, <2>1 DEF RunOf, CallsOf
    <2>3. /\ ran[d] = Cardinality(RunOf(d)) /\ Cardinality(CallsOf(d)) <= Attempts(d)
          /\ CallToCome(d) => Cardinality(CallsOf(d)) < Attempts(d)
          /\ caller[d].pc = "idle" => CallsOf(d) = {} /\ caller[d].waits = 0
      BY DEF McpInv, RunsAreCounted, Mcp!At
    <2>4. Cardinality(CallsOf(d)) \in Nat  BY CallsAreFinite DEF McpInv
    <2>5. CASE d # c
      <3>1. Attempts(d)' = Attempts(d) /\ (CallToCome(d)' => CallToCome(d))
        BY <2>5 DEF Attempts, CallToCome, Live, Mcp!Stage
      <3> QED  BY <2>1, <2>2, <2>3, <2>5, <3>1
    <2>6. CASE d = c /\ v.retried /\ ~caller[c].retried
      <3>1. Attempts(d)' = 2 /\ Attempts(d) = 1  BY <2>6 DEF Attempts
      <3> QED  BY <2>1, <2>2, <2>3, <2>4, <2>6, <3>1
    <2>7. CASE d = c /\ v.retried = caller[c].retried
               /\ (v.pc \in {"queued", "working"} /\ CallAhead(v.plan) =>
                     CallToCome(c) \/ Mcp!At(c, "idle"))
      <3>1. Attempts(d)' = Attempts(d) /\ Attempts(d) \in {1, 2}  BY <2>7 DEF Attempts
      <3>2. CallToCome(d)' => CallToCome(d) \/ caller[d].pc = "idle"
        BY <2>7 DEF CallToCome, Live, Mcp!At
      <3>3. CallsOf(d) = {} => Cardinality(CallsOf(d)) = 0  BY FS_EmptySet
      <3> QED  BY <2>1, <2>2, <2>3, <2>4, <2>7, <3>1, <3>2, <3>3
    <2> QED  BY <2>5, <2>6, <2>7
  <1>9. SessionsAreShaken'
    BY DEF McpInv, SessionsAreShaken, Mcp!HandshakeFirst
  <1> QED  BY <1>2, <1>5, <1>6, <1>7, <1>8, <1>9 DEF McpInv

LEMMA McpAdvance ==
    ASSUME McpInv, NEW c \in Caller, Mcp!Working(c), Mcp!Advance(c)
    PROVE  /\ caller' \in [Caller -> McpCaller]
           /\ \A d \in Caller : d # c => caller'[d] = caller[d]
           /\ caller'[c].plan = Tail(caller[c].plan) /\ caller'[c].waits = 0
           /\ caller'[c].retried = caller[c].retried /\ caller'[c].answer = caller[c].waits
           /\ caller'[c].pc = IF Tail(caller[c].plan) = <<>> THEN "ok" ELSE "working"
           /\ turn' = IF Tail(caller[c].plan) = <<>> THEN Mcp!Nobody ELSE c
           /\ Head(caller[c].plan) # "call" /\ CallAhead(Tail(caller[c].plan)) => CallToCome(c)
           /\ Head(caller[c].plan) = "call" => Tail(caller[c].plan) = <<>>
           /\ Head(caller[c].plan) = "open" => Mcp!Stage(c)' = "hello" /\ turn' = c
  <1>0. caller \in [Caller -> McpCaller] /\ caller[c] \in McpCaller  BY DEF McpInv, McpTypes
  <1>1. caller[c].pc = "working" /\ turn = c /\ caller[c].plan # <<>>
    BY DEF Mcp!Working, Mcp!At, McpInv, TurnsAreTaken, Live
  <1>2. caller[c].plan \in McpPlan /\ caller[c].waits \in Nat  BY <1>0 DEF McpCaller
  <1>3. PICK rest : rest = Tail(caller[c].plan)  OBVIOUS
  <1>4. rest \in McpPlan  BY <1>1, <1>2, <1>3, PlanGoesOn
  <1>5. PICK pc : pc = IF rest = <<>> THEN "ok" ELSE "working"  OBVIOUS
  <1>6. pc \in {"idle", "queued", "working"} \cup Mcp!Over  BY <1>5 DEF Mcp!Over
  <1>7. PICK g1 : g1 = [caller EXCEPT ![c].plan = rest]  OBVIOUS
  <1>8. /\ g1 \in [Caller -> McpCaller] /\ \A d \in Caller : d # c => g1[d] = caller[d]
        /\ g1[c].plan = rest /\ g1[c].waits = caller[c].waits /\ g1[c].pc = caller[c].pc
        /\ g1[c].retried = caller[c].retried /\ g1[c].answer = caller[c].answer
    BY <1>0, <1>4, <1>7 DEF McpCaller
  <1>9. PICK g2 : g2 = [g1 EXCEPT ![c].waits = 0]  OBVIOUS
  <1>10. /\ g2 \in [Caller -> McpCaller] /\ \A d \in Caller : d # c => g2[d] = caller[d]
         /\ g2[c].plan = rest /\ g2[c].waits = 0 /\ g2[c].pc = caller[c].pc
         /\ g2[c].retried = caller[c].retried /\ g2[c].answer = caller[c].answer
    BY <1>8, <1>9 DEF McpCaller
  <1>11. PICK g3 : g3 = [g2 EXCEPT ![c].answer = caller[c].waits]  OBVIOUS
  <1>12. /\ g3 \in [Caller -> McpCaller] /\ \A d \in Caller : d # c => g3[d] = caller[d]
         /\ g3[c].plan = rest /\ g3[c].waits = 0 /\ g3[c].pc = caller[c].pc
         /\ g3[c].retried = caller[c].retried /\ g3[c].answer = caller[c].waits
    BY <1>2, <1>10, <1>11 DEF McpCaller
  <1>13. caller' = [g3 EXCEPT ![c].pc = pc]
    BY <1>3, <1>5, <1>7, <1>9, <1>11 DEF Mcp!Advance
  <1>14. /\ caller' \in [Caller -> McpCaller] /\ \A d \in Caller : d # c => caller'[d] = caller[d]
         /\ caller'[c].plan = rest /\ caller'[c].waits = 0 /\ caller'[c].pc = pc
         /\ caller'[c].retried = caller[c].retried /\ caller'[c].answer = caller[c].waits
    BY <1>6, <1>12, <1>13 DEF McpCaller
  <1>15. turn' = IF rest = <<>> THEN Mcp!Nobody ELSE c  BY <1>1, <1>3 DEF Mcp!Advance
  <1>16. Head(caller[c].plan) # "call" /\ CallAhead(rest) => CallToCome(c)
    BY <1>1, <1>2, <1>3, PlanGoesOn DEF CallToCome, Live, Mcp!Stage
  <1>17. Head(caller[c].plan) = "call" => rest = <<>>  BY <1>1, <1>2, <1>3, PlanGoesOn
  <1>18. Head(caller[c].plan) = "open" => rest # <<>> /\ Head(rest) = "hello"
    BY <1>1, <1>2, <1>3, PlanGoesOn
  <1> QED  BY <1>3, <1>5, <1>14, <1>15, <1>16, <1>17, <1>18 DEF Mcp!Stage

LEMMA McpLeave ==
    ASSUME McpInv, NEW c \in Caller, NEW pc \in Mcp!Over,
           caller' = [caller EXCEPT ![c].pc = pc, ![c].waits = 0]
    PROVE  /\ caller' \in [Caller -> McpCaller]
           /\ \A d \in Caller : d # c => caller'[d] = caller[d]
           /\ caller'[c].plan = caller[c].plan /\ caller'[c].waits = 0
           /\ caller'[c].retried = caller[c].retried /\ caller'[c].answer = caller[c].answer
           /\ caller'[c].pc = pc
  <1>1. caller \in [Caller -> McpCaller]  BY DEF McpInv, McpTypes
  <1>2. PICK g : g = [caller EXCEPT ![c].pc = pc]  OBVIOUS
  <1>3. caller' = [g EXCEPT ![c].waits = 0]  BY <1>2
  <1>4. /\ g \in [Caller -> McpCaller] /\ \A d \in Caller : d # c => g[d] = caller[d]
        /\ g[c].plan = caller[c].plan /\ g[c].pc = pc
        /\ g[c].retried = caller[c].retried /\ g[c].answer = caller[c].answer
    BY <1>1, <1>2 DEF McpCaller
  <1>5. /\ caller' \in [Caller -> McpCaller] /\ \A d \in Caller : d # c => caller'[d] = g[d]
        /\ caller'[c].plan = g[c].plan /\ caller'[c].pc = g[c].pc /\ caller'[c].waits = 0
        /\ caller'[c].retried = g[c].retried /\ caller'[c].answer = g[c].answer
    <2>1. g[c] \in McpCaller  BY <1>4
    <2>2. PICK w \in McpCaller : w = [g[c] EXCEPT !.waits = 0]  BY <2>1 DEF McpCaller
    <2>3. caller' = [g EXCEPT ![c] = w]  BY <1>3, <2>2
    <2>4. caller' \in [Caller -> McpCaller]  BY <1>4, <2>3
    <2>5. \A d \in Caller : d # c => caller'[d] = g[d]  BY <1>3, <1>4
    <2>6. caller'[c] = [g[c] EXCEPT !.waits = 0]  BY <1>3, <1>4
    <2> QED  BY <2>1, <2>4, <2>5, <2>6 DEF McpCaller
  <1> QED  BY <1>4, <1>5

LEMMA McpWires ==
    McpInv => /\ wire \in Seq(SUBSET Nat) /\ Len(wire) = opened /\ opened \in Nat /\ opened <= opened
              /\ (\A k \in 1..opened : wire[k] = IF k <= opened THEN wire[k] ELSE {})
              /\ conn \in 0..opened /\ cut \in BOOLEAN /\ 0 \in 0..opened
              /\ caller \in [Caller -> McpCaller]
  BY DEF McpInv, McpTypes

(* The end of an operation, at whatever stage it failed or was cancelled. *)
LEMMA McpLeaves ==
    ASSUME Mcp!Nobody \notin Caller, McpInv, NEW c \in Caller, NEW pc \in {"failed", "cancelled"},
           caller' = [caller EXCEPT ![c].pc = pc, ![c].waits = 0],
           turn' = IF turn = c THEN Mcp!Nobody ELSE turn,
           UNCHANGED <<opened, shaken, sent, wire, ran>>,
           conn' = conn \/ (conn' = 0 /\ turn = c),
           cut' \in BOOLEAN, cut => cut',
           turn = c /\ Mcp!Stage(c) = "hello" => cut' \/ conn' = 0
    PROVE  McpInv'
  <1>1. pc \in Mcp!Over  BY DEF Mcp!Over
  <1>2. /\ caller' \in [Caller -> McpCaller]
        /\ \A d \in Caller : d # c => caller'[d] = caller[d]
        /\ caller'[c].plan = caller[c].plan /\ caller'[c].waits = 0
        /\ caller'[c].retried = caller[c].retried /\ caller'[c].answer = caller[c].answer
        /\ caller'[c].pc = pc
    BY <1>1, McpLeave
  <1>3. PICK v \in McpCaller : v = caller'[c]  BY <1>2
  <1>4. cut' \/ conn' = 0 \/ conn' \in shaken' \/ (turn' \in Caller /\ Mcp!Stage(turn)' = "hello")
    BY <1>2 DEF McpInv, SessionsAreShaken, Mcp!Stage
  <1>5. /\ v.pc = pc /\ v.waits = 0 /\ v.plan = caller[c].plan
        /\ v.retried = caller[c].retried /\ v.answer = caller[c].answer
    BY <1>2, <1>3
  <1>6. v.pc \notin {"idle", "queued", "working"}  BY <1>5
  <1>7. turn' = IF v.pc = "working" THEN c ELSE IF turn = c THEN Mcp!Nobody ELSE turn
    BY <1>6
  <1>8. wire' \in Seq(SUBSET Nat) /\ Len(wire') = opened' /\ opened' \in Nat /\ opened <= opened'
        /\ conn' \in 0..opened' /\ (conn' # conn => turn = c)
        /\ \A k \in 1..opened' : wire'[k] = IF k <= opened THEN wire[k] ELSE {}
    BY McpWires
  <1> QED  BY <1>2, <1>3, <1>4, <1>5, <1>6, <1>7, <1>8, CallerMoves

LEMMA EnterStep ==
    ASSUME Mcp!Nobody \notin Caller, McpInv, NEW c \in Caller, Mcp!Enter(c) \/ Mcp!Acquire(c)
    PROVE  McpInv'
  <1>0. caller \in [Caller -> McpCaller]  BY McpWires
  <1>1. CASE Mcp!Enter(c)
    <2>1. /\ caller[c].pc = "idle" /\ caller[c].waits = 0
          /\ UNCHANGED <<trusted, cut, conn, opened, shaken, alive, sent, wire, turn, ran>>
      BY <1>1 DEF Mcp!Enter, Mcp!Still, Mcp!At, McpInv, RunsAreCounted
    <2>2. PICK p \in McpPlan \ {<<>>}, pc \in {"queued", "failed"} :
             caller' = [caller EXCEPT ![c].pc = pc, ![c].plan = p]
      BY <1>1, PlansAreGood DEF Mcp!Enter
    <2>3. PICK g : g = [caller EXCEPT ![c].pc = pc]  OBVIOUS
    <2>4. /\ g \in [Caller -> McpCaller] /\ \A d \in Caller : d # c => g[d] = caller[d]
          /\ g[c].waits = caller[c].waits /\ g[c].pc = pc
          /\ g[c].retried = caller[c].retried /\ g[c].answer = caller[c].answer
      BY <1>0, <2>3 DEF Mcp!Over, McpCaller
    <2>5. caller' = [g EXCEPT ![c].plan = p]  BY <2>2, <2>3
    <2>6. /\ caller' \in [Caller -> McpCaller] /\ \A d \in Caller : d # c => caller'[d] = caller[d]
          /\ caller'[c].waits = 0 /\ caller'[c].pc = pc /\ caller'[c].plan = p
          /\ caller'[c].retried = caller[c].retried /\ caller'[c].answer = caller[c].answer
      BY <2>1, <2>4, <2>5 DEF McpCaller
    <2>7. PICK v \in McpCaller : v = caller'[c]  BY <2>6
    <2>8. turn # c  BY <2>1 DEF McpInv, TurnsAreTaken, Mcp!At
    <2>9. cut' \/ conn' = 0 \/ conn' \in shaken' \/ (turn' \in Caller /\ Mcp!Stage(turn)' = "hello")
      BY <2>1, <2>6, <2>8 DEF McpInv, SessionsAreShaken, Mcp!Stage
    <2> QED  BY <2>1, <2>6, <2>7, <2>8, <2>9, McpWires, CallerMoves DEF Mcp!At
  <1>2. CASE Mcp!Acquire(c)
    <2>1. /\ caller[c].pc = "queued" /\ turn = Mcp!Nobody /\ turn' = c
          /\ caller' = [caller EXCEPT ![c].pc = "working"]
          /\ UNCHANGED <<trusted, cut, conn, opened, shaken, alive, sent, wire, ran>>
      BY <1>2 DEF Mcp!Acquire, Mcp!Still, Mcp!At
    <2>2. caller[c].plan # <<>> /\ caller[c].waits = 0
      BY <2>1 DEF McpInv, TurnsAreTaken, Live, WaitsAreOwn, Mcp!At
    <2>3. /\ caller' \in [Caller -> McpCaller] /\ \A d \in Caller : d # c => caller'[d] = caller[d]
          /\ caller'[c].waits = 0 /\ caller'[c].pc = "working" /\ caller'[c].plan = caller[c].plan
          /\ caller'[c].retried = caller[c].retried /\ caller'[c].answer = caller[c].answer
      BY <1>0, <2>1, <2>2 DEF McpCaller
    <2>4. PICK v \in McpCaller : v = caller'[c]  BY <2>3
    <2>5. CallAhead(v.plan) => CallToCome(c)  BY <2>1, <2>2, <2>3, <2>4 DEF CallToCome, Live
    <2>6. cut' \/ conn' = 0 \/ conn' \in shaken'
      BY <2>1 DEF McpInv, SessionsAreShaken
    <2>7. /\ v.pc = "working" /\ v.waits = 0 /\ v.plan # <<>>
          /\ v.retried = caller[c].retried /\ v.answer = caller[c].answer
      BY <2>2, <2>3, <2>4
    <2>8. turn' = IF v.pc = "working" THEN c ELSE IF turn = c THEN Mcp!Nobody ELSE turn
      BY <2>1, <2>7
    <2>9. /\ v.pc = "working" => turn \in {c, Mcp!Nobody}
          /\ v.pc # "idle" /\ (v.pc \in {"queued", "working"} => v.plan # <<>>)
      BY <2>1, <2>7
    <2>10. wire' \in Seq(SUBSET Nat) /\ Len(wire') = opened' /\ opened' \in Nat
           /\ opened <= opened' /\ conn' \in 0..opened' /\ cut' \in BOOLEAN
           /\ \A k \in 1..opened' : wire'[k] = IF k <= opened THEN wire[k] ELSE {}
      BY <2>1, McpWires
    <2> QED
      BY <2>1, <2>3, <2>4, <2>5, <2>6, <2>7, <2>8, <2>9, <2>10, CallerMoves
  <1> QED  BY <1>1, <1>2

LEMMA OpenStep ==
    ASSUME Mcp!Nobody \notin Caller, McpInv, NEW c \in Caller, Mcp!Open(c)
    PROVE  McpInv'
  <1>1. /\ Mcp!Working(c) /\ caller[c].waits = 0 /\ Head(caller[c].plan) = "open" /\ turn = c
        /\ UNCHANGED <<cut, shaken, sent, ran>>
    BY DEF Mcp!Open, Mcp!Ready, Mcp!Working, Mcp!Still, Mcp!Stage
  <1>2. CASE Mcp!Leave(c, "failed") /\ UNCHANGED <<opened, conn, alive, wire>>
    BY <1>1, <1>2, McpWires, McpLeaves DEF Mcp!Leave, Mcp!Stage
  <1>3. CASE /\ Mcp!Advance(c) /\ opened' = opened + 1 /\ conn' = opened + 1
             /\ wire' = Append(wire, {})
    <2>1. /\ caller' \in [Caller -> McpCaller]
          /\ \A d \in Caller : d # c => caller'[d] = caller[d]
          /\ caller'[c].plan = Tail(caller[c].plan) /\ caller'[c].waits = 0
          /\ caller'[c].retried = caller[c].retried /\ caller'[c].answer = 0
          /\ caller'[c].pc = IF Tail(caller[c].plan) = <<>> THEN "ok" ELSE "working"
          /\ turn' = IF Tail(caller[c].plan) = <<>> THEN Mcp!Nobody ELSE c
          /\ CallAhead(Tail(caller[c].plan)) => CallToCome(c)
          /\ Mcp!Stage(c)' = "hello" /\ turn' = c
      BY <1>1, <1>3, McpAdvance
    <2>2. PICK v \in McpCaller : v = caller'[c]  BY <2>1
    <2>3. /\ wire' \in Seq(SUBSET Nat) /\ Len(wire') = opened' /\ opened' \in Nat
          /\ \A k \in 1..opened' : wire'[k] = IF k <= opened THEN wire[k] ELSE {}
          /\ opened <= opened' /\ conn' \in 0..opened'
      <3>1. {} \in SUBSET Nat  OBVIOUS
      <3> QED  BY <1>3, <3>1, McpWires, AppendProperties
    <2>4. cut' \in BOOLEAN  BY <1>1, McpWires
    <2> QED  BY <1>1, <2>1, <2>2, <2>3, <2>4, CallerMoves
  <1> QED  BY <1>2, <1>3 DEF Mcp!Open

LEMMA CloseStep ==
    ASSUME Mcp!Nobody \notin Caller, McpInv, NEW c \in Caller, Mcp!Close(c)
    PROVE  McpInv'
  <1>1. /\ Mcp!Working(c) /\ caller[c].waits = 0 /\ Head(caller[c].plan) = "close" /\ turn = c
        /\ conn' = 0 /\ UNCHANGED <<cut, opened, shaken, sent, wire, ran>>
    BY DEF Mcp!Close, Mcp!Ready, Mcp!Working, Mcp!Still, Mcp!Stage
  <1>2. CASE Mcp!Leave(c, "failed")
    BY <1>1, <1>2, McpWires, McpLeaves DEF Mcp!Leave, Mcp!Stage
  <1>3. CASE Mcp!Advance(c)
    <2>1. /\ caller' \in [Caller -> McpCaller]
          /\ \A d \in Caller : d # c => caller'[d] = caller[d]
          /\ caller'[c].plan = Tail(caller[c].plan) /\ caller'[c].waits = 0
          /\ caller'[c].retried = caller[c].retried /\ caller'[c].answer = 0
          /\ caller'[c].pc = IF Tail(caller[c].plan) = <<>> THEN "ok" ELSE "working"
          /\ turn' = IF Tail(caller[c].plan) = <<>> THEN Mcp!Nobody ELSE c
          /\ CallAhead(Tail(caller[c].plan)) => CallToCome(c)
      BY <1>1, <1>3, McpAdvance
    <2>2. PICK v \in McpCaller : v = caller'[c]  BY <2>1
    <2>3. v.pc \in {"ok", "working"} /\ (v.pc = "working" <=> v.plan # <<>>)  BY <2>1, <2>2
    <2> QED  BY <1>1, <2>1, <2>2, <2>3, McpWires, CallerMoves
  <1> QED  BY <1>2, <1>3 DEF Mcp!Close

LEMMA ReceiveStep ==
    ASSUME Mcp!Nobody \notin Caller, McpInv, NEW c \in Caller, Mcp!Receive(c)
    PROVE  McpInv'
  <1>1. /\ Mcp!Working(c) /\ caller[c].waits # 0 /\ caller[c].waits \in wire[conn] /\ turn = c
        /\ Mcp!Advance(c) /\ UNCHANGED <<conn, cut, opened, sent, wire, ran>>
        /\ shaken' = IF Head(caller[c].plan) = "hello" THEN shaken \cup {conn} ELSE shaken
    BY DEF Mcp!Receive, Mcp!Working, Mcp!Still, Mcp!Stage
  <1>2. /\ caller' \in [Caller -> McpCaller]
        /\ \A d \in Caller : d # c => caller'[d] = caller[d]
        /\ caller'[c].plan = Tail(caller[c].plan) /\ caller'[c].waits = 0
        /\ caller'[c].retried = caller[c].retried /\ caller'[c].answer = caller[c].waits
        /\ caller'[c].pc = IF Tail(caller[c].plan) = <<>> THEN "ok" ELSE "working"
        /\ turn' = IF Tail(caller[c].plan) = <<>> THEN Mcp!Nobody ELSE c
        /\ Head(caller[c].plan) # "call" /\ CallAhead(Tail(caller[c].plan)) => CallToCome(c)
        /\ Head(caller[c].plan) = "call" => Tail(caller[c].plan) = <<>>
    BY <1>1, McpAdvance
  <1>3. PICK v \in McpCaller : v = caller'[c]  BY <1>2
  <1>4. v.pc \in {"ok", "working"} /\ (v.pc = "working" <=> v.plan # <<>>)  BY <1>2, <1>3
  <1>5. v.pc \in {"queued", "working"} /\ CallAhead(v.plan) => CallToCome(c)
    BY <1>2, <1>3, <1>4
  <1>6. cut' \/ conn' = 0 \/ conn' \in shaken'
    BY <1>1 DEF McpInv, SessionsAreShaken, Mcp!Stage
  <1> QED  BY <1>1, <1>2, <1>3, <1>4, <1>5, <1>6, McpWires, CallerMoves

LEMMA GiveUpStep ==
    ASSUME Mcp!Nobody \notin Caller, McpInv, NEW c \in Caller, Mcp!Refused(c) \/ Mcp!Cancel(c)
    PROVE  McpInv'
  <1>1. CASE Mcp!Refused(c)
    BY <1>1, McpWires, McpLeaves DEF Mcp!Refused, Mcp!Leave, Mcp!Working, Mcp!Still, Mcp!Stage
  <1>2. CASE Mcp!Cancel(c)
    <2>1. cut' \in BOOLEAN /\ (cut => cut') /\ (turn = c /\ Mcp!Stage(c) = "hello" => cut')
      BY <1>2, McpWires DEF Mcp!Cancel
    <2> QED  BY <1>2, <2>1, McpLeaves DEF Mcp!Cancel
  <1> QED  BY <1>1, <1>2

LEMMA BrokenStep ==
    ASSUME Mcp!Nobody \notin Caller, McpInv, NEW c \in Caller, Mcp!Broken(c)
    PROVE  McpInv'
  <1>1. /\ caller[c].pc = "working" /\ turn = c /\ Head(caller[c].plan) = "call"
        /\ ~caller[c].retried
        /\ caller' = [caller EXCEPT ![c].plan = Mcp!Retry, ![c].waits = 0, ![c].retried = TRUE]
        /\ UNCHANGED <<cut, conn, opened, shaken, sent, wire, turn, ran>>
    BY DEF Mcp!Broken, Mcp!Working, Mcp!At, Mcp!Still, Mcp!Stage
  <1>2. caller \in [Caller -> McpCaller] /\ Mcp!Retry \in McpPlan /\ Mcp!Retry # <<>>
    BY McpWires, PlansAreGood
  <1>3. PICK g1 : g1 = [caller EXCEPT ![c].plan = Mcp!Retry]  OBVIOUS
  <1>4. /\ g1 \in [Caller -> McpCaller] /\ \A d \in Caller : d # c => g1[d] = caller[d]
        /\ g1[c].plan = Mcp!Retry /\ g1[c].pc = "working" /\ g1[c].answer = caller[c].answer
    BY <1>1, <1>2, <1>3 DEF McpCaller
  <1>5. PICK g2 : g2 = [g1 EXCEPT ![c].waits = 0]  OBVIOUS
  <1>6. /\ g2 \in [Caller -> McpCaller] /\ \A d \in Caller : d # c => g2[d] = caller[d]
        /\ g2[c].plan = Mcp!Retry /\ g2[c].pc = "working" /\ g2[c].answer = caller[c].answer
        /\ g2[c].waits = 0
    BY <1>4, <1>5 DEF McpCaller
  <1>7. caller' = [g2 EXCEPT ![c].retried = TRUE]  BY <1>1, <1>3, <1>5
  <1>8. /\ caller' \in [Caller -> McpCaller] /\ \A d \in Caller : d # c => caller'[d] = caller[d]
        /\ caller'[c].plan = Mcp!Retry /\ caller'[c].pc = "working"
        /\ caller'[c].answer = caller[c].answer
        /\ caller'[c].waits = 0 /\ caller'[c].retried
    BY <1>6, <1>7 DEF McpCaller
  <1>9. PICK v \in McpCaller : v = caller'[c]  BY <1>8
  <1>10. cut' \/ conn' = 0 \/ conn' \in shaken'
    BY <1>1 DEF McpInv, SessionsAreShaken, Mcp!Stage
  <1>11. /\ v.pc = "working" /\ v.waits = 0 /\ v.plan # <<>> /\ v.retried
         /\ v.answer = caller[c].answer
    BY <1>2, <1>8, <1>9
  <1>12. turn' = IF v.pc = "working" THEN c ELSE IF turn = c THEN Mcp!Nobody ELSE turn
    BY <1>1, <1>11
  <1>13. /\ v.pc = "working" => turn \in {c, Mcp!Nobody}
         /\ v.pc # "idle" /\ (v.pc \in {"queued", "working"} => v.plan # <<>>)
    BY <1>1, <1>11
  <1>14. wire' \in Seq(SUBSET Nat) /\ Len(wire') = opened' /\ opened' \in Nat
         /\ opened <= opened' /\ conn' \in 0..opened' /\ cut' \in BOOLEAN
         /\ \A k \in 1..opened' : wire'[k] = IF k <= opened THEN wire[k] ELSE {}
    BY <1>1, McpWires
  <1> QED
    BY ZenonT(40), <1>1, <1>8, <1>9, <1>10, <1>11, <1>12, <1>13, <1>14, CallerMoves

LEMMA SendStep ==
    ASSUME Mcp!Nobody \notin Caller, McpInv, NEW c \in Caller, Mcp!Send(c)
    PROVE  McpInv'
  <1>1. /\ caller[c].pc = "working" /\ turn = c /\ caller[c].waits = 0
        /\ Head(caller[c].plan) \in {"hello", "list", "call"}
        /\ UNCHANGED <<cut, conn, opened, shaken, wire, ran>>
    BY DEF Mcp!Send, Mcp!Working, Mcp!At, Mcp!Still, Mcp!Stage
  <1>2. CASE conn = 0 /\ Mcp!Leave(c, "failed") /\ UNCHANGED sent
    BY <1>1, <1>2, McpWires, McpLeaves DEF Mcp!Leave
  <1>3. CASE /\ conn # 0 /\ turn' = turn
             /\ sent' = Append(sent, [by |-> c, stage |-> Mcp!Stage(c), over |-> conn,
                                      shaken |-> conn \in shaken, cut |-> cut])
             /\ caller' = [caller EXCEPT ![c].waits = Len(sent) + 1]
    <2>1. /\ caller \in [Caller -> McpCaller] /\ sent \in Seq(McpRequest) /\ Len(sent) \in Nat
          /\ DOMAIN sent = 1..Len(sent) /\ opened \in Nat /\ conn \in 1..opened
          /\ \A k \in 1..opened : wire[k] \subseteq DOMAIN sent
          /\ \A n \in DOMAIN sent : sent[n].over \in 1..opened
      BY <1>3 DEF McpInv, McpTypes
    <2>2. PICK n \in Nat : n = Len(sent) + 1  BY <2>1
    <2>3. PICK q : q = [by |-> c, stage |-> Mcp!Stage(c), over |-> conn,
                        shaken |-> conn \in shaken, cut |-> cut]
      OBVIOUS
    <2>4. /\ q \in McpRequest /\ q.by = c /\ q.stage = Head(caller[c].plan) /\ q.over = conn
          /\ q.shaken = (conn \in shaken) /\ q.cut = cut
      BY <1>1, <2>1, <2>3, McpWires DEF McpRequest, McpStage, Mcp!Stage
    <2>5. /\ sent' \in Seq(McpRequest) /\ DOMAIN sent' = 1..n /\ sent'[n] = q
          /\ \A k \in 1..Len(sent) : sent'[k] = sent[k]
      BY <1>3, <2>1, <2>2, <2>3, <2>4, AppendProperties
    <2>6. /\ caller' \in [Caller -> McpCaller] /\ \A d \in Caller : d # c => caller'[d] = caller[d]
          /\ caller'[c].waits = n /\ caller'[c].pc = "working"
          /\ caller'[c].plan = caller[c].plan /\ caller'[c].retried = caller[c].retried
          /\ caller'[c].answer = caller[c].answer
      BY <1>1, <1>3, <2>1, <2>2 DEF McpCaller
    <2>7. McpTypes'
      <3>1. \A k \in 1..n : sent'[k].over \in 1..opened  BY <2>1, <2>2, <2>4, <2>5
      <3>2. \A k \in 1..opened : wire[k] \subseteq 1..n  BY <2>1, <2>2
      <3> QED  BY <1>1, <1>3, <2>5, <2>6, <3>1, <3>2 DEF McpInv, McpTypes
    <2>8. TurnsAreTaken'
      <3>1. \A d \in Caller : caller'[d].pc = caller[d].pc /\ caller'[d].plan = caller[d].plan
        BY <1>1, <2>6
      <3> QED  BY <1>3, <3>1 DEF McpInv, TurnsAreTaken, Live, Mcp!At
    <2>9. WaitsAreOwn'
      <3> SUFFICES ASSUME NEW d \in Caller, caller'[d].waits # 0
                   PROVE  /\ caller'[d].pc = "working" /\ caller'[d].waits \in 1..n
                          /\ sent'[caller'[d].waits].by = d
                          /\ sent'[caller'[d].waits].stage = Head(caller'[d].plan)
                          /\ sent'[caller'[d].waits].over = conn
        BY <1>1, <2>5 DEF WaitsAreOwn, Mcp!At, Mcp!Stage
      <3>1. CASE d = c  BY <2>2, <2>4, <2>5, <2>6, <3>1
      <3>2. CASE d # c
        <4>1. caller[d].pc = "working"  BY <2>6, <3>2 DEF McpInv, WaitsAreOwn, Mcp!At
        <4> QED  BY <1>1, <3>2, <4>1 DEF McpInv, TurnsAreTaken, Mcp!At
      <3> QED  BY <3>1, <3>2
    <2>10. AnswersAreOwn'
      <3> SUFFICES ASSUME NEW d \in Caller, caller'[d].answer # 0
                   PROVE  /\ caller'[d].answer \in 1..n
                          /\ sent'[caller'[d].answer].by = d
                          /\ caller'[d].answer \in wire[sent'[caller'[d].answer].over]
        BY <1>1, <2>5 DEF AnswersAreOwn
      <3>1. caller'[d].answer = caller[d].answer  BY <2>6
      <3>2. /\ caller[d].answer \in 1..Len(sent) /\ sent[caller[d].answer].by = d
            /\ caller[d].answer \in wire[sent[caller[d].answer].over]
        BY <2>1, <3>1 DEF McpInv, AnswersAreOwn
      <3> QED  BY <2>1, <2>2, <2>5, <3>1, <3>2
    <2>11. RunsAreCounted'
      <3> SUFFICES ASSUME NEW d \in Caller
                   PROVE  /\ ran[d] = Cardinality(RunOf(d)')
                          /\ Cardinality(CallsOf(d)') <= Attempts(d)'
                          /\ CallToCome(d)' => Cardinality(CallsOf(d)') < Attempts(d)'
                          /\ caller'[d].pc = "idle" => CallsOf(d)' = {} /\ caller'[d].waits = 0
        BY <1>1 DEF RunsAreCounted, Mcp!At
      <3>1. /\ ran[d] = Cardinality(RunOf(d)) /\ Cardinality(CallsOf(d)) <= Attempts(d)
            /\ CallToCome(d) => Cardinality(CallsOf(d)) < Attempts(d)
            /\ caller[d].pc = "idle" => CallsOf(d) = {} /\ caller[d].waits = 0
        BY DEF McpInv, RunsAreCounted, Mcp!At
      <3>2. n \notin CallsOf(d) /\ CallsOf(d) \subseteq 1..Len(sent)
        BY <2>1, <2>2 DEF CallsOf
      <3>3. CallsOf(d)' = IF d = c /\ Head(caller[c].plan) = "call"
                          THEN CallsOf(d) \cup {n} ELSE CallsOf(d)
        <4>1. CallsOf(d)' = {k \in 1..n : sent'[k].by = d /\ sent'[k].stage = "call"}
          BY <2>5 DEF CallsOf
        <4>2. CallsOf(d) = {k \in 1..Len(sent) : sent[k].by = d /\ sent[k].stage = "call"}
          BY <2>1 DEF CallsOf
        <4>3. 1..n = 1..Len(sent) \cup {n}  BY <2>1, <2>2
        <4> QED  BY <2>4, <2>5, <4>1, <4>2, <4>3
      <3>4. RunOf(d)' = RunOf(d)
        <4>1. n \notin wire[conn]  BY <2>1, <2>2
        <4>2. \A k \in CallsOf(d) : sent'[k] = sent[k]  BY <2>5, <3>2
        <4>3. RunOf(d)' = {k \in CallsOf(d)' : k \in wire[sent'[k].over]}
          BY <1>1 DEF RunOf
        <4> QED  BY <2>4, <2>5, <3>2, <3>3, <4>1, <4>2, <4>3 DEF RunOf
      <3>5. Attempts(d)' = Attempts(d) /\ Attempts(d) \in {1, 2}  BY <2>6 DEF Attempts
      <3>6. IsFiniteSet(CallsOf(d)) /\ Cardinality(CallsOf(d)) \in Nat
        BY CallsAreFinite DEF McpInv
      <3>7. CASE d = c /\ Head(caller[c].plan) = "call"
        <4>1. caller[c].plan \in McpPlan /\ caller[c].plan # <<>>
          BY <1>1, <2>1 DEF McpCaller, McpInv, TurnsAreTaken, Live
        <4>2. CallToCome(c)
          BY <1>1, <3>7, <4>1, PlanGoesOn DEF CallToCome, Live
        <4>3. Cardinality(CallsOf(d)') = Cardinality(CallsOf(d)) + 1
          BY <3>2, <3>3, <3>6, <3>7, FS_AddElement
        <4>4. ~CallToCome(c)'  BY <2>1, <2>2, <2>6, <3>7 DEF CallToCome, Mcp!Stage
        <4> QED  BY <2>6, <3>1, <3>4, <3>5, <3>6, <3>7, <4>2, <4>3, <4>4
      <3>8. CASE ~(d = c /\ Head(caller[c].plan) = "call")
        <4>1. CallToCome(d)' => CallToCome(d)
          BY <1>1, <2>6, <3>8 DEF CallToCome, Live, Mcp!Stage
        <4>2. caller'[d].pc = "idle" => caller'[d] = caller[d]  BY <2>6
        <4> QED  BY <3>1, <3>3, <3>4, <3>5, <3>8, <4>1, <4>2
      <3> QED  BY <3>7, <3>8
    <2>12. SessionsAreShaken'
      <3>1. \/ cut \/ conn = 0 \/ conn \in shaken \/ Head(caller[c].plan) = "hello"
        BY <1>1 DEF McpInv, SessionsAreShaken, Mcp!Stage
      <3>2. \/ cut' \/ conn' = 0 \/ conn' \in shaken'
            \/ turn' \in Caller /\ Head(caller'[turn'].plan) = "hello"
        BY <1>1, <1>3, <2>6, <3>1
      <3>3. \A k \in DOMAIN sent : sent[k].stage # "hello" /\ ~sent[k].cut => sent[k].shaken
        BY DEF McpInv, SessionsAreShaken, Mcp!HandshakeFirst
      <3>4. q.stage # "hello" /\ ~q.cut => q.shaken  BY <1>3, <2>4, <3>1
      <3>5. \A k \in 1..n : sent'[k].stage # "hello" /\ ~sent'[k].cut => sent'[k].shaken
        BY <2>1, <2>2, <2>5, <3>3, <3>4
      <3> QED  BY <2>5, <3>2, <3>5 DEF SessionsAreShaken, Mcp!HandshakeFirst, Mcp!Stage
    <2> QED  BY <2>7, <2>8, <2>9, <2>10, <2>11, <2>12 DEF McpInv
  <1> QED  BY <1>2, <1>3 DEF Mcp!Send

LEMMA AnswerStep ==
    ASSUME McpInv, NEW n \in DOMAIN sent, Mcp!ServerAnswers(n)
    PROVE  McpInv'
  <1>1. PICK k : k = sent[n].over  OBVIOUS
  <1>2. /\ n \notin wire[k] /\ wire' = [wire EXCEPT ![k] = wire[k] \cup {n}]
        /\ ran' = IF sent[n].stage = "call" THEN [ran EXCEPT ![sent[n].by] = @ + 1] ELSE ran
        /\ UNCHANGED <<cut, conn, opened, shaken, sent, turn, caller>>
    BY <1>1 DEF Mcp!ServerAnswers, Mcp!Still
  <1>3. /\ opened \in Nat /\ wire \in Seq(SUBSET Nat) /\ Len(wire) = opened /\ k \in 1..opened
        /\ n \in Nat /\ sent[n].by \in Caller /\ ran \in [Caller -> Nat]
        /\ \A i \in DOMAIN sent : sent[i].over \in 1..opened
        /\ \A i \in 1..opened : wire[i] \subseteq DOMAIN sent
    <2>1. sent \in Seq(McpRequest) /\ n \in 1..Len(sent)  BY DEF McpInv, McpTypes
    <2>2. n \in Nat /\ sent[n] \in McpRequest  BY <2>1
    <2>3. sent[n].by \in Caller  BY <2>2 DEF McpRequest
    <2> QED  BY <1>1, <2>2, <2>3 DEF McpInv, McpTypes
  <1>4. /\ wire' \in Seq(SUBSET Nat) /\ Len(wire') = opened
        /\ \A i \in 1..opened : wire'[i] = IF i = k THEN wire[i] \cup {n} ELSE wire[i]
    <2>1. wire \in [1..opened -> SUBSET Nat]  BY <1>3
    <2>2. wire' \in [1..opened -> SUBSET Nat]  BY <1>2, <1>3, <2>1
    <2>3. \A i \in 1..opened : wire'[i] = IF i = k THEN wire[i] \cup {n} ELSE wire[i]
      BY <1>2, <2>1
    <2>4. wire' \in Seq(SUBSET Nat) /\ DOMAIN wire' = 1..opened  BY SMTT(30), <1>3, <2>2
    <2> QED  BY <1>3, <2>3, <2>4
  <1>5. McpTypes'
    <2>1. \A i \in 1..opened : wire'[i] \subseteq DOMAIN sent  BY <1>3, <1>4
    <2>2. ran' \in [Caller -> Nat]  BY <1>2, <1>3
    <2> QED  BY <1>2, <1>4, <2>1, <2>2 DEF McpInv, McpTypes
  <1>6. TurnsAreTaken' /\ WaitsAreOwn'
    BY <1>2 DEF McpInv, TurnsAreTaken, WaitsAreOwn, Live, Mcp!At, Mcp!Stage
  <1>7. AnswersAreOwn'
    <2> SUFFICES ASSUME NEW c \in Caller, caller[c].answer # 0
                 PROVE  /\ caller[c].answer \in DOMAIN sent
                        /\ sent[caller[c].answer].by = c
                        /\ caller[c].answer \in wire'[sent[caller[c].answer].over]
      BY <1>2 DEF AnswersAreOwn
    <2> QED  BY <1>3, <1>4 DEF McpInv, AnswersAreOwn
  <1>8. RunsAreCounted'
    <2> SUFFICES ASSUME NEW c \in Caller
                 PROVE  ran'[c] = Cardinality(RunOf(c)')
      BY <1>2 DEF McpInv, RunsAreCounted, CallsOf, Attempts, CallToCome, Live, Mcp!At, Mcp!Stage
    <2>1. ran[c] = Cardinality(RunOf(c)) /\ IsFiniteSet(RunOf(c)) /\ Cardinality(RunOf(c)) \in Nat
      BY CallsAreFinite DEF McpInv, RunsAreCounted
    <2>2. CallsOf(c)' = CallsOf(c) /\ n \notin RunOf(c) /\ CallsOf(c) \subseteq DOMAIN sent
      BY <1>1, <1>2 DEF CallsOf, RunOf
    <2>3. RunOf(c)' = {i \in CallsOf(c) : i \in wire'[sent[i].over]}
      BY <1>2, <2>2 DEF RunOf
    <2>4. CASE n \in CallsOf(c)
      <3>1. RunOf(c)' = RunOf(c) \cup {n}
        BY <1>1, <1>3, <1>4, <2>2, <2>3, <2>4 DEF RunOf
      <3>2. Cardinality(RunOf(c)') = Cardinality(RunOf(c)) + 1
        BY <2>1, <2>2, <3>1, FS_AddElement
      <3>3. sent[n].by = c /\ sent[n].stage = "call"  BY <2>4 DEF CallsOf
      <3> QED  BY <1>2, <1>3, <2>1, <3>2, <3>3
    <2>5. CASE n \notin CallsOf(c)
      <3>1. RunOf(c)' = RunOf(c)
        BY <1>1, <1>3, <1>4, <2>2, <2>3, <2>5 DEF RunOf
      <3>2. ran'[c] = ran[c]  BY <1>2, <1>3, <2>5 DEF CallsOf
      <3> QED  BY <2>1, <3>1, <3>2
    <2> QED  BY <2>4, <2>5
  <1>9. SessionsAreShaken'
    BY <1>2 DEF McpInv, SessionsAreShaken, Mcp!HandshakeFirst, Mcp!Stage
  <1> QED  BY <1>5, <1>6, <1>7, <1>8, <1>9 DEF McpInv

LEMMA McpStutters ==
    ASSUME McpInv, UNCHANGED Mcp!vars \/ Mcp!Trust
    PROVE  McpInv'
  <1>1. UNCHANGED <<conn, opened, shaken, alive, sent, wire, turn, caller, cut, ran>>
    BY DEF Mcp!vars, Mcp!Trust
  <1>2. McpTypes'  BY <1>1 DEF McpInv, McpTypes
  <1>3. TurnsAreTaken' /\ WaitsAreOwn' /\ AnswersAreOwn'
    BY <1>1 DEF McpInv, TurnsAreTaken, WaitsAreOwn, AnswersAreOwn, Live, Mcp!At, Mcp!Stage
  <1>4. RunsAreCounted'
    <2>1. \A c \in Caller : /\ CallsOf(c)' = CallsOf(c) /\ RunOf(c)' = RunOf(c)
                            /\ Attempts(c)' = Attempts(c) /\ (CallToCome(c)' <=> CallToCome(c))
      BY <1>1 DEF CallsOf, RunOf, Attempts, CallToCome, Live, Mcp!Stage
    <2> QED  BY <1>1, <2>1 DEF McpInv, RunsAreCounted, Mcp!At
  <1>5. SessionsAreShaken'
    BY <1>1 DEF McpInv, SessionsAreShaken, Mcp!HandshakeFirst, Mcp!Stage
  <1> QED  BY <1>2, <1>3, <1>4, <1>5 DEF McpInv

(* An operation over MCP that succeeds was given the answer to its own     *)
(* last request, its tool ran once, or at most twice when it was sent      *)
(* again, and nothing but a handshake goes over a session before its       *)
(* handshake, for any number of callers and requests                       *)
(* (mcp/client.py:_rpc_locked, _connect_locked).                           *)
THEOREM McpExchangesAreSound ==
    ASSUME Mcp!Nobody \notin Caller PROVE Mcp!Spec => []ExchangesAreSound
  <1>1. Mcp!Init => McpInv
    <2> SUFFICES ASSUME Mcp!Init  PROVE McpInv  OBVIOUS
    <2>1. /\ conn = 0 /\ opened = 0 /\ sent = <<>> /\ wire = <<>> /\ turn = Mcp!Nobody
          /\ cut = FALSE /\ ran = [c \in Caller |-> 0]
          /\ caller = [c \in Caller |-> [pc |-> "idle", plan |-> <<>>, waits |-> 0,
                                         retried |-> FALSE, answer |-> 0]]
      BY DEF Mcp!Init
    <2>2. <<>> \in McpPlan  BY DEF McpPlan
    <2>3. caller \in [Caller -> McpCaller]  BY <2>1, <2>2 DEF McpCaller
    <2>4. \A c \in Caller : caller[c] = [pc |-> "idle", plan |-> <<>>, waits |-> 0,
                                         retried |-> FALSE, answer |-> 0]
      BY <2>1
    <2>5. McpTypes
      <3>1. /\ sent \in Seq(McpRequest) /\ DOMAIN sent = {}
            /\ wire \in Seq(SUBSET Nat) /\ Len(wire) = 0
        BY <2>1
      <3>2. ran \in [Caller -> Nat] /\ 1..opened = {}  BY <2>1
      <3>3. 0 \in Nat /\ 0 \in 0..0  OBVIOUS
      <3>4. /\ \A n \in DOMAIN sent : sent[n].over \in 1..opened
            /\ \A k \in 1..opened : wire[k] \subseteq DOMAIN sent
        BY <3>1, <3>2
      <3> QED  BY <2>1, <2>3, <3>1, <3>2, <3>3, <3>4 DEF McpTypes
    <2>6. \A c \in Caller : CallsOf(c) = {} /\ RunOf(c) = {}  BY <2>1 DEF CallsOf, RunOf
    <2>7. RunsAreCounted
      <3> SUFFICES ASSUME NEW c \in Caller
                   PROVE  /\ ran[c] = Cardinality(RunOf(c))
                          /\ Cardinality(CallsOf(c)) <= Attempts(c)
                          /\ CallToCome(c) => Cardinality(CallsOf(c)) < Attempts(c)
                          /\ Mcp!At(c, "idle") => CallsOf(c) = {} /\ caller[c].waits = 0
        BY DEF RunsAreCounted
      <3>1. Cardinality(RunOf(c)) = 0 /\ Cardinality(CallsOf(c)) = 0
        BY <2>6, FS_EmptySet
      <3>2. Attempts(c) \in {1, 2}  BY DEF Attempts
      <3>3. ran[c] = 0 /\ caller[c].waits = 0  BY <2>1, <2>4
      <3> QED  BY <2>6, <3>1, <3>2, <3>3
    <2>8. TurnsAreTaken /\ WaitsAreOwn /\ AnswersAreOwn /\ SessionsAreShaken
      BY <2>1, <2>4 DEF TurnsAreTaken, WaitsAreOwn, AnswersAreOwn, SessionsAreShaken, Live,
                        Mcp!HandshakeFirst, Mcp!At
    <2> QED  BY <2>5, <2>7, <2>8 DEF McpInv
  <1>2. McpInv /\ [Mcp!Next]_(Mcp!vars) => McpInv'
    BY EnterStep, OpenStep, CloseStep, SendStep, AnswerStep, ReceiveStep, GiveUpStep,
       BrokenStep, McpStutters DEF Mcp!Next, Mcp!Step
  <1>3. McpInv => Mcp!ExchangesAreSound
    <2> SUFFICES ASSUME McpInv, NEW c \in Caller, Mcp!At(c, "ok"), caller[c].answer # 0
                 PROVE  /\ sent[caller[c].answer].by = c
                        /\ sent[caller[c].answer].stage = "call" =>
                              ran[c] \in 1..(IF caller[c].retried THEN 2 ELSE 1)
      BY DEF Mcp!ExchangesAreSound, Mcp!AnsweredTruly, McpInv, SessionsAreShaken
    <2>1. /\ caller[c].answer \in DOMAIN sent /\ sent[caller[c].answer].by = c
          /\ caller[c].answer \in wire[sent[caller[c].answer].over]
      BY DEF McpInv, AnswersAreOwn
    <2>2. ASSUME sent[caller[c].answer].stage = "call"
          PROVE  ran[c] \in 1..(IF caller[c].retried THEN 2 ELSE 1)
      <3>1. caller[c].answer \in RunOf(c)  BY <2>1, <2>2 DEF RunOf, CallsOf
      <3>2. /\ ran[c] = Cardinality(RunOf(c)) /\ Cardinality(CallsOf(c)) <= Attempts(c)
            /\ Cardinality(RunOf(c)) \in Nat /\ Cardinality(CallsOf(c)) \in Nat
            /\ Cardinality(RunOf(c)) <= Cardinality(CallsOf(c)) /\ IsFiniteSet(RunOf(c))
        BY CallsAreFinite DEF McpInv, RunsAreCounted
      <3>3. Cardinality(RunOf(c)) # 0  BY <3>1, <3>2, FS_EmptySet
      <3> QED  BY <3>2, <3>3 DEF Attempts
    <2> QED  BY <2>1, <2>2
  <1> QED  BY <1>1, <1>2, <1>3, PTL DEF Mcp!Spec, ExchangesAreSound

----------------------------------------------------------------------------
(* What the provider round knows of an answer on its way to the tools.     *)
EventSet == [kind : {"content", "usage", "completed", "failed", "tool_call"},
             index : 0..MaxCalls, args : Int]
IsCall(e) == e.kind = "tool_call"
CallsIn(s) == {s[k].index : k \in {k \in DOMAIN s : IsCall(s[k])}}
Ended(s, v) == \E k \in DOMAIN s : s[k].kind = v
Known == {heard[k].index : k \in DOMAIN heard}
Kept(e) == /\ e.index \in Stream!Index
           /\ e.args = size[e.index] \/ (kind = "chat" /\ said = "cut" /\ e.args = 0)

StreamTypes ==
    /\ kind \in Stream!Kinds \cup {"other"} /\ size \in [Stream!Index -> Nat]
    /\ streamed \in [Stream!Index -> Int] /\ calls \in [Stream!Index -> Int]
    /\ \A i \in Stream!Index : streamed[i] \in {Stream!None} \cup 0..size[i]
    /\ over \subseteq Stream!Begun /\ emitted \subseteq Stream!Begun
    /\ said \in {"nothing", "text", "finished", "counted", "completed", "cut", "error"}
    /\ gen \in {"opening", "waiting", "reading", "spent"}
    /\ settled \in BOOLEAN

(* The adapter's table follows the answer, by the rules of its protocol.   *)
TableFollows ==
    /\ \E n \in 0..MaxCalls : Stream!Begun = 1..n
    /\ \A i \in Stream!Index \ over : calls[i] = streamed[i]
    /\ \A i \in over : streamed[i] = size[i]
    /\ kind = "chat" => over = {} /\ emitted \in {{}, Stream!Begun}
    /\ kind = "chat" /\ emitted # {} => ~Stream!Unfinished
    /\ kind # "chat" => emitted = over
    /\ said \in {"finished", "counted"} => kind = "chat" /\ Stream!AllSent
    /\ said = "completed" => over = Stream!Begun /\ kind # "chat"
    /\ gen = "reading" => /\ said \notin {"cut", "error"} /\ kind \in Stream!Kinds
                          /\ said = "completed" => kind = "responses"
    /\ gen \in {"opening", "waiting"} => said = "nothing"
    /\ gen = "waiting" => kind \in Stream!Kinds

(* Every call that was heard is whole and was heard once.                  *)
HeardOnce ==
    /\ heard \in Seq(EventSet)
    /\ \A k \in DOMAIN heard : IsCall(heard[k]) /\ Kept(heard[k])
    /\ \A k, l \in DOMAIN heard : heard[k].index = heard[l].index => k = l

(* What is on its way is whole, new and in front of a verdict.             *)
OnItsWay ==
    /\ ready \in Seq(EventSet)
    /\ \A k \in DOMAIN ready : IsCall(ready[k]) =>
          /\ Kept(ready[k]) /\ ready[k].index \notin Known /\ ~settled
          /\ \A l \in DOMAIN ready :
                IsCall(ready[l]) /\ ready[l].index = ready[k].index => l = k
    /\ \A k \in DOMAIN ready : ready[k].kind \in {"completed", "failed"} => k = Len(ready)

(* Nothing that was emitted is missing; when the verdict is there, nothing *)
(* of the answer is.                                                       *)
Gathered ==
    round = "running" =>
        LET verdict == settled \/ Ended(ready, "completed")
        IN  /\ verdict => gen = "spent" \/ said = "completed"
            /\ ~verdict /\ ~Ended(ready, "failed") => Known \cup CallsIn(ready) = emitted
            /\ verdict /\ said \notin {"cut", "error"} => Known \cup CallsIn(ready) = Stream!Begun
            /\ said = "error" => Ended(ready, "failed")

StreamInv == StreamTypes /\ TableFollows /\ HeardOnce /\ OnItsWay /\ Gathered /\ Stream!SuccessIsWhole

LEMMA StreamInvInit == ASSUME MaxCalls \in Nat  PROVE Stream!Init => StreamInv
  <1> SUFFICES ASSUME Stream!Init  PROVE StreamInv  OBVIOUS
  <1>1. /\ Stream!Begun = {} /\ heard = <<>> /\ ready = <<>> /\ DOMAIN heard = {} /\ DOMAIN ready = {}
        /\ over = {} /\ emitted = {} /\ said = "nothing" /\ gen = "opening" /\ settled = FALSE
    BY DEF Stream!Init, Stream!Begun
  <1>2. Known = {} /\ CallsIn(ready) = {} /\ ~Ended(ready, "completed") /\ ~Ended(ready, "failed")
    BY <1>1 DEF Known, CallsIn, Ended
  <1>3. StreamTypes
    <2>1. size \in [Stream!Index -> Nat]  BY DEF Stream!Init
    <2>2. streamed \in [Stream!Index -> Int] /\ calls \in [Stream!Index -> Int]
      BY DEF Stream!Init, Stream!None
    <2>3. \A i \in Stream!Index : streamed[i] = Stream!None  BY DEF Stream!Init
    <2> QED  BY <1>1, <2>1, <2>2, <2>3 DEF Stream!Init, StreamTypes
  <1>4. TableFollows
    <2>1. Stream!Begun = 1..0 /\ 0 \in 0..MaxCalls  BY <1>1
    <2> QED  BY <1>1, <2>1 DEF Stream!Init, TableFollows, Stream!Unfinished
  <1>5. heard \in Seq(EventSet) /\ ready \in Seq(EventSet)  BY <1>1
  <1>6. HeardOnce /\ OnItsWay  BY <1>1, <1>5 DEF HeardOnce, OnItsWay
  <1>7. Gathered  BY <1>1, <1>2 DEF Gathered
  <1>8. Stream!SuccessIsWhole  BY DEF Stream!Init, Stream!SuccessIsWhole
  <1> QED  BY <1>3, <1>4, <1>6, <1>7, <1>8 DEF StreamInv

(* The generator goes on, and the events it yields keep what is known.     *)
LEMMA YieldKeeps ==
    ASSUME StreamInv, Stream!Pulled, StreamTypes', TableFollows',
           UNCHANGED <<heard, settled, round, size, kind>>,
           NEW s \in Seq(EventSet), ready' = s,
           said' = said \/ said # "cut",
           \A k \in DOMAIN s : IsCall(s[k]) =>
               /\ Kept(s[k])' /\ s[k].index \notin emitted /\ ~settled
               /\ \A l \in DOMAIN s : IsCall(s[l]) /\ s[l].index = s[k].index => l = k,
           \A k \in DOMAIN s : s[k].kind \in {"completed", "failed"} => k = Len(s),
           settled \/ Ended(s, "completed") => gen' = "spent" \/ said' = "completed",
           ~settled /\ ~Ended(s, "completed") /\ ~Ended(s, "failed")
               => emitted' = emitted \cup CallsIn(s),
           settled => Stream!Begun' = Stream!Begun,
           ~settled /\ Ended(s, "completed") /\ said' \notin {"cut", "error"}
               => emitted \cup CallsIn(s) = Stream!Begun',
           said' = "error" => Ended(s, "failed")
    PROVE  StreamInv'
  <1>1. round = "running" /\ ready = <<>> /\ DOMAIN ready = {}  BY DEF Stream!Pulled
  <1>2. CallsIn(ready) = {} /\ ~Ended(ready, "completed") /\ ~Ended(ready, "failed")
    BY <1>1 DEF CallsIn, Ended
  <1>3. /\ settled => gen = "spent" \/ said = "completed"
        /\ ~settled => Known = emitted
        /\ settled /\ said \notin {"cut", "error"} => Known = Stream!Begun
        /\ said # "error"
    BY <1>1, <1>2 DEF StreamInv, Gathered
  <1>4. Known' = Known  BY DEF Known
  <1>5. HeardOnce'
    <2>1. ASSUME NEW k \in DOMAIN heard  PROVE IsCall(heard[k]) /\ Kept(heard[k])'
      BY DEF StreamInv, HeardOnce, Kept, IsCall, Stream!Index
    <2> QED  BY <2>1 DEF StreamInv, HeardOnce, IsCall
  <1>6. OnItsWay'
    <2>1. ASSUME NEW k \in DOMAIN s, IsCall(s[k])  PROVE s[k].index \notin Known
      BY <1>3, <2>1
    <2> QED  BY <1>4, <2>1 DEF OnItsWay, Kept, IsCall
  <1>7. Gathered'
    <2>1. CASE settled
      <3>1. \A k \in DOMAIN s : ~IsCall(s[k])  BY <2>1
      <3>2. CallsIn(s) = {}  BY <3>1 DEF CallsIn
      <3>3. said' \notin {"cut", "error"} => said \notin {"cut", "error"}  BY <1>3
      <3> QED  BY <1>3, <1>4, <2>1, <3>2, <3>3 DEF Gathered, Ended, CallsIn, IsCall
    <2>2. CASE ~settled
      BY <1>3, <1>4, <2>2 DEF Gathered, Ended, CallsIn, IsCall
    <2> QED  BY <2>1, <2>2 DEF StreamInv, StreamTypes
  <1>8. Stream!SuccessIsWhole'  BY <1>1 DEF Stream!SuccessIsWhole
  <1> QED  BY <1>5, <1>6, <1>7, <1>8 DEF StreamInv

(* Where the generator can go while the answer stays as it is.             *)
GoesWell ==
    /\ gen' \in {"opening", "waiting", "reading", "spent"}
    /\ gen' \in {"waiting", "reading"} => kind \in Stream!Kinds
    /\ gen' \in {"opening", "waiting"} => said = "nothing"
    /\ gen' = "reading" => gen = "reading" \/ said = "nothing"

LEMMA AnswerStays ==
    ASSUME StreamInv, UNCHANGED <<Stream!server, calls, emitted, settled>>, GoesWell
    PROVE  StreamTypes' /\ TableFollows' /\ Stream!Begun' = Stream!Begun
  <1>1. Stream!Begun' = Stream!Begun /\ (Stream!Unfinished <=> Stream!Unfinished') /\ (Stream!AllSent <=> Stream!AllSent')
    BY DEF Stream!server, Stream!Begun, Stream!Unfinished, Stream!AllSent
  <1>2. StreamTypes'  BY <1>1 DEF StreamInv, StreamTypes, Stream!server, GoesWell
  <1>3. TableFollows'  BY <1>1 DEF StreamInv, TableFollows, Stream!server, GoesWell
  <1> QED  BY <1>1, <1>2, <1>3

(* Events without a call, and nothing emitted.                             *)
LEMMA PlainKeeps ==
    ASSUME StreamInv, Stream!Pulled, UNCHANGED <<Stream!server, calls, emitted, heard, settled, round>>,
           GoesWell, NEW s \in Seq(EventSet), ready' = s,
           \A k \in DOMAIN s : ~IsCall(s[k]),
           \A k \in DOMAIN s : s[k].kind # "completed",
           \A k \in DOMAIN s : s[k].kind = "failed" => k = Len(s),
           settled => gen' = "spent" \/ said = "completed"
    PROVE  StreamInv'
  <1>1. StreamTypes' /\ TableFollows' /\ Stream!Begun' = Stream!Begun  BY AnswerStays
  <1>2. CallsIn(s) = {} /\ ~Ended(s, "completed")  BY DEF CallsIn, Ended
  <1>3. said # "error"
    <2>1. ready = <<>> /\ DOMAIN ready = {} /\ round = "running"  BY DEF Stream!Pulled
    <2> QED  BY <2>1 DEF StreamInv, Gathered, Ended
  <1> QED  BY <1>1, <1>2, <1>3, YieldKeeps DEF Stream!server

LEMMA EventsTyped ==
    ASSUME MaxCalls \in Nat
    PROVE  /\ {Stream!Text, Stream!Usage, Stream!Completed, Stream!Failed} \subseteq EventSet
           /\ Stream!Text.kind = "content" /\ Stream!Usage.kind = "usage"
           /\ Stream!Completed.kind = "completed" /\ Stream!Failed.kind = "failed"
  BY DEF Stream!Text, Stream!Usage, Stream!Completed, Stream!Failed, Stream!Event, EventSet

LEMMA FailureKeeps ==
    ASSUME MaxCalls \in Nat, StreamInv, Stream!Pulled,
           UNCHANGED <<Stream!server, calls, emitted, heard, settled, round>>,
           Stream!Yield(<<Stream!Failed>>, "spent")
    PROVE  StreamInv'
  <1>1. PICK f \in EventSet : f = Stream!Failed /\ f.kind = "failed"  BY EventsTyped
  <1>2. PICK s : s = <<f>> /\ ready' = s /\ gen' = "spent"
    BY <1>1 DEF Stream!Yield
  <1>3. s \in Seq(EventSet) /\ Len(s) = 1 /\ DOMAIN s = {1} /\ s[1] = f  BY <1>1, <1>2
  <1>4. GoesWell  BY <1>2 DEF GoesWell
  <1> QED  BY <1>1, <1>2, <1>3, <1>4, PlainKeeps DEF IsCall

LEMMA SilenceKeeps ==
    ASSUME StreamInv, Stream!Pulled, GoesWell, UNCHANGED <<Stream!server, calls, emitted, heard, settled, round>>,
           ready' = <<>>, settled => gen' = "spent" \/ said = "completed"
    PROVE  StreamInv'
  <1>1. <<>> \in Seq(EventSet) /\ DOMAIN <<>> = {}  OBVIOUS
  <1> QED  BY <1>1, PlainKeeps

LEMMA RequestOpenStep ==
    ASSUME MaxCalls \in Nat, StreamInv, Stream!Open
    PROVE  StreamInv'
  <1>1. Stream!Pulled /\ gen \in {"opening", "waiting"} => said = "nothing" /\ ~settled
    BY DEF Stream!Pulled, StreamInv, TableFollows, Gathered
  <1>0. (Stream!Retry \/ Stream!Backoff \/ Stream!Opened) => said = "nothing" /\ ~settled
    BY <1>1 DEF Stream!Retry, Stream!Backoff, Stream!Opened
  <1>2. CASE Stream!Unsupported  BY <1>2, FailureKeeps DEF Stream!Unsupported, Stream!engine
  <1>3. CASE Stream!Refused  BY <1>3, FailureKeeps DEF Stream!Refused, Stream!engine
  <1>4. CASE Stream!Retry
    <2>1. CASE attempt < MaxRetries
      <3>1. GoesWell /\ ready' = <<>> /\ gen = "opening"
        BY <1>0, <1>4, <2>1 DEF Stream!Retry, Stream!Yield, GoesWell
      <3> QED  BY <1>0, <1>4, <3>1, SilenceKeeps DEF Stream!Retry, Stream!engine
    <2>2. CASE ~(attempt < MaxRetries)
      BY <1>4, <2>2, FailureKeeps DEF Stream!Retry, Stream!engine
    <2> QED  BY <2>1, <2>2
  <1>5. CASE Stream!Backoff
    <2>1. CASE cancelled  BY <1>5, <2>1, FailureKeeps DEF Stream!Backoff, Stream!engine
    <2>2. CASE ~cancelled
      <3>1. GoesWell /\ ready' = <<>> /\ gen = "waiting"
        BY <1>0, <1>5, <2>2 DEF Stream!Backoff, Stream!Yield, GoesWell
      <3> QED  BY <1>0, <1>5, <3>1, SilenceKeeps DEF Stream!Backoff, Stream!engine
    <2> QED  BY <2>1, <2>2
  <1>6. CASE Stream!Opened
    <2>1. GoesWell /\ ready' = <<>> /\ gen = "opening"
      BY <1>0, <1>6 DEF Stream!Opened, Stream!Yield, GoesWell
    <2> QED  BY <1>0, <1>6, <2>1, SilenceKeeps DEF Stream!Opened, Stream!engine
  <1>7. CASE Stream!Raise
    <2>1. GoesWell  BY <1>7 DEF Stream!Raise, GoesWell
    <2>2. StreamTypes' /\ TableFollows' /\ Stream!Begun' = Stream!Begun
      BY <1>7, <2>1, AnswerStays DEF Stream!Raise
    <2>3. HeardOnce'
      BY <1>7 DEF Stream!Raise, StreamInv, HeardOnce, Kept, Stream!server
    <2>4. OnItsWay'
      BY <1>7 DEF Stream!Raise, StreamInv, OnItsWay, Kept, Stream!server, Known
    <2>5. Gathered' /\ Stream!SuccessIsWhole'
      BY <1>7 DEF Stream!Raise, Gathered, Stream!SuccessIsWhole
    <2> QED  BY <2>2, <2>3, <2>4, <2>5 DEF StreamInv
  <1> QED  BY <1>2, <1>3, <1>4, <1>5, <1>6, <1>7 DEF Stream!Open

LEMMA WhileReading ==
    ASSUME StreamInv, Stream!Reads
    PROVE  /\ kind \in Stream!Kinds /\ said \notin {"cut", "error"}
           /\ said = "completed" => kind = "responses"
           /\ settled => said = "completed"
           /\ Stream!Unfinished => ~settled
           /\ ~settled => Known = emitted
           /\ settled => Known = Stream!Begun
  <1>1. round = "running" /\ ready = <<>> /\ DOMAIN ready = {} /\ gen = "reading"
    BY DEF Stream!Reads, Stream!Pulled
  <1>2. CallsIn(ready) = {} /\ ~Ended(ready, "completed") /\ ~Ended(ready, "failed")
    BY <1>1 DEF CallsIn, Ended
  <1>3. kind \in Stream!Kinds /\ said \notin {"cut", "error"} /\ (said = "completed" => kind = "responses")
    BY <1>1 DEF StreamInv, TableFollows
  <1>4. /\ settled => said = "completed"
        /\ ~settled => Known = emitted
        /\ settled => Known = Stream!Begun
    BY <1>1, <1>2, <1>3 DEF StreamInv, Gathered
  <1> QED  BY <1>3, <1>4 DEF Stream!Unfinished

LEMMA InterruptedStep == ASSUME MaxCalls \in Nat, StreamInv, Stream!Interrupted  PROVE StreamInv'
  BY FailureKeeps DEF Stream!Interrupted, Stream!Reads, Stream!engine

LEMMA BreaksStep ==
    ASSUME MaxCalls \in Nat, StreamInv, Stream!Breaks
    PROVE  StreamInv'
  <1>1. PICK f \in EventSet : f = Stream!Failed /\ f.kind = "failed"  BY EventsTyped
  <1>2. PICK s : s = <<f>>  OBVIOUS
  <1>3. s \in Seq(EventSet) /\ Len(s) = 1 /\ DOMAIN s = {1} /\ s[1] = f  BY <1>1, <1>2
  <1>4. Stream!Pulled /\ Stream!Reads /\ ready' = s /\ gen' = "spent" /\ said' = "error"
    BY <1>1, <1>2 DEF Stream!Breaks, Stream!Yield, Stream!Reads
  <1>5. Stream!Begun' = Stream!Begun /\ (Stream!AllSent <=> Stream!AllSent')
    BY DEF Stream!Breaks, Stream!Begun, Stream!AllSent
  <1>6. StreamTypes' /\ TableFollows'
    <2>1. StreamTypes'  BY <1>4, <1>5 DEF Stream!Breaks, StreamInv, StreamTypes, Stream!engine
    <2>2. TableFollows'
      BY <1>4, <1>5 DEF Stream!Breaks, StreamInv, TableFollows, Stream!Unfinished
    <2> QED  BY <2>1, <2>2
  <1>7. \A k \in DOMAIN s : ~IsCall(s[k])  BY <1>1, <1>3 DEF IsCall
  <1>8. Ended(s, "failed") /\ ~Ended(s, "completed")  BY <1>1, <1>3 DEF Ended
  <1>9. said # "cut"  BY <1>4, WhileReading
  <1>10. UNCHANGED <<heard, settled, round, size, kind>>  BY DEF Stream!Breaks, Stream!engine
  <1> QED  BY <1>3, <1>4, <1>5, <1>6, <1>7, <1>8, <1>9, <1>10, YieldKeeps

LEMMA SaysStep ==
    ASSUME MaxCalls \in Nat, StreamInv, Stream!Says
    PROVE  StreamInv'
  <1>1. PICK f \in EventSet : f = Stream!Text /\ f.kind = "content"  BY EventsTyped
  <1>2. PICK s : s = <<f>>  OBVIOUS
  <1>3. s \in Seq(EventSet) /\ Len(s) = 1 /\ DOMAIN s = {1} /\ s[1] = f  BY <1>1, <1>2
  <1>4. /\ Stream!Pulled /\ Stream!Reads /\ ready' = s /\ gen' = "reading" /\ gen = "reading" /\ said = "nothing"
        /\ said' = "text"
    BY <1>1, <1>2 DEF Stream!Says, Stream!Yield, Stream!Reads, Stream!Speaking
  <1>5. Stream!Begun' = Stream!Begun /\ (Stream!AllSent <=> Stream!AllSent')
    BY DEF Stream!Says, Stream!Begun, Stream!AllSent
  <1>6. StreamTypes' /\ TableFollows'
    <2>1. StreamTypes'  BY <1>4, <1>5 DEF Stream!Says, StreamInv, StreamTypes, Stream!engine
    <2>2. TableFollows'
      BY <1>4, <1>5 DEF Stream!Says, StreamInv, TableFollows, Stream!Unfinished
    <2> QED  BY <2>1, <2>2
  <1>7. \A k \in DOMAIN s : ~IsCall(s[k])  BY <1>1, <1>3 DEF IsCall
  <1>8. ~Ended(s, "failed") /\ ~Ended(s, "completed") /\ CallsIn(s) = {}
    BY <1>1, <1>3, <1>7 DEF Ended, CallsIn
  <1>9. ~settled  BY <1>4, WhileReading
  <1>10. UNCHANGED <<heard, settled, round, size, kind, emitted>>
    BY DEF Stream!Says, Stream!engine
  <1> QED  BY <1>1, <1>3, <1>4, <1>5, <1>6, <1>7, <1>8, <1>9, <1>10, YieldKeeps

LEMMA ChatUsageStep ==
    ASSUME MaxCalls \in Nat, StreamInv, Stream!ChatUsage
    PROVE  StreamInv'
  <1>1. PICK f \in EventSet : f = Stream!Usage /\ f.kind = "usage"  BY EventsTyped
  <1>2. PICK s : s = <<f>>  OBVIOUS
  <1>3. s \in Seq(EventSet) /\ Len(s) = 1 /\ DOMAIN s = {1} /\ s[1] = f  BY <1>1, <1>2
  <1>4. /\ Stream!Pulled /\ Stream!Reads /\ ready' = s /\ gen' = "reading" /\ gen = "reading" /\ said = "finished"
        /\ said' = "counted"
    BY <1>1, <1>2 DEF Stream!ChatUsage, Stream!Yield, Stream!Reads
  <1>5. Stream!Begun' = Stream!Begun /\ (Stream!AllSent <=> Stream!AllSent')
    BY DEF Stream!ChatUsage, Stream!Begun, Stream!AllSent
  <1>6. StreamTypes' /\ TableFollows'
    <2>1. StreamTypes'
      BY <1>4, <1>5 DEF Stream!ChatUsage, StreamInv, StreamTypes, Stream!engine
    <2>2. TableFollows'
      BY <1>4, <1>5 DEF Stream!ChatUsage, StreamInv, TableFollows, Stream!Unfinished
    <2> QED  BY <2>1, <2>2
  <1>7. \A k \in DOMAIN s : ~IsCall(s[k])  BY <1>1, <1>3 DEF IsCall
  <1>8. ~Ended(s, "failed") /\ ~Ended(s, "completed") /\ CallsIn(s) = {}
    BY <1>1, <1>3, <1>7 DEF Ended, CallsIn
  <1>9. ~settled  BY <1>4, WhileReading
  <1>10. UNCHANGED <<heard, settled, round, size, kind, emitted>>
    BY DEF Stream!ChatUsage, Stream!engine
  <1> QED  BY <1>1, <1>3, <1>4, <1>5, <1>6, <1>7, <1>8, <1>9, <1>10, YieldKeeps

(* A part of a call has come: the table follows, and nothing is yielded.   *)
LEMMA GrowsKeeps ==
    ASSUME StreamInv, Stream!Reads, ~settled, ready' = <<>>, gen' = "reading",
           UNCHANGED <<emitted, heard, settled, round, size, kind, said>>,
           StreamTypes', TableFollows'
    PROVE  StreamInv'
  <1>0. PICK s : s = <<>>  OBVIOUS
  <1>1. s \in Seq(EventSet) /\ DOMAIN s = {} /\ ready' = s  BY <1>0
  <1>2. ~Ended(s, "failed") /\ ~Ended(s, "completed") /\ CallsIn(s) = {}
    BY <1>1 DEF Ended, CallsIn
  <1>3. Stream!Pulled /\ said \notin {"cut", "error"}  BY WhileReading DEF Stream!Reads
  <1> QED  BY <1>1, <1>2, <1>3, YieldKeeps

LEMMA StartsStep ==
    ASSUME MaxCalls \in Nat, StreamInv, NEW i \in Stream!Index, Stream!Starts(i)
    PROVE  StreamInv'
  <1>1. /\ Stream!Reads /\ Stream!Unfinished /\ streamed[i] = Stream!None /\ ready' = <<>> /\ gen' = "reading"
        /\ gen = "reading" /\ ~settled
    BY WhileReading DEF Stream!Starts, Stream!Speaking, Stream!Yield, Stream!Reads
  <1>2. /\ streamed' = [streamed EXCEPT ![i] = 0] /\ calls' = [calls EXCEPT ![i] = 0]
        /\ UNCHANGED <<kind, size, over, said, emitted, heard, settled, round>>
    BY DEF Stream!Starts, Stream!engine
  <1>3. Stream!Begun' = Stream!Begun \cup {i} /\ i \notin Stream!Begun
    BY <1>1, <1>2 DEF Stream!Begun, Stream!None, StreamInv, StreamTypes
  <1>4. PICK n \in 0..MaxCalls : Stream!Begun = 1..n  BY DEF StreamInv, TableFollows
  <1>5. i = n + 1
    <2>1. i \in 1..MaxCalls /\ i \notin 1..n  BY <1>3, <1>4 DEF Stream!Index
    <2>2. ASSUME n + 1 < i  PROVE FALSE
      <3>1. n + 1 \in Stream!Index  BY <2>1, <2>2 DEF Stream!Index
      <3>2. n + 1 \in Stream!Begun  BY <2>2, <3>1 DEF Stream!Starts, Stream!Begun
      <3> QED  BY <1>4, <3>2
    <2> QED  BY <2>1, <2>2
  <1>6. StreamTypes'
    <2>1. /\ streamed' \in [Stream!Index -> Int] /\ calls' \in [Stream!Index -> Int]
      BY <1>2 DEF StreamInv, StreamTypes
    <2>2. \A j \in Stream!Index : streamed'[j] \in {Stream!None} \cup 0..size[j]
      BY <1>2 DEF StreamInv, StreamTypes
    <2> QED  BY <1>1, <1>2, <1>3, <2>1, <2>2 DEF StreamInv, StreamTypes
  <1>7. TableFollows'
    <2>1. n + 1 \in 0..MaxCalls /\ Stream!Begun' = 1..n + 1
      BY <1>3, <1>4, <1>5 DEF Stream!Index
    <2>2. i \notin over  BY <1>3 DEF StreamInv, StreamTypes
    <2>3. \A j \in Stream!Index \ over : calls'[j] = streamed'[j]
      BY <1>2 DEF StreamInv, StreamTypes, TableFollows
    <2>4. \A j \in over : streamed'[j] = size[j]
      BY <1>2, <2>2 DEF StreamInv, StreamTypes, TableFollows
    <2> QED
      BY <1>1, <1>2, <2>1, <2>3, <2>4 DEF StreamInv, TableFollows, Stream!Unfinished
  <1> QED  BY <1>1, <1>2, <1>6, <1>7, GrowsKeeps

LEMMA ArguesStep ==
    ASSUME MaxCalls \in Nat, StreamInv, NEW i \in Stream!Index, Stream!Argues(i)
    PROVE  StreamInv'
  <1>1. /\ Stream!Reads /\ Stream!Unfinished /\ ready' = <<>> /\ gen' = "reading" /\ gen = "reading" /\ ~settled
    BY WhileReading DEF Stream!Argues, Stream!Speaking, Stream!Yield, Stream!Reads
  <1>2. PICK n \in Nat : n = streamed[i] /\ n + 1 \in 0..size[i]
    BY DEF Stream!Argues, StreamInv, StreamTypes
  <1>3. /\ streamed' = [streamed EXCEPT ![i] = n + 1] /\ UNCHANGED <<kind, size, over, said, emitted,
                                                                    heard, settled, round>>
        /\ calls' = [calls EXCEPT ![i] = calls[i] + 1]
    BY <1>2 DEF Stream!Argues, Stream!engine
  <1>4. Stream!Begun' = Stream!Begun
    BY <1>2, <1>3 DEF Stream!Begun, Stream!None, StreamInv, StreamTypes
  <1>5. i \notin over
    <2>1. i \in over => n + 1 \in 0..n  BY <1>2 DEF StreamInv, TableFollows
    <2> QED  BY <2>1
  <1>6. calls[i] = n  BY <1>2, <1>5 DEF StreamInv, TableFollows
  <1>7. StreamTypes'
    <2>1. streamed' \in [Stream!Index -> Int] /\ calls' \in [Stream!Index -> Int]
      BY <1>2, <1>3, <1>6 DEF StreamInv, StreamTypes
    <2>2. \A j \in Stream!Index : streamed'[j] \in {Stream!None} \cup 0..size[j]
      BY <1>2, <1>3 DEF StreamInv, StreamTypes
    <2> QED  BY <1>1, <1>3, <1>4, <2>1, <2>2 DEF StreamInv, StreamTypes
  <1>8. TableFollows'
    <2>1. \A j \in Stream!Index \ over : calls'[j] = streamed'[j]
      BY <1>2, <1>3, <1>6 DEF StreamInv, StreamTypes, TableFollows
    <2>2. \A j \in over : streamed'[j] = size[j]
      BY <1>3, <1>5 DEF StreamInv, StreamTypes, TableFollows
    <2> QED
      BY <1>1, <1>3, <1>4, <2>1, <2>2 DEF StreamInv, TableFollows, Stream!Unfinished
  <1> QED  BY <1>1, <1>3, <1>7, <1>8, GrowsKeeps

(* One whole call goes out.                                                *)
LEMMA CallKeeps ==
    ASSUME MaxCalls \in Nat, StreamInv, Stream!Reads, ~settled, NEW i \in Stream!Index, i \notin emitted,
           calls[i] = size[i], ready' = <<Stream!ToolCall(calls, i)>>, gen' = "reading",
           emitted' = emitted \cup {i},
           UNCHANGED <<heard, settled, round, size, kind, said>>,
           StreamTypes', TableFollows'
    PROVE  StreamInv'
  <1>1. PICK e : e = Stream!ToolCall(calls, i)  OBVIOUS
  <1>2. e = [kind |-> "tool_call", index |-> i, args |-> calls[i]]
    BY <1>1 DEF Stream!ToolCall, Stream!Parses
  <1>3. e \in EventSet /\ e.kind = "tool_call" /\ e.index = i /\ e.args = size[i]
    BY <1>2 DEF EventSet, Stream!Index, StreamInv, StreamTypes
  <1>4. PICK s : s = <<e>> /\ ready' = s  BY <1>1
  <1>5. s \in Seq(EventSet) /\ Len(s) = 1 /\ DOMAIN s = {1} /\ s[1] = e  BY <1>3, <1>4
  <1>6. ~Ended(s, "failed") /\ ~Ended(s, "completed")  BY <1>3, <1>5 DEF Ended
  <1>7. CallsIn(s) = {i}
    <2>1. {k \in DOMAIN s : IsCall(s[k])} = {1}  BY <1>3, <1>5 DEF IsCall
    <2> QED  BY <1>3, <1>5, <2>1 DEF CallsIn
  <1>8. \A k \in DOMAIN s : /\ Kept(s[k])' /\ s[k].index \notin emitted
                            /\ \A l \in DOMAIN s : l = k
    BY <1>3, <1>5 DEF Kept
  <1>9. Stream!Pulled /\ said \notin {"cut", "error"}  BY WhileReading DEF Stream!Reads
  <1>10. \A k \in DOMAIN s : s[k].kind \notin {"completed", "failed"}  BY <1>3, <1>5
  <1> QED  BY <1>4, <1>5, <1>6, <1>7, <1>8, <1>9, <1>10, YieldKeeps

LEMMA ResponsesCallDoneStep ==
    ASSUME MaxCalls \in Nat, StreamInv, NEW i \in Stream!Index, Stream!ResponsesCallDone(i)
    PROVE  StreamInv'
  <1>1. /\ Stream!Reads /\ kind = "responses" /\ i \in Stream!Begun /\ streamed[i] = size[i] /\ Stream!Unfinished
        /\ gen = "reading" /\ ~settled /\ over' = over \cup {i}
        /\ UNCHANGED <<kind, size, streamed, said, calls, heard, settled, round>>
    BY WhileReading DEF Stream!ResponsesCallDone, Stream!Reads, Stream!engine
  <1>2. Stream!Begun' = Stream!Begun /\ emitted = over
    BY <1>1 DEF Stream!Begun, StreamInv, TableFollows
  <1>3. ASSUME gen' = "reading", emitted' = over'  PROVE StreamTypes' /\ TableFollows'
    <2>1. StreamTypes'  BY <1>1, <1>2, <1>3 DEF StreamInv, StreamTypes
    <2>2. TableFollows'  BY <1>1, <1>2, <1>3 DEF StreamInv, TableFollows, Stream!Unfinished
    <2> QED  BY <2>1, <2>2
  <1>4. CASE i \notin emitted
    <2>1. calls[i] = size[i]  BY <1>1, <1>2, <1>4 DEF StreamInv, TableFollows
    <2>2. /\ ready' = <<Stream!ToolCall(calls, i)>> /\ gen' = "reading"
          /\ emitted' = emitted \cup {i}
      BY <1>4, <2>1 DEF Stream!ResponsesCallDone, Stream!Yield, Stream!Parses
    <2> QED  BY <1>1, <1>2, <1>3, <1>4, <2>1, <2>2, CallKeeps
  <1>5. CASE i \in emitted
    <2>1. ready' = <<>> /\ gen' = "reading" /\ emitted' = emitted /\ over' = over
      BY <1>1, <1>2, <1>5 DEF Stream!ResponsesCallDone, Stream!Yield
    <2> QED  BY <1>1, <1>2, <1>3, <2>1, GrowsKeeps
  <1> QED  BY <1>4, <1>5

LEMMA AnthropicStopStep ==
    ASSUME MaxCalls \in Nat, StreamInv, NEW i \in Stream!Index, Stream!AnthropicStop(i)
    PROVE  StreamInv'
  <1>1. /\ Stream!Reads /\ kind = "anthropic" /\ i \in Stream!Begun \ over /\ streamed[i] = size[i] /\ Stream!Unfinished
        /\ gen = "reading" /\ ~settled /\ over' = over \cup {i} /\ emitted' = emitted \cup {i}
        /\ calls' = [calls EXCEPT ![i] = Stream!None]
        /\ ready' = <<Stream!ToolCall(calls, i)>> /\ gen' = "reading"
        /\ UNCHANGED <<kind, size, streamed, said, heard, settled, round>>
    BY WhileReading
       DEF Stream!AnthropicStop, Stream!Speaking, Stream!Yield, Stream!Reads, Stream!engine
  <1>2. Stream!Begun' = Stream!Begun /\ emitted = over
    BY <1>1 DEF Stream!Begun, StreamInv, TableFollows
  <1>3. calls[i] = size[i]  BY <1>1 DEF StreamInv, TableFollows
  <1>4. StreamTypes'
    <2>1. calls' \in [Stream!Index -> Int]  BY <1>1 DEF StreamInv, StreamTypes, Stream!None
    <2> QED  BY <1>1, <1>2, <2>1 DEF StreamInv, StreamTypes
  <1>5. TableFollows'
    <2>1. \A j \in Stream!Index \ over' : calls'[j] = streamed[j]
      BY <1>1 DEF StreamInv, StreamTypes, TableFollows
    <2> QED  BY <1>1, <1>2, <2>1 DEF StreamInv, TableFollows, Stream!Unfinished
  <1> QED  BY <1>1, <1>2, <1>3, <1>4, <1>5, CallKeeps

----------------------------------------------------------------------------
(* The calls of a chat completion.                                         *)
LEMMA HeldIs ==
    ASSUME MaxCalls \in Nat, StreamInv, kind = "chat"
    PROVE  Stream!Held \in 0..MaxCalls /\ Stream!Begun = 1..Stream!Held /\ calls = streamed
  <1>1. calls = streamed
    <2>1. \A i \in Stream!Index : calls[i] = streamed[i]  BY DEF StreamInv, TableFollows
    <2>2. calls \in [Stream!Index -> Int] /\ streamed \in [Stream!Index -> Int]
      BY DEF StreamInv, StreamTypes
    <2> QED  BY <2>1, <2>2
  <1>2. {i \in Stream!Index : calls[i] # Stream!None} = Stream!Begun  BY <1>1 DEF Stream!Begun
  <1>3. \E n \in 0..MaxCalls : {i \in Stream!Index : calls[i] # Stream!None} = 1..n
    BY <1>2 DEF StreamInv, TableFollows
  <1> QED  BY <1>1, <1>2, <1>3 DEF Stream!Held

(* They go out in order up to the first that does not parse.               *)
LEMMA ToolEventsAre ==
    ASSUME MaxCalls \in Nat, StreamInv, Stream!Held \in 0..MaxCalls
    PROVE  \E m \in 0..Stream!Held :
             /\ Stream!ToolEvents \in Seq(EventSet) /\ Len(Stream!ToolEvents) = m
             /\ \A i \in 1..m : Stream!ToolEvents[i] = Stream!ToolCall(calls, i)
             /\ \A i \in 1..m : i = m \/ Stream!Parses(calls, i)
             /\ m # Stream!Held => m # 0 /\ ~Stream!Parses(calls, m)
  <1> DEFINE good(n) == (n = Stream!Held \/ ~Stream!Parses(calls, n + 1)) /\ \A i \in 1..n : Stream!Parses(calls, i)
  <1>1. \E n \in 0..Stream!Held : good(n)
    <2> DEFINE bad == {i \in 1..Stream!Held : ~Stream!Parses(calls, i)}
    <2>1. CASE bad = {}
      <3>1. good(Stream!Held)  BY <2>1
      <3> QED  BY <3>1
    <2>2. CASE bad # {}
      <3>1. bad \in SUBSET Nat  OBVIOUS
      <3>2. PICK l \in bad : \A n \in bad : l <= n
        <4> HIDE DEF bad
        <4> QED  BY <2>2, <3>1, LeastExists
      <3>3. l - 1 \in 0..Stream!Held /\ l = (l - 1) + 1 /\ ~Stream!Parses(calls, l)  BY <3>2
      <3>4. \A i \in 1..l - 1 : Stream!Parses(calls, i)  BY <3>2
      <3>5. good(l - 1)  BY <3>3, <3>4
      <3> QED  BY <3>3, <3>5
    <2> QED  BY <2>1, <2>2
  <1>2. PICK n \in 0..Stream!Held : good(n) /\ n = CHOOSE k \in 0..Stream!Held : good(k)
    <2> HIDE DEF good
    <2> QED  BY <1>1
  <1>3. PICK m \in 0..Stream!Held : m = IF n = Stream!Held THEN n ELSE n + 1  OBVIOUS
  <1>4. Stream!ToolEvents = [i \in 1..m |-> Stream!ToolCall(calls, i)]
    BY <1>2, <1>3 DEF Stream!ToolEvents
  <1>5. \A i \in 1..m : Stream!ToolCall(calls, i) \in EventSet
    <2> SUFFICES ASSUME NEW i \in 1..m  PROVE Stream!ToolCall(calls, i) \in EventSet  OBVIOUS
    <2>1. i \in Stream!Index /\ i \in 0..MaxCalls /\ calls[i] \in Int
      BY DEF Stream!Index, StreamInv, StreamTypes
    <2>2. [kind |-> "tool_call", index |-> i, args |-> calls[i]] \in EventSet
      BY <2>1 DEF EventSet
    <2> QED  BY <2>2, EventsTyped DEF Stream!ToolCall
  <1>6. Stream!ToolEvents \in Seq(EventSet) /\ Len(Stream!ToolEvents) = m  BY <1>4, <1>5
  <1>7. \A i \in 1..m : Stream!ToolEvents[i] = Stream!ToolCall(calls, i)  BY <1>4
  <1>8. \A i \in 1..m : i = m \/ Stream!Parses(calls, i)  BY <1>2, <1>3
  <1>9. m # Stream!Held => m # 0 /\ ~Stream!Parses(calls, m)  BY <1>2, <1>3
  <1> QED  BY <1>6, <1>7, <1>8, <1>9

(* What is known of them once they are on their way; where the arguments   *)
(* never came, it is because the answer was cut.                           *)
LEMMA ToolEventsGo ==
    ASSUME MaxCalls \in Nat, StreamInv, kind = "chat", emitted = {}, ~settled,
           UNCHANGED <<kind, size>>, Stream!AllSent \/ said' = "cut",
           NEW s \in Seq(EventSet), Len(s) >= Len(Stream!ToolEvents),
           \A k \in 1..Len(Stream!ToolEvents) : s[k] = Stream!ToolEvents[k],
           \A k \in DOMAIN s : k > Len(Stream!ToolEvents) => ~IsCall(s[k])
    PROVE  /\ Stream!ToolEvents \in Seq(EventSet)
           /\ \A k \in DOMAIN s : IsCall(s[k]) =>
                 /\ Kept(s[k])' /\ s[k].index \notin emitted /\ ~settled
                 /\ \A l \in DOMAIN s : IsCall(s[l]) /\ s[l].index = s[k].index => l = k
           /\ \A k \in 1..Len(Stream!ToolEvents) :
                 /\ s[k].kind # "completed"
                 /\ s[k].kind = "failed" => k = Len(Stream!ToolEvents)
           /\ ~Stream!Broken(Stream!ToolEvents) => CallsIn(s) = Stream!Begun
           /\ Stream!Broken(Stream!ToolEvents) => Ended(s, "failed")
           /\ Stream!AllSent => ~Stream!Broken(Stream!ToolEvents)
  <1>1. Stream!Held \in 0..MaxCalls /\ Stream!Begun = 1..Stream!Held /\ calls = streamed
    BY HeldIs
  <1>2. PICK m \in 0..Stream!Held :
             /\ Stream!ToolEvents \in Seq(EventSet) /\ Len(Stream!ToolEvents) = m
             /\ \A i \in 1..m : Stream!ToolEvents[i] = Stream!ToolCall(calls, i)
             /\ \A i \in 1..m : i = m \/ Stream!Parses(calls, i)
             /\ m # Stream!Held => m # 0 /\ ~Stream!Parses(calls, m)
    BY <1>1, ToolEventsAre
  <1>3. PICK l \in Nat : l = Len(s) /\ m <= l /\ DOMAIN s = 1..l  BY <1>2
  <1>4. ASSUME NEW k \in 1..m
        PROVE  /\ k \in DOMAIN s /\ k \in Stream!Index
               /\ Stream!Parses(calls, k) => /\ s[k].kind = "tool_call" /\ s[k].index = k
                                             /\ s[k].args = calls[k]
               /\ ~Stream!Parses(calls, k) => s[k] = Stream!Failed /\ s[k].kind = "failed" /\ k = m
    <2>1. s[k] = Stream!ToolCall(calls, k)  BY <1>2
    <2>2. k \in DOMAIN s /\ k \in Stream!Index  BY <1>1, <1>3 DEF Stream!Index
    <2> QED  BY <1>2, <2>1, <2>2, EventsTyped DEF Stream!ToolCall
  <1>5. \A k \in DOMAIN s : IsCall(s[k]) => k \in 1..m /\ Stream!Parses(calls, k)
    BY <1>2, <1>3, <1>4 DEF IsCall
  <1>6. ASSUME NEW k \in 1..m, Stream!Parses(calls, k)  PROVE Kept(s[k])'
    <2>1. calls[k] = size[k] \/ calls[k] = 0  BY <1>6 DEF Stream!Parses
    <2>2. Stream!AllSent => calls[k] = size[k]
      <3>1. k \in Stream!Begun  BY <1>1
      <3> QED  BY <1>1, <3>1 DEF Stream!AllSent
    <2> QED  BY <1>4, <1>6, <2>1, <2>2 DEF Kept
  <1>7. \A k \in DOMAIN s : IsCall(s[k]) =>
                 /\ Kept(s[k])' /\ s[k].index \notin emitted /\ ~settled
                 /\ \A j \in DOMAIN s : IsCall(s[j]) /\ s[j].index = s[k].index => j = k
    BY <1>4, <1>5, <1>6
  <1>8. \A k \in 1..m : s[k].kind # "completed" /\ (s[k].kind = "failed" => k = m)
    BY <1>4
  <1>9. Stream!Broken(Stream!ToolEvents) <=> m # 0 /\ ~Stream!Parses(calls, m)
    <2>1. \A k \in 1..m : Stream!ToolEvents[k] = Stream!Failed <=> ~Stream!Parses(calls, k)
      BY <1>2, EventsTyped DEF Stream!ToolCall
    <2>2. DOMAIN Stream!ToolEvents = 1..m  BY <1>2
    <2> QED  BY <1>2, <2>1, <2>2 DEF Stream!Broken
  <1>10. ASSUME ~Stream!Broken(Stream!ToolEvents)  PROVE CallsIn(s) = Stream!Begun
    <2>1. m = Stream!Held /\ \A k \in 1..m : Stream!Parses(calls, k)  BY <1>2, <1>9, <1>10
    <2>2. {k \in DOMAIN s : IsCall(s[k])} = 1..m  BY <1>3, <1>4, <1>5, <2>1 DEF IsCall
    <2>3. \A k \in 1..m : s[k].index = k  BY <1>4, <2>1
    <2>4. CallsIn(s) = {s[k].index : k \in 1..m}  BY <2>2 DEF CallsIn
    <2> QED  BY <1>1, <2>1, <2>3, <2>4
  <1>11. Stream!Broken(Stream!ToolEvents) => Ended(s, "failed")  BY <1>4, <1>9 DEF Ended
  <1>12. Stream!AllSent => ~Stream!Broken(Stream!ToolEvents)
    <2> SUFFICES ASSUME Stream!AllSent, m # 0  PROVE Stream!Parses(calls, m)  BY <1>9
    <2>1. m \in Stream!Begun  BY <1>1, <1>2
    <2> QED  BY <1>1, <2>1 DEF Stream!AllSent, Stream!Parses
  <1> QED  BY <1>2, <1>7, <1>8, <1>10, <1>11, <1>12

(* What the generator does last: the calls that are left and the verdict.  *)
LEMMA ChatLastGoes ==
    ASSUME MaxCalls \in Nat, StreamInv, Stream!Reads, ~cancelled, kind = "chat",
           Stream!AllSent \/ said' = "cut", said' = said \/ said' = "cut",
           ready' = Stream!ChatLast, gen' = "spent",
           UNCHANGED <<kind, size, streamed, over, calls, emitted, heard, settled, round>>,
           StreamTypes', TableFollows'
    PROVE  StreamInv'
  <1>1. said \notin {"cut", "error"} /\ ~settled /\ Stream!Pulled
    <2>1. said # "completed"  BY DEF StreamInv, TableFollows
    <2> QED  BY <2>1, WhileReading DEF Stream!Reads
  <1>2. Stream!Begun' = Stream!Begun  BY DEF Stream!Begun
  <1>3. PICK c \in EventSet : c = Stream!Completed /\ c.kind = "completed" /\ ~IsCall(c)
    BY EventsTyped DEF IsCall
  <1>4. CASE emitted # {}
    <2>1. emitted = Stream!Begun  BY <1>4 DEF StreamInv, TableFollows
    <2>2. PICK s : s = <<c>>  OBVIOUS
    <2>3. s \in Seq(EventSet) /\ Len(s) = 1 /\ DOMAIN s = {1} /\ s[1] = c  BY <1>3, <2>2
    <2>4. ready' = s
      <3>1. ~Stream!Broken(<<>>)  BY DEF Stream!Broken
      <3>2. Append(<<>>, Stream!Completed) = <<c>>  BY <1>3
      <3> QED  BY <1>4, <2>2, <3>1, <3>2 DEF Stream!ChatLast
    <2>5. CallsIn(s) = {} /\ Ended(s, "completed")  BY <1>3, <2>3 DEF CallsIn, Ended
    <2>6. \A k \in DOMAIN s : ~IsCall(s[k])  BY <1>3, <2>3
    <2> QED  BY <1>1, <1>2, <2>1, <2>3, <2>4, <2>5, <2>6, YieldKeeps
  <1>5. CASE emitted = {}
    <2>1. CASE Stream!Broken(Stream!ToolEvents)
      <3>1. PICK s : s = Stream!ToolEvents  OBVIOUS
      <3>2. s \in Seq(EventSet) /\ Len(s) \in Nat /\ DOMAIN s = 1..Len(s)
        BY <3>1, HeldIs, ToolEventsAre
      <3>3. ready' = s  BY <1>5, <2>1, <3>1 DEF Stream!ChatLast
      <3>4. /\ \A k \in DOMAIN s : IsCall(s[k]) =>
                 /\ Kept(s[k])' /\ s[k].index \notin emitted /\ ~settled
                 /\ \A l \in DOMAIN s : IsCall(s[l]) /\ s[l].index = s[k].index => l = k
            /\ \A k \in 1..Len(s) : /\ s[k].kind # "completed"
                                    /\ s[k].kind = "failed" => k = Len(s)
            /\ Ended(s, "failed")
        <4>1. /\ Len(s) >= Len(Stream!ToolEvents) /\ \A k \in 1..Len(Stream!ToolEvents) : s[k] = Stream!ToolEvents[k]
              /\ \A k \in DOMAIN s : ~(k > Len(Stream!ToolEvents))
          BY <3>1, <3>2
        <4>2. /\ \A k \in DOMAIN s : IsCall(s[k]) =>
                   /\ Kept(s[k])' /\ s[k].index \notin emitted /\ ~settled
                   /\ \A l \in DOMAIN s : IsCall(s[l]) /\ s[l].index = s[k].index => l = k
              /\ \A k \in 1..Len(Stream!ToolEvents) : /\ s[k].kind # "completed"
                                                      /\ s[k].kind = "failed" => k = Len(Stream!ToolEvents)
              /\ Ended(s, "failed")
          BY <1>1, <1>5, <2>1, <3>2, <4>1, ToolEventsGo
        <4> QED  BY <3>1, <4>2
      <3>5. ~Ended(s, "completed")  BY <3>2, <3>4 DEF Ended
      <3> QED  BY <1>1, <1>2, <3>2, <3>3, <3>4, <3>5, YieldKeeps
    <2>2. CASE ~Stream!Broken(Stream!ToolEvents)
      <3>1. PICK s : s = Append(Stream!ToolEvents, c)  OBVIOUS
      <3>2. Stream!ToolEvents \in Seq(EventSet)  BY HeldIs, ToolEventsAre
      <3>3. PICK m \in Nat : m = Len(Stream!ToolEvents)  BY <3>2
      <3>4. /\ s \in Seq(EventSet) /\ Len(s) = m + 1 /\ DOMAIN s = 1..m + 1
            /\ \A k \in 1..m : s[k] = Stream!ToolEvents[k]
            /\ s[m + 1] = c
        BY <1>3, <3>1, <3>2, <3>3, AppendProperties
      <3>5. ready' = s  BY <1>3, <1>5, <2>2, <3>1 DEF Stream!ChatLast
      <3>6. \A k \in DOMAIN s : k > m => ~IsCall(s[k])
        <4>1. \A k \in DOMAIN s : k > m => k = m + 1  BY <3>4
        <4> QED  BY <1>3, <3>4, <4>1
      <3>7. /\ \A k \in DOMAIN s : IsCall(s[k]) =>
                 /\ Kept(s[k])' /\ s[k].index \notin emitted /\ ~settled
                 /\ \A l \in DOMAIN s : IsCall(s[l]) /\ s[l].index = s[k].index => l = k
            /\ CallsIn(s) = Stream!Begun
            /\ \A k \in 1..m : s[k].kind = "failed" => k = m
            /\ \A k \in 1..m : s[k].kind # "completed"
        <4>1. Len(s) >= Len(Stream!ToolEvents)  BY <3>3, <3>4
        <4> QED  BY <1>1, <1>5, <2>2, <3>3, <3>4, <3>6, <4>1, ToolEventsGo
      <3>8. Ended(s, "completed")
        <4>1. m + 1 \in DOMAIN s  BY <3>4
        <4> QED  BY <1>3, <3>4, <4>1 DEF Ended
      <3>9. \A k \in DOMAIN s : s[k].kind \in {"completed", "failed"} => k = Len(s)
        <4> SUFFICES ASSUME NEW k \in 1..m, s[k].kind = "failed"  PROVE FALSE
          BY <3>4, <3>7
        <4>1. Stream!ToolEvents[k].kind = "failed"  BY <3>4
        <4>2. Stream!Held \in 0..MaxCalls  BY HeldIs
        <4>3. PICK n \in 0..Stream!Held : /\ \A i \in 1..n : Stream!ToolEvents[i] = Stream!ToolCall(calls, i)
                                          /\ Len(Stream!ToolEvents) = n
          BY <4>2, ToolEventsAre
        <4>4. Stream!ToolEvents[k] = Stream!ToolCall(calls, k) /\ k \in DOMAIN Stream!ToolEvents
          BY <3>2, <3>3, <4>3
        <4>5. Stream!ToolEvents[k] = Stream!Failed
          BY <4>1, <4>4 DEF Stream!ToolCall
        <4> QED  BY <2>2, <4>4, <4>5 DEF Stream!Broken
      <3> QED  BY <1>1, <1>2, <1>5, <3>4, <3>5, <3>7, <3>8, <3>9, YieldKeeps
    <2> QED  BY <2>1, <2>2
  <1> QED  BY <1>4, <1>5

LEMMA ChatFinishStep ==
    ASSUME MaxCalls \in Nat, StreamInv, Stream!ChatFinish
    PROVE  StreamInv'
  <1>1. /\ Stream!Reads /\ Stream!Pulled /\ Stream!Unfinished /\ ~settled /\ kind = "chat" /\ Stream!AllSent
        /\ gen = "reading" /\ gen' = "reading" /\ said' = "finished"
        /\ said \notin {"cut", "error"}
        /\ UNCHANGED <<kind, size, streamed, over, calls, heard, settled, round>>
    BY WhileReading
       DEF Stream!ChatFinish, Stream!Speaking, Stream!Reads, Stream!Yield, Stream!engine
  <1>2. Stream!Begun' = Stream!Begun /\ (Stream!AllSent <=> Stream!AllSent')
    BY <1>1 DEF Stream!Begun, Stream!AllSent
  <1>3. emitted = {}  BY <1>1 DEF StreamInv, TableFollows
  <1>4. ASSUME emitted' \in {{}, Stream!Begun}  PROVE StreamTypes' /\ TableFollows'
    <2>1. StreamTypes'  BY <1>1, <1>2, <1>4 DEF StreamInv, StreamTypes
    <2>2. TableFollows'  BY <1>1, <1>2, <1>4 DEF StreamInv, TableFollows, Stream!Unfinished
    <2> QED  BY <2>1, <2>2
  <1>5. CASE ready' = Stream!ToolEvents /\ emitted' = Stream!Begun
    <2>1. PICK s : s = Stream!ToolEvents  OBVIOUS
    <2>2. s \in Seq(EventSet) /\ Len(s) \in Nat /\ DOMAIN s = 1..Len(s)
      BY <1>1, <2>1, HeldIs, ToolEventsAre
    <2>3. /\ Len(s) >= Len(Stream!ToolEvents) /\ \A k \in 1..Len(Stream!ToolEvents) : s[k] = Stream!ToolEvents[k]
          /\ \A k \in DOMAIN s : ~(k > Len(Stream!ToolEvents))
      BY <2>1, <2>2
    <2>4. /\ \A k \in DOMAIN s : IsCall(s[k]) =>
               /\ Kept(s[k])' /\ s[k].index \notin emitted /\ ~settled
               /\ \A l \in DOMAIN s : IsCall(s[l]) /\ s[l].index = s[k].index => l = k
          /\ \A k \in 1..Len(Stream!ToolEvents) : /\ s[k].kind # "completed"
                                                  /\ s[k].kind = "failed" => k = Len(Stream!ToolEvents)
          /\ CallsIn(s) = Stream!Begun
      BY <1>1, <1>3, <2>2, <2>3, ToolEventsGo
    <2>5. ~Ended(s, "completed")  BY <2>1, <2>2, <2>4 DEF Ended
    <2>6. \A k \in DOMAIN s : s[k].kind \in {"completed", "failed"} => k = Len(s)
      BY <2>1, <2>2, <2>4
    <2> QED  BY <1>1, <1>3, <1>4, <1>5, <2>1, <2>2, <2>4, <2>5, <2>6, YieldKeeps
  <1>6. CASE ready' = <<>> /\ emitted' = emitted
    <2>1. PICK s : s = <<>>  OBVIOUS
    <2>2. s \in Seq(EventSet) /\ DOMAIN s = {} /\ ready' = s  BY <1>6, <2>1
    <2>3. ~Ended(s, "failed") /\ ~Ended(s, "completed") /\ CallsIn(s) = {}
      BY <2>2 DEF Ended, CallsIn
    <2> QED  BY <1>1, <1>3, <1>4, <1>6, <2>2, <2>3, YieldKeeps
  <1> QED  BY <1>5, <1>6 DEF Stream!ChatFinish, Stream!Yield

LEMMA ChatDoneStep ==
    ASSUME MaxCalls \in Nat, StreamInv, Stream!ChatDone
    PROVE  StreamInv'
  <1>1. /\ Stream!Reads /\ ~cancelled /\ kind = "chat" /\ ready' = Stream!ChatLast /\ gen' = "spent" /\ said' = said
        /\ UNCHANGED <<Stream!server, calls, emitted, heard, settled, round>>
    BY DEF Stream!ChatDone, Stream!Yield, Stream!engine, Stream!server
  <1>2. Stream!AllSent  BY DEF Stream!ChatDone, StreamInv, TableFollows
  <1>3. GoesWell  BY <1>1 DEF GoesWell
  <1>4. StreamTypes' /\ TableFollows'  BY <1>1, <1>3, AnswerStays
  <1> QED  BY <1>1, <1>2, <1>4, ChatLastGoes DEF Stream!server

(* The other adapters end with a verdict, or with nothing after one.       *)
LEMMA VerdictGoes ==
    ASSUME MaxCalls \in Nat, StreamInv, Stream!Reads, ~settled,
           ready' \in {<<Stream!Usage, Stream!Completed>>, <<Stream!Completed>>},
           gen' = "spent" \/ said' = "completed",
           said' # "error", emitted = Stream!Begun \/ said' = "cut",
           UNCHANGED <<kind, size, streamed, emitted, heard, settled, round>>,
           StreamTypes', TableFollows'
    PROVE  StreamInv'
  <1>1. PICK u \in EventSet : u = Stream!Usage /\ u.kind = "usage"  BY EventsTyped
  <1>2. PICK c \in EventSet : c = Stream!Completed /\ c.kind = "completed"  BY EventsTyped
  <1>3. Stream!Pulled /\ said \notin {"cut", "error"} /\ Stream!Begun' = Stream!Begun
    BY WhileReading DEF Stream!Reads, Stream!Begun
  <1>4. ASSUME NEW s \in Seq(EventSet), ready' = s,
               \A k \in DOMAIN s : s[k].kind \in {"usage", "completed"},
               \A k \in DOMAIN s : s[k].kind = "completed" => k = Len(s),
               \E k \in DOMAIN s : s[k].kind = "completed"
        PROVE  StreamInv'
    <2>1. \A k \in DOMAIN s : ~IsCall(s[k]) /\ s[k].kind # "failed"  BY <1>4 DEF IsCall
    <2>2. CallsIn(s) = {} /\ Ended(s, "completed")  BY <1>4, <2>1 DEF CallsIn, Ended
    <2> QED  BY <1>3, <1>4, <2>1, <2>2, YieldKeeps
  <1>5. CASE ready' = <<Stream!Usage, Stream!Completed>>
    <2>1. PICK s : s = <<u, c>>  OBVIOUS
    <2>2. /\ s \in Seq(EventSet) /\ Len(s) = 2 /\ DOMAIN s = 1..2 /\ s[1] = u /\ s[2] = c
      BY <1>1, <1>2, <2>1
    <2>3. ready' = s  BY <1>1, <1>2, <1>5, <2>1
    <2>4. \A k \in DOMAIN s : /\ s[k].kind \in {"usage", "completed"}
                              /\ s[k].kind = "completed" => k = Len(s)
      BY <1>1, <1>2, <2>2
    <2>5. 2 \in DOMAIN s /\ s[2].kind = "completed"  BY <1>2, <2>2
    <2> QED  BY <1>4, <2>2, <2>3, <2>4, <2>5
  <1>6. CASE ready' = <<Stream!Completed>>
    <2>1. PICK s : s = <<c>>  OBVIOUS
    <2>2. s \in Seq(EventSet) /\ Len(s) = 1 /\ DOMAIN s = {1} /\ s[1] = c  BY <1>2, <2>1
    <2>3. ready' = s  BY <1>2, <1>6, <2>1
    <2> QED  BY <1>2, <1>4, <2>2, <2>3
  <1> QED  BY <1>5, <1>6

LEMMA ResponsesCompletedStep ==
    ASSUME MaxCalls \in Nat, StreamInv, Stream!ResponsesCompleted
    PROVE  StreamInv'
  <1>1. /\ Stream!Reads /\ Stream!Unfinished /\ ~settled /\ kind = "responses" /\ over = Stream!Begun
        /\ gen = "reading" /\ gen' = "reading" /\ said' = "completed"
        /\ ready' = <<Stream!Usage, Stream!Completed>>
        /\ UNCHANGED <<kind, size, streamed, over, calls, emitted, heard, settled, round>>
    BY WhileReading
       DEF Stream!ResponsesCompleted, Stream!Speaking, Stream!Reads, Stream!Pulled, Stream!Yield, Stream!engine
  <1>2. Stream!Begun' = Stream!Begun /\ emitted = over
    BY <1>1 DEF Stream!Begun, StreamInv, TableFollows
  <1>3. StreamTypes'  BY <1>1, <1>2 DEF StreamInv, StreamTypes
  <1>4. TableFollows'
    <2>1. kind \in Stream!Kinds  BY <1>1 DEF Stream!Kinds
    <2> QED  BY <1>1, <1>2, <2>1 DEF StreamInv, TableFollows
  <1> QED  BY <1>1, <1>2, <1>3, <1>4, VerdictGoes

LEMMA AnthropicMessageStopStep ==
    ASSUME MaxCalls \in Nat, StreamInv, Stream!AnthropicMessageStop
    PROVE  StreamInv'
  <1>1. /\ Stream!Reads /\ Stream!Unfinished /\ ~settled /\ kind = "anthropic" /\ over = Stream!Begun
        /\ gen' = "spent" /\ said' = "completed" /\ ready' = <<Stream!Usage, Stream!Completed>>
        /\ UNCHANGED <<kind, size, streamed, over, calls, emitted, heard, settled, round>>
    BY WhileReading
       DEF Stream!AnthropicMessageStop, Stream!Speaking, Stream!Yield, Stream!engine
  <1>2. Stream!Begun' = Stream!Begun /\ emitted = over
    BY <1>1 DEF Stream!Begun, StreamInv, TableFollows
  <1>3. StreamTypes'  BY <1>1, <1>2 DEF StreamInv, StreamTypes
  <1>4. TableFollows'  BY <1>1, <1>2 DEF StreamInv, TableFollows
  <1> QED  BY <1>1, <1>2, <1>3, <1>4, VerdictGoes

LEMMA EndsStep ==
    ASSUME MaxCalls \in Nat, StreamInv, Stream!Ends
    PROVE  StreamInv'
  <1>1. /\ Stream!Reads /\ gen = "reading" /\ gen' = "spent" /\ kind \in Stream!Kinds
        /\ said' = (IF Stream!Unfinished THEN "cut" ELSE said) /\ said \notin {"cut", "error"}
        /\ ready' = (IF cancelled THEN <<Stream!Failed>> ELSE Stream!AtTheEnd)
        /\ UNCHANGED <<kind, size, streamed, over, calls, emitted, heard, settled, round>>
    BY WhileReading DEF Stream!Ends, Stream!Reads, Stream!Yield, Stream!engine
  <1>2. Stream!Begun' = Stream!Begun /\ (Stream!AllSent <=> Stream!AllSent')
    BY <1>1 DEF Stream!Begun, Stream!AllSent
  <1>3. StreamTypes'
    BY <1>1, <1>2 DEF StreamInv, StreamTypes
  <1>4. TableFollows'
    <2>1. CASE Stream!Unfinished
      <3>1. said' = "cut"  BY <1>1, <2>1
      <3> QED  BY <1>1, <1>2, <2>1, <3>1 DEF StreamInv, TableFollows, Stream!Unfinished
    <2>2. CASE ~Stream!Unfinished
      BY <1>1, <1>2, <2>2 DEF StreamInv, TableFollows, Stream!Unfinished
    <2> QED  BY <2>1, <2>2
  <1>5. CASE cancelled
    <2>1. PICK f \in EventSet : f = Stream!Failed /\ f.kind = "failed"  BY EventsTyped
    <2>2. PICK s : s = <<f>>  OBVIOUS
    <2>3. s \in Seq(EventSet) /\ Len(s) = 1 /\ DOMAIN s = {1} /\ s[1] = f  BY <2>1, <2>2
    <2>4. Stream!Pulled /\ ready' = s  BY <1>1, <1>5, <2>1, <2>2 DEF Stream!Reads
    <2>5. \A k \in DOMAIN s : ~IsCall(s[k])  BY <2>1, <2>3 DEF IsCall
    <2>6. Ended(s, "failed") /\ ~Ended(s, "completed")  BY <2>1, <2>3 DEF Ended
    <2> QED  BY <1>1, <1>2, <1>3, <1>4, <2>3, <2>4, <2>5, <2>6, YieldKeeps
  <1>6. CASE ~cancelled /\ kind = "chat"
    <2>1. Stream!AllSent \/ said' = "cut"
      <3>1. said # "completed"  BY <1>6 DEF StreamInv, TableFollows
      <3>2. Stream!Unfinished \/ said \in {"finished", "counted"}
        BY <1>1, <3>1 DEF StreamInv, StreamTypes, Stream!Unfinished
      <3> QED  BY <1>1, <3>2 DEF StreamInv, TableFollows
    <2>2. ready' = Stream!ChatLast  BY <1>1, <1>6 DEF Stream!AtTheEnd
    <2> QED  BY <1>1, <1>3, <1>4, <1>6, <2>1, <2>2, ChatLastGoes
  <1>7. CASE ~cancelled /\ kind = "responses" /\ said = "completed"
    <2>1. PICK s : s = <<>>  OBVIOUS
    <2>2. s \in Seq(EventSet) /\ DOMAIN s = {} /\ ready' = s
      BY <1>1, <1>7, <2>1 DEF Stream!AtTheEnd
    <2>3. ~Ended(s, "failed") /\ ~Ended(s, "completed") /\ CallsIn(s) = {}
      BY <2>2 DEF Ended, CallsIn
    <2>4. said' = said  BY <1>1, <1>7 DEF Stream!Unfinished
    <2> QED  BY <1>1, <1>2, <1>3, <1>4, <2>2, <2>3, <2>4, YieldKeeps DEF Stream!Reads
  <1>8. CASE ~cancelled /\ kind # "chat" /\ said # "completed"
    <2>1. said \notin {"finished", "counted"}  BY <1>8 DEF StreamInv, TableFollows
    <2>2. Stream!Unfinished  BY <1>1, <1>8, <2>1 DEF StreamInv, StreamTypes, Stream!Unfinished
    <2>3. ~settled /\ said' = "cut"  BY <1>1, <2>2, WhileReading
    <2>4. ready' \in {<<Stream!Usage, Stream!Completed>>, <<Stream!Completed>>}
      <3>1. kind \in {"responses", "anthropic"}  BY <1>1, <1>8 DEF Stream!Kinds
      <3> QED  BY <1>1, <1>8, <3>1 DEF Stream!AtTheEnd
    <2> QED  BY <1>1, <1>3, <1>4, <2>3, <2>4, VerdictGoes
  <1>9. said = "completed" => kind = "responses"  BY <1>1, WhileReading
  <1> QED  BY <1>1, <1>5, <1>6, <1>7, <1>8, <1>9

----------------------------------------------------------------------------
(* The engine. *)
LEMMA TakeStep ==
    ASSUME MaxCalls \in Nat, StreamInv, Stream!Take
    PROVE  StreamInv'
  <1>1. PICK e : e = Head(ready)  OBVIOUS
  <1>2. PICK t : t = Tail(ready)  OBVIOUS
  <1>3. PICK l \in Nat : l = Len(t)
    <2>1. t \in Seq(EventSet)  BY <1>2, HeadTailProperties DEF StreamInv, OnItsWay, Stream!Take
    <2> QED  BY <2>1
  <1>4. /\ e \in EventSet /\ t \in Seq(EventSet) /\ Len(ready) = l + 1 /\ DOMAIN ready = 1..l + 1
        /\ DOMAIN t = 1..l /\ ready[1] = e /\ \A k \in 1..l : t[k] = ready[k + 1]
    <2>1. ready \in Seq(EventSet) /\ ready # <<>>  BY DEF StreamInv, OnItsWay, Stream!Take
    <2>2. /\ e = ready[1] /\ e \in EventSet /\ t \in Seq(EventSet)
          /\ Len(t) = Len(ready) - 1 /\ Len(ready) \in Nat
          /\ \A k \in 1..Len(t) : t[k] = ready[k + 1]
      BY <1>1, <1>2, <2>1, HeadTailProperties
    <2> QED  BY <1>3, <2>1, <2>2
  <1>5. /\ round = "running" /\ ready' = t
        /\ settled' = (settled \/ Stream!Verdict(e))
        /\ heard' = (IF IsCall(e) /\ ~settled THEN Append(heard, e) ELSE heard)
        /\ settled \/ e.kind = "failed" => round' \in {"invalid", "failed"}
        /\ ~settled /\ e.kind # "failed" => round' = "running"
        /\ UNCHANGED <<Stream!server, gen, calls, emitted>>
    <2>1. /\ round = "running" /\ ready' = t /\ settled' = (settled \/ Stream!Verdict(e))
          /\ UNCHANGED <<Stream!server, gen, calls, emitted>>
      BY <1>1, <1>2 DEF Stream!Take
    <2>2. heard' = (IF e.kind = "tool_call" /\ ~settled THEN Append(heard, e) ELSE heard)
      BY <1>1 DEF Stream!Take
    <2>3. round' = CASE settled           -> "invalid"
                     [] e.kind = "failed"  -> "failed"
                     [] OTHER              -> "running"
      BY <1>1 DEF Stream!Take
    <2>4. CASE settled
      <3>1. round' \in {"invalid", "failed"}  BY <2>3, <2>4
      <3> QED  BY <2>1, <2>2, <2>4, <3>1 DEF IsCall
    <2>5. CASE ~settled /\ e.kind = "failed"
      <3>1. round' = "failed"  BY <2>3, <2>5
      <3> QED  BY <2>1, <2>2, <2>5, <3>1 DEF IsCall
    <2>6. CASE ~settled /\ e.kind # "failed"
      <3>1. round' = "running"  BY <2>3, <2>6
      <3> QED  BY <2>1, <2>2, <2>6, <3>1 DEF IsCall
    <2> QED  BY <2>4, <2>5, <2>6
  <1>6. Stream!Begun' = Stream!Begun /\ (Stream!Unfinished <=> Stream!Unfinished') /\ (Stream!AllSent <=> Stream!AllSent')
    BY <1>5 DEF Stream!server, Stream!Begun, Stream!Unfinished, Stream!AllSent
  <1>7. StreamTypes'
    <2>1. settled' \in BOOLEAN  BY <1>5 DEF StreamInv, StreamTypes, Stream!Verdict
    <2> QED  BY <1>5, <1>6, <2>1 DEF StreamInv, StreamTypes, Stream!server
  <1>8. TableFollows'  BY <1>5, <1>6 DEF StreamInv, TableFollows, Stream!server
  <1>9. \A x : Kept(x)' <=> Kept(x)  BY <1>5 DEF Kept, Stream!server
  <1>10. Stream!SuccessIsWhole'  BY <1>5 DEF Stream!SuccessIsWhole
  <1>11. \A k \in 1..l : t[k].kind \in {"completed", "failed"} => k = l
    <2> SUFFICES ASSUME NEW k \in 1..l, t[k].kind \in {"completed", "failed"}  PROVE k = l
      OBVIOUS
    <2>1. k + 1 \in DOMAIN ready /\ ready[k + 1].kind \in {"completed", "failed"}  BY <1>4
    <2>2. k + 1 = l + 1  BY <1>4, <2>1 DEF StreamInv, OnItsWay
    <2> QED  BY <2>2
  <1>12. Stream!Verdict(e) => l = 0
    <2>1. 1 \in DOMAIN ready  BY <1>4
    <2> QED  BY <1>4, <2>1 DEF StreamInv, OnItsWay, Stream!Verdict
  <1>13. CASE IsCall(e)
    <2>1. 1 \in DOMAIN ready /\ ~settled /\ Kept(e) /\ e.index \notin Known
      BY <1>4, <1>13 DEF StreamInv, OnItsWay
    <2>2. PICK n \in Nat : n = Len(heard)  BY DEF StreamInv, HeardOnce
    <2>3. /\ heard' = Append(heard, e) /\ heard' \in Seq(EventSet) /\ DOMAIN heard' = 1..n + 1
          /\ \A k \in 1..n : heard'[k] = heard[k] /\ k \in DOMAIN heard
          /\ heard'[n + 1] = e /\ DOMAIN heard = 1..n
      <3>1. heard \in Seq(EventSet)  BY DEF StreamInv, HeardOnce
      <3>2. heard' = Append(heard, e)  BY <1>5, <1>13, <2>1
      <3> QED  BY <1>4, <2>2, <3>1, <3>2, AppendProperties
    <2>4. Known' = Known \cup {e.index}
      BY <2>3 DEF Known
    <2>5. \A k \in 1..n : heard[k].index # e.index  BY <2>1, <2>3 DEF Known
    <2>6. HeardOnce'
      <3>1. \A k \in 1..n + 1 : IsCall(heard'[k]) /\ Kept(heard'[k])
        BY <1>13, <2>1, <2>3 DEF StreamInv, HeardOnce
      <3>2. \A j, k \in 1..n + 1 : heard'[j].index = heard'[k].index => j = k
        <4> SUFFICES ASSUME NEW j \in 1..n + 1, NEW k \in 1..n + 1, j < k,
                            heard'[j].index = heard'[k].index
                     PROVE  FALSE
          OBVIOUS
        <4>1. j \in 1..n  OBVIOUS
        <4>2. CASE k = n + 1  BY <2>3, <2>5, <4>1, <4>2
        <4>3. CASE k \in 1..n  BY <2>3, <4>1, <4>3 DEF StreamInv, HeardOnce
        <4> QED  BY <4>2, <4>3
      <3>3. PICK h : h = heard'  OBVIOUS
      <3>4. \A k \in 1..n + 1 : IsCall(h[k]) /\ Kept(h[k])'  BY <1>9, <3>1, <3>3
      <3>5. \A j, k \in 1..n + 1 : h[j].index = h[k].index => j = k  BY <3>2, <3>3
      <3> QED  BY <2>3, <3>3, <3>4, <3>5 DEF HeardOnce, IsCall
    <2>7. \A k \in 1..l : IsCall(t[k]) =>
              /\ Kept(t[k]) /\ t[k].index \notin Known /\ t[k].index # e.index
              /\ \A j \in 1..l : IsCall(t[j]) /\ t[j].index = t[k].index => j = k
      <3> SUFFICES ASSUME NEW k \in 1..l, IsCall(t[k])
                   PROVE  /\ Kept(t[k]) /\ t[k].index \notin Known /\ t[k].index # e.index
                          /\ \A j \in 1..l : IsCall(t[j]) /\ t[j].index = t[k].index => j = k
        OBVIOUS
      <3>1. k + 1 \in DOMAIN ready /\ IsCall(ready[k + 1]) /\ k + 1 # 1 /\ t[k] = ready[k + 1]
        BY <1>4
      <3>2. /\ Kept(ready[k + 1]) /\ ready[k + 1].index \notin Known
            /\ \A i \in DOMAIN ready :
                  IsCall(ready[i]) /\ ready[i].index = ready[k + 1].index => i = k + 1
        BY <3>1 DEF StreamInv, OnItsWay
      <3>3. t[k].index # e.index  BY <1>4, <1>13, <2>1, <3>1, <3>2
      <3>4. ASSUME NEW j \in 1..l, IsCall(t[j]), t[j].index = t[k].index  PROVE j = k
        <4>1. j + 1 \in DOMAIN ready /\ t[j] = ready[j + 1]  BY SMTT(30), <1>4
        <4>2. j + 1 = k + 1  BY <3>1, <3>2, <3>4, <4>1
        <4> QED  BY <4>2
      <3> QED  BY <3>1, <3>2, <3>3, <3>4
    <2>8. ~settled'  BY <1>5, <1>13, <2>1 DEF Stream!Verdict, IsCall
    <2>9. OnItsWay'
      <3>1. \A k \in DOMAIN t : IsCall(t[k]) => Kept(t[k])' /\ t[k].index \notin Known'
        BY <1>4, <1>9, <2>4, <2>7
      <3> QED  BY <1>3, <1>4, <1>5, <1>11, <2>7, <2>8, <3>1 DEF OnItsWay, IsCall
    <2>10. CallsIn(ready) = CallsIn(t) \cup {e.index}
      <3>1. \A k \in 2..l + 1 : k - 1 \in 1..l /\ ready[k] = t[k - 1]  BY <1>4
      <3>2. \A k \in 1..l + 1 : k = 1 \/ k \in 2..l + 1  OBVIOUS
      <3>3. \A k \in 1..l : k + 1 \in 1..l + 1  OBVIOUS
      <3>4. 1 \in 1..l + 1  OBVIOUS
      <3>5. CallsIn(ready) \subseteq CallsIn(t) \cup {e.index}
        <4> SUFFICES ASSUME NEW k \in 1..l + 1, IsCall(ready[k]), k # 1
                     PROVE  ready[k].index \in CallsIn(t)
          BY <1>4 DEF CallsIn
        <4>1. k - 1 \in 1..l /\ ready[k] = t[k - 1]  BY <3>1, <3>2
        <4> QED  BY <1>4, <4>1 DEF CallsIn
      <3>6. CallsIn(t) \subseteq CallsIn(ready)  BY <1>4, <3>3 DEF CallsIn, IsCall
      <3>7. e.index \in CallsIn(ready)  BY <1>4, <1>13, <3>4 DEF CallsIn, IsCall
      <3> QED  BY <3>5, <3>6, <3>7
    <2>11. /\ Ended(ready, "completed") <=> Ended(t, "completed")
           /\ Ended(ready, "failed") <=> Ended(t, "failed")
      <3>1. \A k \in 2..l + 1 : k - 1 \in 1..l /\ ready[k] = t[k - 1]  BY <1>4
      <3>2. \A k \in 1..l + 1 : k = 1 \/ k \in 2..l + 1  OBVIOUS
      <3>3. \A k \in 1..l : k + 1 \in 1..l + 1  OBVIOUS
      <3>4. ASSUME NEW v \in {"completed", "failed"}
            PROVE  Ended(ready, v) <=> Ended(t, v)
        <4>1. Ended(ready, v) => Ended(t, v)
          <5>1. ready[1].kind # v  BY <1>4, <1>13 DEF IsCall
          <5> QED  BY <1>4, <3>1, <3>2, <5>1 DEF Ended
        <4>2. Ended(t, v) => Ended(ready, v)  BY <1>4, <3>3 DEF Ended
        <4> QED  BY <4>1, <4>2
      <3> QED  BY <3>4
    <2>12. Known \cup CallsIn(ready) = Known' \cup CallsIn(t)  BY <2>4, <2>10
    <2>13. Gathered'
      BY <1>5, <1>6, <2>1, <2>8, <2>11, <2>12
         DEF StreamInv, Gathered, CallsIn, Ended, IsCall, Stream!server
    <2> QED  BY <1>7, <1>8, <1>10, <2>6, <2>9, <2>13 DEF StreamInv
  <1>14. CASE ~IsCall(e)
    <2>1. heard' = heard /\ Known' = Known  BY <1>5, <1>14 DEF Known
    <2>2. HeardOnce'  BY <1>9, <2>1 DEF StreamInv, HeardOnce, IsCall
    <2>3. \A k \in 1..l : IsCall(t[k]) =>
              /\ Kept(t[k]) /\ t[k].index \notin Known /\ ~settled
              /\ \A j \in 1..l : IsCall(t[j]) /\ t[j].index = t[k].index => j = k
      <3> SUFFICES ASSUME NEW k \in 1..l, IsCall(t[k])
                   PROVE  /\ Kept(t[k]) /\ t[k].index \notin Known /\ ~settled
                          /\ \A j \in 1..l : IsCall(t[j]) /\ t[j].index = t[k].index => j = k
        OBVIOUS
      <3>1. k + 1 \in DOMAIN ready /\ IsCall(ready[k + 1]) /\ t[k] = ready[k + 1]  BY <1>4
      <3>2. /\ Kept(ready[k + 1]) /\ ready[k + 1].index \notin Known /\ ~settled
            /\ \A i \in DOMAIN ready :
                  IsCall(ready[i]) /\ ready[i].index = ready[k + 1].index => i = k + 1
        BY <3>1 DEF StreamInv, OnItsWay
      <3>3. ASSUME NEW j \in 1..l, IsCall(t[j]), t[j].index = t[k].index  PROVE j = k
        <4>1. j + 1 \in DOMAIN ready /\ t[j] = ready[j + 1]  BY <1>4
        <4>2. j + 1 = k + 1  BY <3>1, <3>2, <3>3, <4>1
        <4> QED  BY <4>2
      <3> QED  BY <3>1, <3>2, <3>3
    <2>4. Stream!Verdict(e) => \A k \in 1..l : FALSE  BY <1>12
    <2>5. \A k \in 1..l : IsCall(t[k]) => ~settled'  BY <1>5, <2>3, <2>4
    <2>6. OnItsWay'
      BY <1>3, <1>4, <1>5, <1>9, <1>11, <2>1, <2>3, <2>5 DEF OnItsWay, IsCall
    <2>7. CallsIn(ready) = CallsIn(t)
      <3>1. \A k \in 2..l + 1 : k - 1 \in 1..l /\ ready[k] = t[k - 1]  BY <1>4
      <3>2. \A k \in 1..l + 1 : k = 1 \/ k \in 2..l + 1  OBVIOUS
      <3>3. \A k \in 1..l : k + 1 \in 1..l + 1  OBVIOUS
      <3>4. CallsIn(ready) \subseteq CallsIn(t)
        <4> SUFFICES ASSUME NEW k \in 1..l + 1, IsCall(ready[k])
                     PROVE  ready[k].index \in CallsIn(t)
          BY <1>4 DEF CallsIn
        <4>1. k # 1  BY <1>4, <1>14
        <4>2. k - 1 \in 1..l /\ ready[k] = t[k - 1]  BY <3>1, <3>2, <4>1
        <4> QED  BY <1>4, <4>2 DEF CallsIn
      <3>5. CallsIn(t) \subseteq CallsIn(ready)  BY <1>4, <3>3 DEF CallsIn, IsCall
      <3> QED  BY <3>4, <3>5
    <2>8. /\ Ended(ready, "completed") <=> e.kind = "completed" \/ Ended(t, "completed")
          /\ Ended(ready, "failed") <=> e.kind = "failed" \/ Ended(t, "failed")
      <3>1. \A k \in 2..l + 1 : k - 1 \in 1..l /\ ready[k] = t[k - 1]  BY <1>4
      <3>2. \A k \in 1..l + 1 : k = 1 \/ k \in 2..l + 1  OBVIOUS
      <3>3. \A k \in 1..l : k + 1 \in 1..l + 1  OBVIOUS
      <3>4. 1 \in 1..l + 1  OBVIOUS
      <3>5. ASSUME NEW v \in {"completed", "failed"}
            PROVE  Ended(ready, v) <=> e.kind = v \/ Ended(t, v)
        <4>1. Ended(ready, v) => e.kind = v \/ Ended(t, v)  BY <1>4, <3>1, <3>2 DEF Ended
        <4>2. Ended(t, v) => Ended(ready, v)  BY <1>4, <3>3 DEF Ended
        <4>3. e.kind = v => Ended(ready, v)  BY <1>4, <3>4 DEF Ended
        <4> QED  BY <4>1, <4>2, <4>3
      <3> QED  BY <3>5
    <2>9. Gathered'
      <3> SUFFICES ASSUME round' = "running"  PROVE Gathered'  BY DEF Gathered
      <3>1. ~settled /\ e.kind # "failed"  BY <1>5
      <3>2. settled' \/ Ended(t, "completed") <=> settled \/ Ended(ready, "completed")
        BY <1>5, <2>8, <3>1 DEF Stream!Verdict
      <3> QED
        BY <1>5, <1>6, <2>1, <2>7, <2>8, <3>1, <3>2
           DEF StreamInv, Gathered, CallsIn, Ended, IsCall, Stream!server
    <2> QED  BY <1>7, <1>8, <1>10, <2>2, <2>6, <2>9 DEF StreamInv
  <1> QED  BY <1>13, <1>14

LEMMA StopStep ==
    ASSUME StreamInv, Stream!Stop
    PROVE  StreamInv'
  <1>1. /\ round = "running" /\ ready = <<>> /\ DOMAIN ready = {}
        /\ round' = (IF settled THEN "ok" ELSE "invalid")
        /\ UNCHANGED <<Stream!server, gen, calls, emitted, ready, settled, heard>>
    BY DEF Stream!Stop, Stream!Pulled
  <1>2. CallsIn(ready) = {} /\ ~Ended(ready, "failed")  BY <1>1 DEF CallsIn, Ended
  <1>3. StreamTypes' /\ TableFollows' /\ Stream!Begun' = Stream!Begun
    <2>1. Stream!Begun' = Stream!Begun /\ (Stream!AllSent <=> Stream!AllSent')
      BY <1>1 DEF Stream!server, Stream!Begun, Stream!AllSent
    <2> QED
      BY <1>1, <2>1 DEF StreamInv, StreamTypes, TableFollows, Stream!Unfinished, Stream!server
  <1>4. HeardOnce' /\ OnItsWay'
    <2>1. HeardOnce'  BY <1>1 DEF StreamInv, HeardOnce, Kept, IsCall, Stream!server
    <2>2. OnItsWay'  BY <1>1 DEF StreamInv, OnItsWay
    <2> QED  BY <2>1, <2>2
  <1>5. Gathered'  BY <1>1 DEF Gathered
  <1>6. Stream!SuccessIsWhole'
    <2> SUFFICES ASSUME settled  PROVE Stream!SuccessIsWhole'
      BY <1>1 DEF Stream!SuccessIsWhole
    <2>1. said # "error" /\ (said # "cut" => Known = Stream!Begun)
      BY <1>1, <1>2 DEF StreamInv, Gathered
    <2>2. \A k, l \in DOMAIN heard : heard[k].index = heard[l].index => k = l
      BY DEF StreamInv, HeardOnce
    <2>3. said' = said /\ heard' = heard  BY <1>1 DEF Stream!server
    <2> QED  BY <1>3, <2>1, <2>2, <2>3 DEF Stream!SuccessIsWhole, Known
  <1> QED  BY <1>3, <1>4, <1>5, <1>6 DEF StreamInv

LEMMA HaltStep ==
    ASSUME StreamInv, Stream!Halt \/ Stream!Cancel
    PROVE  StreamInv'
  <1>1. /\ round = "running"
        /\ UNCHANGED <<Stream!server, calls, emitted, settled, heard>>
        /\ \/ round' = "cancelled" /\ ready' = <<>> /\ gen' = "spent"
           \/ UNCHANGED <<round, ready, gen>>
    BY DEF Stream!Halt, Stream!Cancel
  <1>2. Stream!Begun' = Stream!Begun /\ (Stream!AllSent <=> Stream!AllSent') /\ (Stream!Unfinished <=> Stream!Unfinished')
    BY <1>1 DEF Stream!server, Stream!Begun, Stream!AllSent, Stream!Unfinished
  <1>3. StreamTypes'  BY <1>1, <1>2 DEF StreamInv, StreamTypes, Stream!server
  <1>4. TableFollows'  BY <1>1, <1>2 DEF StreamInv, TableFollows, Stream!server
  <1>5. HeardOnce'  BY <1>1 DEF StreamInv, HeardOnce, Kept, IsCall, Stream!server
  <1>6. OnItsWay' /\ Gathered'
    <2>1. CASE round' = "cancelled" /\ ready' = <<>>
      <3>1. <<>> \in Seq(EventSet) /\ DOMAIN <<>> = {}  OBVIOUS
      <3> QED  BY <2>1, <3>1 DEF OnItsWay, Gathered
    <2>2. CASE UNCHANGED <<round, ready, gen>>
      <3>1. OnItsWay'
        BY <1>1, <2>2 DEF StreamInv, OnItsWay, Kept, Known, IsCall, Stream!server
      <3>2. Gathered'
        BY <1>1, <1>2, <2>2
           DEF StreamInv, Gathered, Known, CallsIn, Ended, IsCall, Stream!server
      <3> QED  BY <3>1, <3>2
    <2> QED  BY <1>1, <2>1, <2>2
  <1>7. Stream!SuccessIsWhole'  BY <1>1 DEF Stream!SuccessIsWhole
  <1> QED  BY <1>3, <1>4, <1>5, <1>6, <1>7 DEF StreamInv

(* A round the engine takes for successful has every call of the answer    *)
(* once, and each call it may execute has the arguments the server wrote,  *)
(* under each of the protocols, for any number of calls and retries and    *)
(* wherever the answer ends (providers/, TurnEngine._provider_round).      *)
THEOREM CallsArriveWhole ==
    ASSUME MaxCalls \in Nat PROVE Stream!Spec => []CallsAreWhole
  <1>1. Stream!Init => StreamInv  BY StreamInvInit
  <1>2. StreamInv /\ [Stream!Next]_(Stream!vars) => StreamInv'
    <2> SUFFICES ASSUME StreamInv, [Stream!Next]_(Stream!vars)  PROVE StreamInv'  OBVIOUS
    <2>1. CASE Stream!Open  BY <2>1, RequestOpenStep
    <2>2. CASE Stream!Frame
      <3>1. ASSUME NEW i \in Stream!Index,
                   \/ Stream!Starts(i) \/ Stream!Argues(i)
                   \/ Stream!ResponsesCallDone(i) \/ Stream!AnthropicStop(i)
            PROVE  StreamInv'
        BY <3>1, StartsStep, ArguesStep, ResponsesCallDoneStep, AnthropicStopStep
      <3> QED
        BY <2>2, <3>1, InterruptedStep, BreaksStep, SaysStep, EndsStep, ChatFinishStep,
           ChatUsageStep, ChatDoneStep, ResponsesCompletedStep, AnthropicMessageStopStep DEF Stream!Frame
    <2>3. CASE Stream!Take  BY <2>3, TakeStep
    <2>4. CASE Stream!Stop  BY <2>4, StopStep
    <2>5. CASE Stream!Halt \/ Stream!Cancel  BY <2>5, HaltStep
    <2>6. CASE UNCHANGED Stream!vars
      <3>1. /\ Stream!Begun' = Stream!Begun /\ (Stream!AllSent <=> Stream!AllSent') /\ (Stream!Unfinished <=> Stream!Unfinished')
            /\ UNCHANGED <<Stream!server, calls, emitted, settled, heard, round, ready, gen>>
        BY <2>6 DEF Stream!vars, Stream!server, Stream!Begun, Stream!AllSent, Stream!Unfinished
      <3>2. StreamTypes'  BY <3>1 DEF StreamInv, StreamTypes, Stream!server
      <3>3. TableFollows'  BY <3>1 DEF StreamInv, TableFollows, Stream!server
      <3>4. HeardOnce'  BY <3>1 DEF StreamInv, HeardOnce, Kept, IsCall, Stream!server
      <3>5. OnItsWay'  BY <3>1 DEF StreamInv, OnItsWay, Kept, Known, IsCall, Stream!server
      <3>6. Gathered'
        BY <3>1 DEF StreamInv, Gathered, Known, CallsIn, Ended, IsCall, Stream!server
      <3>7. Stream!SuccessIsWhole'  BY <3>1 DEF StreamInv, Stream!SuccessIsWhole, Stream!server
      <3> QED  BY <3>2, <3>3, <3>4, <3>5, <3>6, <3>7 DEF StreamInv
    <2> QED  BY <2>1, <2>2, <2>3, <2>4, <2>5, <2>6 DEF Stream!Next, Stream!Step
  <1>3. StreamInv => CallsAreWhole
    BY DEF StreamInv, HeardOnce, Kept, CallsAreWhole, Stream!CallsAreWhole, Stream!NoHalfCall
  <1> QED  BY <1>1, <1>2, <1>3, PTL DEF Stream!Spec

----------------------------------------------------------------------------
(* The broker: an accepted answer is what request() returns, entries       *)
(* belong to calls that wait, and the contract of a question is kept.      *)

(* A memory that is used has a state for every id; after shutdown() nobody *)
(* reads it.                                                               *)
TypesInv ==
    /\ call \in [Request -> Call]
    /\ pending \subseteq Request
    /\ ~closed => terminal \in [Id -> Memories]

(* The future of a call that waits holds the answer that was accepted, or, *)
(* if it holds one that was not, the safe one.                             *)
FutureIsAccepted ==
    \A r \in Request :
        /\ call[r].pc \in {"idle", "refused"}
            => call[r].future = Unset /\ call[r].accepted = Unset
        /\ call[r].pc = "waiting" /\ call[r].accepted # Unset
            => call[r].future = call[r].accepted
        /\ call[r].pc = "waiting" /\ call[r].future \in Answer
            => \/ call[r].future = call[r].accepted
               \/ (call[r].future = Safe /\ call[r].accepted = Unset)

BrokerInv ==
    /\ TypesInv
    /\ closed => pending = {}
    /\ FutureIsAccepted
    /\ AcceptedIsReturned
    /\ PendingIsAlive

(* Dropping an entry touches nothing but a future that is not done. *)
LEMMA DroppedIs ==
    ASSUME TypesInv, NEW i \in Id
    PROVE  /\ Dropped(i) \in [Request -> Call]
           /\ \A s \in Request :
                /\ Dropped(i)[s].pc = call[s].pc
                /\ Dropped(i)[s].accepted = call[s].accepted
                /\ Dropped(i)[s].result = call[s].result
                /\ \/ Dropped(i)[s].future = call[s].future
                   \/ /\ s \in pending
                      /\ IdOf[s] = i
                      /\ Dropped(i)[s].future = Gone
                      /\ call[s].future = Unset
  <1> DEFINE d(s) == IF s \in pending /\ IdOf[s] = i /\ call[s].future = Unset
                     THEN [call[s] EXCEPT !.future = Gone] ELSE call[s]
  <1>1. ASSUME NEW s \in Request
        PROVE  /\ d(s) \in Call
               /\ d(s).pc = call[s].pc
               /\ d(s).accepted = call[s].accepted
               /\ d(s).result = call[s].result
               /\ \/ d(s).future = call[s].future
                  \/ /\ s \in pending
                     /\ IdOf[s] = i
                     /\ d(s).future = Gone
                     /\ call[s].future = Unset
    <2>1. call[s] \in Call  BY <1>1 DEF TypesInv
    <2> QED  BY <2>1 DEF Call
  <1>2. Dropped(i) = [s \in Request |-> d(s)]  BY DEF Dropped
  <1> HIDE DEF d
  <1> QED  BY <1>1, <1>2

(* Remembering an id leaves every other id as it was or forgets it. *)
LEMMA RememberKeeps ==
    ASSUME terminal \in [Id -> Memories], NEW i \in Id, NEW state \in Memories,
           Keeps(Remember(Memory, i, state))
    PROVE  /\ terminal' \in [Id -> Memories]
           /\ \A j \in Id \ {i} : terminal'[j] \in {terminal[j], NoState}
  <1> DEFINE queue == IF terminal[i] = NoState THEN Append(order, i) ELSE order
             last == [terminal EXCEPT ![i] = state]
  <1>1. terminal' = last \/ terminal' = [last EXCEPT ![Head(queue)] = NoState]
    BY DEF Keeps, Remember, Memory
  <1>2. last \in [Id -> Memories] /\ \A j \in Id \ {i} : last[j] = terminal[j]
    OBVIOUS
  <1>3. NoState \in Memories  BY DEF Memories
  <1> HIDE DEF queue, last
  <1> QED  BY <1>1, <1>2, <1>3

(* A call that ends leaves the others, their entries and the memory in     *)
(* order.                                                                  *)
LEMMA EndKeepsInv ==
    ASSUME BrokerInv, NEW r \in Request, NEW pc \in {"returned", "aborted"},
           NEW result \in Answer \cup {Unset},
           call[r].pc = "waiting",
           pc = "returned" =>
               result = IF call[r].accepted # Unset THEN call[r].accepted ELSE Safe,
           call' = [Dropped(IdOf[r]) EXCEPT ![r].pc = pc, ![r].result = result],
           pending' = Without(IdOf[r]),
           ~closed => /\ terminal' \in [Id -> Memories]
                      /\ \A j \in Id \ {IdOf[r]} : terminal'[j] \in {terminal[j], NoState},
           UNCHANGED closed
    PROVE  BrokerInv'
  <1> DEFINE i == IdOf[r]
  <1>1. i \in Id  BY BrokerAssumption
  <1>2. TypesInv /\ FutureIsAccepted /\ AcceptedIsReturned /\ PendingIsAlive
    BY DEF BrokerInv
  <1>3. /\ Dropped(i) \in [Request -> Call]
        /\ \A s \in Request :
                /\ Dropped(i)[s].pc = call[s].pc
                /\ Dropped(i)[s].accepted = call[s].accepted
                /\ Dropped(i)[s].result = call[s].result
                /\ \/ Dropped(i)[s].future = call[s].future
                   \/ /\ s \in pending
                      /\ IdOf[s] = i
                      /\ Dropped(i)[s].future = Gone
                      /\ call[s].future = Unset
    BY <1>1, <1>2, DroppedIs
  <1>4. call' = [Dropped(i) EXCEPT ![r] = [Dropped(i)[r] EXCEPT !.pc = pc, !.result = result]]
    BY <1>3
  <1>5. Dropped(i)[r] \in Call  BY <1>3
  <1>6. [Dropped(i)[r] EXCEPT !.pc = pc, !.result = result] \in Call
    BY <1>5 DEF Call
  <1>7. call' \in [Request -> Call]  BY <1>3, <1>4, <1>6
  <1>8. pending' = {s \in pending : IdOf[s] # i}  BY DEF Without
  <1>9. TypesInv'  BY <1>2, <1>7, <1>8 DEF TypesInv
  <1>10. (closed => pending = {})'  BY <1>8 DEF BrokerInv
  <1>11. \A s \in Request \ {r} : call'[s] = Dropped(i)[s]  BY <1>3, <1>4
  <1>12. call'[r].pc = pc /\ call'[r].result = result /\ call'[r].accepted = call[r].accepted
    <2>1. call'[r] = [Dropped(i)[r] EXCEPT !.pc = pc, !.result = result]
      BY <1>3, <1>4
    <2>2. DOMAIN Dropped(i)[r] = {"pc", "future", "token", "due", "result", "accepted"}
      BY <1>5 DEF Call
    <2> QED  BY <1>3, <2>1, <2>2
  <1> HIDE DEF i
  <1>13. FutureIsAccepted'
    <2> SUFFICES ASSUME NEW s \in Request
                 PROVE  /\ call'[s].pc \in {"idle", "refused"}
                             => call'[s].future = Unset /\ call'[s].accepted = Unset
                        /\ call'[s].pc = "waiting" /\ call'[s].accepted # Unset
                             => call'[s].future = call'[s].accepted
                        /\ call'[s].pc = "waiting" /\ call'[s].future \in Answer
                             => \/ call'[s].future = call'[s].accepted
                                \/ (call'[s].future = Safe /\ call'[s].accepted = Unset)
      BY DEF FutureIsAccepted
    <2>1. CASE s = r  BY <2>1, <1>12
    <2>2. CASE s # r
      <3>1. call'[s] = Dropped(i)[s]  BY <2>2, <1>11
      <3>2. CASE Dropped(i)[s].future = call[s].future
        BY <3>1, <3>2, <1>2, <1>3 DEF FutureIsAccepted
      <3>3. CASE /\ s \in pending
                 /\ Dropped(i)[s].future = Gone
                 /\ call[s].future = Unset
        <4>1. call[s].pc = "waiting"  BY <3>3, <1>2 DEF PendingIsAlive
        <4>2. call[s].accepted = Unset
          BY <4>1, <3>3, <1>2 DEF FutureIsAccepted
        <4>3. Gone \notin Answer  BY BrokerAssumption
        <4>4. /\ call'[s].pc = "waiting" /\ call'[s].future = Gone
              /\ call'[s].accepted = Unset
          BY <3>1, <3>3, <4>1, <4>2, <1>3
        <4> QED  BY <4>3, <4>4
      <3> QED  BY <3>2, <3>3, <1>3
    <2> QED  BY <2>1, <2>2
  <1>14. AcceptedIsReturned'
    BY <1>2, <1>3, <1>11, <1>12 DEF AcceptedIsReturned
  <1>15. PendingIsAlive'
    <2>1. \A s \in pending' : s \in pending /\ IdOf[s] # i /\ s \in Request /\ s # r
      BY <1>8, <1>2 DEF TypesInv, i
    <2>2. \A s \in pending' : call'[s].pc = "waiting"
      BY <2>1, <1>2, <1>3, <1>11 DEF PendingIsAlive
    <2>3. \A q, s \in pending' : IdOf[q] = IdOf[s] => q = s
      BY <2>1, <1>2 DEF PendingIsAlive
    <2>4. \A s \in pending' : terminal'[IdOf[s]] = NoState
      <3> SUFFICES ASSUME NEW s \in pending'  PROVE terminal'[IdOf[s]] = NoState
        OBVIOUS
      <3>1. ~closed  BY <2>1 DEF BrokerInv
      <3>2. IdOf[s] \in Id \ {i}  BY <2>1, BrokerAssumption
      <3>3. terminal[IdOf[s]] = NoState  BY <2>1, <1>2 DEF PendingIsAlive
      <3> QED  BY <3>1, <3>2, <3>3 DEF i
    <2> QED  BY <2>2, <2>3, <2>4 DEF PendingIsAlive
  <1> QED  BY <1>9, <1>10, <1>13, <1>14, <1>15 DEF BrokerInv

(* Changing one call to a sound one, with the entries and the memory still *)
(* in order, keeps the invariant.                                          *)
LEMMA SetKeepsInv ==
    ASSUME BrokerInv, NEW r \in Request, NEW c \in Call,
           call' = [call EXCEPT ![r] = c],
           c.pc \in {"idle", "refused"} => c.future = Unset /\ c.accepted = Unset,
           c.pc = "waiting" /\ c.accepted # Unset => c.future = c.accepted,
           c.pc = "waiting" /\ c.future \in Answer
               => c.future = c.accepted \/ (c.future = Safe /\ c.accepted = Unset),
           c.pc = "returned" =>
               c.result = IF c.accepted # Unset THEN c.accepted ELSE Safe,
           pending' \subseteq Request,
           closed' => pending' = {},
           ~closed' => terminal' \in [Id -> Memories],
           \A s \in pending' : s # r => s \in pending,
           r \in pending' => c.pc = "waiting",
           \A p, q \in pending' : IdOf[p] = IdOf[q] => p = q,
           \A q \in pending' : terminal'[IdOf[q]] = NoState
    PROVE  BrokerInv'
  <1>1. TypesInv /\ FutureIsAccepted /\ AcceptedIsReturned /\ PendingIsAlive
    BY DEF BrokerInv
  <1>2. call'[r] = c /\ \A s \in Request \ {r} : call'[s] = call[s]
    BY <1>1 DEF TypesInv
  <1>3. TypesInv'  BY <1>1 DEF TypesInv
  <1>4. FutureIsAccepted'  BY <1>1, <1>2 DEF FutureIsAccepted
  <1>5. AcceptedIsReturned'  BY <1>1, <1>2 DEF AcceptedIsReturned
  <1>6. \A q \in pending' : call'[q].pc = "waiting"
    BY <1>1, <1>2 DEF PendingIsAlive
  <1>7. PendingIsAlive'  BY <1>6 DEF PendingIsAlive
  <1> QED  BY <1>3, <1>4, <1>5, <1>7 DEF BrokerInv

LEMMA AskKeepsInv == ASSUME BrokerInv, NEW r \in Request, Ask(r) PROVE BrokerInv'
  <1> DEFINE refused == closed \/ Pending(IdOf[r]) \/ terminal[IdOf[r]] # NoState
             c == [call[r] EXCEPT !.pc = IF refused THEN "refused" ELSE "waiting"]
  <1>1. /\ TypesInv /\ FutureIsAccepted /\ PendingIsAlive
        /\ closed => pending = {}
    BY DEF BrokerInv
  <1>2. call[r] \in Call /\ call[r].future = Unset /\ call[r].accepted = Unset
    BY <1>1 DEF TypesInv, FutureIsAccepted, Ask
  <1>3. c \in Call /\ c.future = Unset /\ c.accepted = Unset
        /\ c.pc = IF refused THEN "refused" ELSE "waiting"
    BY <1>2 DEF Call
  <1>4. call' = [call EXCEPT ![r] = c]  BY DEF Ask
  <1>5. UNCHANGED <<terminal, closed>>  BY DEF Ask
  <1>6. pending' = IF refused THEN pending ELSE pending \cup {r}  BY DEF Ask
  <1>7. ~refused => /\ ~closed /\ terminal[IdOf[r]] = NoState
                    /\ \A q \in pending : IdOf[q] # IdOf[r]
    BY DEF Pending
  <1>8. Unset \notin Answer  BY BrokerAssumption
  <1>9. r \notin pending  BY <1>1 DEF PendingIsAlive, Ask
  <1> HIDE DEF c, refused
  <1>10. pending' \subseteq Request /\ (closed' => pending' = {})
    BY <1>1, <1>5, <1>6, <1>7 DEF TypesInv
  <1>11. /\ \A p, q \in pending' : IdOf[p] = IdOf[q] => p = q
         /\ \A q \in pending' : terminal'[IdOf[q]] = NoState
    BY <1>1, <1>5, <1>6, <1>7 DEF PendingIsAlive
  <1>12. ~closed' => terminal' \in [Id -> Memories]  BY <1>1, <1>5 DEF TypesInv
  <1>13. \A s \in pending' : s # r => s \in pending  BY <1>6
  <1>14. r \in pending' => c.pc = "waiting"  BY <1>3, <1>6, <1>9
  <1>15. c.pc # "returned"  BY <1>3
  <1> QED
    BY SetKeepsInv, <1>3, <1>4, <1>8, <1>10, <1>11, <1>12, <1>13, <1>14, <1>15

(* The steps that touch one call and neither the entries nor the memory.   *)
LEMMA FlagKeepsInv ==
    ASSUME BrokerInv, NEW r \in Request, call[r].pc = "waiting",
           NEW stopped \in BOOLEAN, NEW passed \in BOOLEAN,
           call' = [call EXCEPT ![r] = [call[r] EXCEPT !.token = stopped, !.due = passed]],
           UNCHANGED <<pending, terminal, closed>>
    PROVE  BrokerInv'
  <1> DEFINE c == [call[r] EXCEPT !.token = stopped, !.due = passed]
  <1>1. /\ TypesInv /\ FutureIsAccepted /\ PendingIsAlive
        /\ closed => pending = {}
    BY DEF BrokerInv
  <1>2. call[r] \in Call  BY <1>1 DEF TypesInv
  <1>3. /\ c \in Call
        /\ c.pc = "waiting"
        /\ c.accepted = call[r].accepted
        /\ c.future = call[r].future
    BY <1>2 DEF Call
  <1>4. call' = [call EXCEPT ![r] = c]  OBVIOUS
  <1> HIDE DEF c
  <1>5. /\ c.accepted # Unset => c.future = c.accepted
        /\ c.future \in Answer
               => c.future = c.accepted \/ (c.future = Safe /\ c.accepted = Unset)
    BY <1>1, <1>3 DEF FutureIsAccepted
  <1>6. /\ pending' \subseteq Request
        /\ closed' => pending' = {}
        /\ ~closed' => terminal' \in [Id -> Memories]
    BY <1>1 DEF TypesInv
  <1>7. /\ \A p, q \in pending' : IdOf[p] = IdOf[q] => p = q
        /\ \A q \in pending' : terminal'[IdOf[q]] = NoState
    BY <1>1 DEF PendingIsAlive
  <1> QED  BY SetKeepsInv, <1>3, <1>4, <1>5, <1>6, <1>7, ZenonT(60)

LEMMA CancelKeepsInv == ASSUME BrokerInv, NEW r \in Request, Cancel(r) PROVE BrokerInv'
  <1>1. call \in [Request -> Call] /\ call[r] \in Call  BY DEF BrokerInv, TypesInv
  <1>2. call[r].due \in BOOLEAN  BY <1>1 DEF Call
  <1>3. call' = [call EXCEPT ![r] = [call[r] EXCEPT !.token = TRUE, !.due = call[r].due]]
    BY <1>1 DEF Cancel, Call
  <1> QED  BY <1>2, <1>3, FlagKeepsInv DEF Cancel

LEMMA ExpireKeepsInv == ASSUME BrokerInv, NEW r \in Request, Expire(r) PROVE BrokerInv'
  <1>1. call \in [Request -> Call] /\ call[r] \in Call  BY DEF BrokerInv, TypesInv
  <1>2. call[r].token \in BOOLEAN  BY <1>1 DEF Call
  <1>3. call' = [call EXCEPT ![r] = [call[r] EXCEPT !.token = call[r].token, !.due = TRUE]]
    BY <1>1 DEF Expire, Call
  <1> QED  BY <1>2, <1>3, FlagKeepsInv DEF Expire

LEMMA RespondKeepsInv ==
    ASSUME BrokerInv, NEW r \in Request, NEW a \in Answer, Respond(r, a)
    PROVE  BrokerInv'
  <1> DEFINE c == [call[r] EXCEPT !.future = a, !.accepted = a]
  <1>1. /\ TypesInv /\ PendingIsAlive
        /\ closed => pending = {}
    BY DEF BrokerInv
  <1>2. call[r] \in Call /\ call[r].pc = "waiting"
    BY <1>1 DEF TypesInv, PendingIsAlive, Respond
  <1>3. c \in Call /\ c.pc = "waiting" /\ c.future = a /\ c.accepted = a
    BY <1>2 DEF Call
  <1>4. call' = [call EXCEPT ![r] = c]  BY <1>1 DEF Respond, TypesInv
  <1>5. UNCHANGED <<pending, terminal, closed>>  BY DEF Respond
  <1> HIDE DEF c
  <1>6. /\ pending' \subseteq Request
        /\ closed' => pending' = {}
        /\ ~closed' => terminal' \in [Id -> Memories]
    BY <1>1, <1>5 DEF TypesInv
  <1>7. /\ \A p, q \in pending' : IdOf[p] = IdOf[q] => p = q
        /\ \A q \in pending' : terminal'[IdOf[q]] = NoState
    BY <1>1, <1>5 DEF PendingIsAlive
  <1> QED  BY SetKeepsInv, <1>3, <1>4, <1>5, <1>6, <1>7

(* Taking the entries of an id away. *)
LEMMA WithoutKeeps ==
    ASSUME TypesInv, PendingIsAlive, NEW i \in Id,
           pending' = Without(i),
           \A j \in Id \ {i} : terminal'[j] \in {terminal[j], NoState}
    PROVE  /\ pending' \subseteq pending
           /\ pending' \subseteq Request
           /\ \A q \in pending' : IdOf[q] # i
           /\ \A p, q \in pending' : IdOf[p] = IdOf[q] => p = q
           /\ \A q \in pending' : terminal'[IdOf[q]] = NoState
  <1>1. pending' = {q \in pending : IdOf[q] # i}  BY DEF Without
  <1>2. \A q \in pending' : IdOf[q] \in Id \ {i} /\ q \in pending
    BY <1>1, BrokerAssumption DEF TypesInv
  <1>3. \A q \in pending' : terminal'[IdOf[q]] = NoState
    BY <1>2 DEF PendingIsAlive
  <1> QED  BY <1>1, <1>2, <1>3 DEF TypesInv, PendingIsAlive

LEMMA RespondLateKeepsInv ==
    ASSUME BrokerInv, NEW r \in Request, RespondLate(r)
    PROVE  BrokerInv'
  <1> DEFINE i == IdOf[r]
  <1>1. /\ TypesInv /\ PendingIsAlive /\ FutureIsAccepted /\ AcceptedIsReturned
        /\ ~closed /\ ~closed'
    BY DEF BrokerInv, RespondLate
  <1>2. call[r] \in Call /\ call[r].pc = "waiting" /\ i \in Id
    BY <1>1, BrokerAssumption DEF TypesInv, PendingIsAlive, RespondLate
  <1>3. pending' = Without(i)  BY DEF RespondLate
  <1>4. terminal \in [Id -> Memories] /\ "expired" \in Memories
    BY <1>1 DEF TypesInv, Memories
  <1> HIDE DEF i
  <1>5. CASE /\ call[r].future = Unset
             /\ call' = [call EXCEPT ![r].future = Safe]
             /\ Keeps(Remember(Memory, i, "expired"))
    <2> DEFINE c == [call[r] EXCEPT !.future = Safe]
    <2>1. /\ terminal' \in [Id -> Memories]
          /\ \A j \in Id \ {i} : terminal'[j] \in {terminal[j], NoState}
      BY <1>2, <1>4, <1>5, RememberKeeps
    <2>2. /\ pending' \subseteq Request
          /\ \A s \in pending' : s # r => s \in pending
          /\ \A p, q \in pending' : IdOf[p] = IdOf[q] => p = q
          /\ \A q \in pending' : terminal'[IdOf[q]] = NoState
      BY <1>1, <1>2, <1>3, <2>1, WithoutKeeps
    <2>3. Safe \in Answer /\ Unset \notin Answer  BY BrokerAssumption
    <2>4. call[r].accepted = Unset
      BY <1>1, <1>2, <1>5 DEF FutureIsAccepted
    <2>5. /\ c \in Call
          /\ c.pc = "waiting" /\ c.future = Safe /\ c.accepted = Unset
      BY <1>2, <2>3, <2>4 DEF Call
    <2>6. call' = [call EXCEPT ![r] = c]  BY <1>1, <1>5 DEF TypesInv
    <2> HIDE DEF c
    <2> QED  BY SetKeepsInv, <1>1, <2>1, <2>2, <2>5, <2>6
  <1>6. CASE UNCHANGED <<call, terminal, order>>
    <2>1. /\ pending' \subseteq Request
          /\ pending' \subseteq pending
          /\ \A p, q \in pending' : IdOf[p] = IdOf[q] => p = q
          /\ \A q \in pending' : terminal'[IdOf[q]] = NoState
      BY <1>1, <1>2, <1>3, <1>6, WithoutKeeps
    <2>2. PendingIsAlive'
      BY <1>1, <1>6, <2>1 DEF PendingIsAlive
    <2>3. TypesInv'  BY <1>1, <1>6, <2>1 DEF TypesInv
    <2>4. FutureIsAccepted' /\ AcceptedIsReturned'
      BY <1>1, <1>6 DEF FutureIsAccepted, AcceptedIsReturned
    <2> QED  BY <1>1, <2>2, <2>3, <2>4 DEF BrokerInv
  <1> QED  BY <1>5, <1>6 DEF RespondLate, i

(* What finally does with the entry and the memory. *)
LEMMA FinallyKeeps ==
    ASSUME BrokerInv, NEW r \in Request, Finally(r), UNCHANGED closed
    PROVE  ~closed =>
              /\ terminal' \in [Id -> Memories]
              /\ \A j \in Id \ {IdOf[r]} : terminal'[j] \in {terminal[j], NoState}
  <1> SUFFICES ASSUME ~closed
               PROVE  /\ terminal' \in [Id -> Memories]
                      /\ \A j \in Id \ {IdOf[r]} : terminal'[j] \in {terminal[j], NoState}
    OBVIOUS
  <1>1. IdOf[r] \in Id /\ "resolved" \in Memories
    BY BrokerAssumption DEF Memories
  <1>2. terminal \in [Id -> Memories]  BY DEF BrokerInv, TypesInv
  <1>3. CASE Keeps(Remember(Memory, IdOf[r], "resolved"))
    BY <1>1, <1>2, <1>3, RememberKeeps
  <1>4. CASE UNCHANGED <<terminal, order>>  BY <1>2, <1>4
  <1> QED  BY <1>3, <1>4 DEF Finally

(* The future of a call that waits is the accepted answer or the safe one. *)
LEMMA FutureIsAnswer ==
    ASSUME BrokerInv, NEW r \in Request, call[r].pc = "waiting"
    PROVE  /\ call[r].future \in Answer =>
                call[r].future =
                    IF call[r].accepted # Unset THEN call[r].accepted ELSE Safe
           /\ call[r].future \in {Unset, Gone} => call[r].accepted = Unset
  <1>1. TypesInv /\ FutureIsAccepted  BY DEF BrokerInv
  <1>2. call[r].accepted \in Answer \cup {Unset}  BY <1>1 DEF TypesInv, Call
  <1>3. Unset \notin Answer /\ Gone \notin Answer  BY BrokerAssumption
  <1> QED  BY <1>1, <1>2, <1>3 DEF FutureIsAccepted

LEMMA ReturnAnswerKeepsInv ==
    ASSUME BrokerInv, NEW r \in Request, ReturnAnswer(r) PROVE BrokerInv'
  <1>1. /\ call[r].pc = "waiting" /\ call[r].future \in Answer /\ UNCHANGED closed
        /\ call' = [Dropped(IdOf[r]) EXCEPT ![r].pc = "returned", ![r].result = call[r].future]
        /\ Finally(r)
    BY DEF ReturnAnswer, Returns
  <1>2. call[r].future = IF call[r].accepted # Unset THEN call[r].accepted ELSE Safe
    BY <1>1, FutureIsAnswer
  <1>3. ~closed => /\ terminal' \in [Id -> Memories]
                   /\ \A j \in Id \ {IdOf[r]} : terminal'[j] \in {terminal[j], NoState}
    BY <1>1, FinallyKeeps
  <1>4. pending' = Without(IdOf[r])  BY <1>1 DEF Finally
  <1> QED  BY <1>1, <1>2, <1>3, <1>4, EndKeepsInv

LEMMA ReturnSafeKeepsInv ==
    ASSUME BrokerInv, NEW r \in Request, ReturnSafe(r) PROVE BrokerInv'
  <1> DEFINE state == IF call[r].token THEN "cancelled" ELSE "expired"
  <1>1. /\ call[r].pc = "waiting" /\ call[r].future = Unset /\ UNCHANGED closed
        /\ call' = [Dropped(IdOf[r]) EXCEPT ![r].pc = "returned", ![r].result = Safe]
        /\ pending' = Without(IdOf[r])
        /\ Keeps(Remember(Memory, IdOf[r], state))
    BY DEF ReturnSafe, Returns
  <1>2. call[r].accepted = Unset  BY <1>1, FutureIsAnswer
  <1>3. IdOf[r] \in Id /\ Safe \in Answer  BY BrokerAssumption
  <1>4. state \in Memories  BY DEF Memories
  <1> HIDE DEF state
  <1>5. ~closed => /\ terminal' \in [Id -> Memories]
                   /\ \A j \in Id \ {IdOf[r]} : terminal'[j] \in {terminal[j], NoState}
    <2>1. ~closed => terminal \in [Id -> Memories]  BY DEF BrokerInv, TypesInv
    <2> QED  BY <2>1, <1>1, <1>3, <1>4, RememberKeeps
  <1> QED  BY <1>1, <1>2, <1>3, <1>5, EndKeepsInv

LEMMA AbortKeepsInv ==
    ASSUME BrokerInv, NEW r \in Request, call[r].pc = "waiting",
           Aborts(r), UNCHANGED closed
    PROVE  BrokerInv'
  <1>1. TypesInv /\ IdOf[r] \in Id  BY BrokerAssumption DEF BrokerInv
  <1>2. /\ Dropped(IdOf[r]) \in [Request -> Call]
        /\ Dropped(IdOf[r])[r].result = call[r].result
    BY <1>1, DroppedIs
  <1>3. Dropped(IdOf[r])[r] \in Call /\ call[r] \in Call
    BY <1>1, <1>2 DEF TypesInv
  <1>4. call' = [Dropped(IdOf[r]) EXCEPT ![r].pc = "aborted"]  BY DEF Aborts
  <1>5. [Dropped(IdOf[r])[r] EXCEPT !.pc = "aborted"]
            = [Dropped(IdOf[r])[r] EXCEPT !.pc = "aborted", !.result = call[r].result]
    BY <1>2, <1>3 DEF Call
  <1>6. call' = [Dropped(IdOf[r]) EXCEPT ![r].pc = "aborted", ![r].result = call[r].result]
    BY <1>2, <1>4, <1>5
  <1>7. call[r].result \in Answer \cup {Unset}  BY <1>3 DEF Call
  <1>8. pending' = Without(IdOf[r]) /\ Finally(r)  BY DEF Aborts, Finally
  <1>9. ~closed => /\ terminal' \in [Id -> Memories]
                   /\ \A j \in Id \ {IdOf[r]} : terminal'[j] \in {terminal[j], NoState}
    BY <1>8, FinallyKeeps
  <1> QED  BY <1>6, <1>7, <1>8, <1>9, EndKeepsInv

LEMMA ShutdownKeepsInv == ASSUME BrokerInv, Shutdown PROVE BrokerInv'
  <1> DEFINE d(r) == IF r \in pending /\ call[r].future = Unset
                     THEN [call[r] EXCEPT !.future = Safe] ELSE call[r]
  <1>1. TypesInv /\ FutureIsAccepted /\ AcceptedIsReturned /\ PendingIsAlive
    BY DEF BrokerInv
  <1>2. call' = [r \in Request |-> d(r)] /\ pending' = {} /\ closed'
    BY DEF Shutdown
  <1>3. ASSUME NEW r \in Request
        PROVE  /\ d(r) \in Call
               /\ d(r).pc = call[r].pc
               /\ d(r).accepted = call[r].accepted
               /\ d(r).result = call[r].result
               /\ \/ d(r).future = call[r].future
                  \/ /\ call[r].pc = "waiting"
                     /\ d(r).future = Safe
                     /\ call[r].accepted = Unset
    <2>1. call[r] \in Call /\ Safe \in Answer  BY <1>1, BrokerAssumption DEF TypesInv
    <2>2. r \in pending /\ call[r].future = Unset
              => call[r].pc = "waiting" /\ call[r].accepted = Unset
      BY <1>1, FutureIsAnswer DEF PendingIsAlive
    <2> QED  BY <2>1, <2>2 DEF Call
  <1> HIDE DEF d
  <1>4. TypesInv'  BY <1>2, <1>3 DEF TypesInv
  <1>5. FutureIsAccepted'  BY <1>1, <1>2, <1>3 DEF FutureIsAccepted
  <1>6. AcceptedIsReturned'  BY <1>1, <1>2, <1>3 DEF AcceptedIsReturned
  <1>7. PendingIsAlive'  BY <1>2 DEF PendingIsAlive
  <1> QED  BY <1>2, <1>4, <1>5, <1>6, <1>7 DEF BrokerInv

LEMMA InitInv == Init => BrokerInv
  <1> SUFFICES ASSUME Init PROVE BrokerInv
    OBVIOUS
  <1>1. NewCall \in Call  BY DEF NewCall, Call
  <1>2. TypesInv  BY <1>1 DEF Init, TypesInv, Memories
  <1>3. FutureIsAccepted /\ AcceptedIsReturned /\ PendingIsAlive
    BY DEF Init, NewCall, FutureIsAccepted, AcceptedIsReturned, PendingIsAlive
  <1> QED  BY <1>2, <1>3 DEF BrokerInv, Init

LEMMA NextInv == BrokerInv /\ [Next]_vars => BrokerInv'
  <1> SUFFICES ASSUME BrokerInv, [Next]_vars PROVE BrokerInv'
    OBVIOUS
  <1>1. CASE Shutdown  BY <1>1, ShutdownKeepsInv
  <1>2. ASSUME NEW r \in Request, Ask(r) PROVE BrokerInv'
    BY <1>2, AskKeepsInv
  <1>3. ASSUME NEW r \in Request, Cancel(r) PROVE BrokerInv'
    BY <1>3, CancelKeepsInv
  <1>4. ASSUME NEW r \in Request, Expire(r) PROVE BrokerInv'
    BY <1>4, ExpireKeepsInv
  <1>5. ASSUME NEW r \in Request, Resume(r) PROVE BrokerInv'
    BY <1>5, ReturnAnswerKeepsInv, ReturnSafeKeepsInv, AbortKeepsInv
    DEF Resume, RaiseGone, Aborts
  <1>6. ASSUME NEW r \in Request, AbortCall(r) PROVE BrokerInv'
    BY <1>6, AbortKeepsInv DEF AbortCall, Aborts
  <1>7. ASSUME NEW r \in Request, RespondLate(r) PROVE BrokerInv'
    BY <1>7, RespondLateKeepsInv
  <1>8. ASSUME NEW r \in Request, NEW a \in Answer, Respond(r, a) PROVE BrokerInv'
    BY <1>8, RespondKeepsInv
  <1>9. CASE UNCHANGED vars
    BY <1>9 DEF vars, BrokerInv, TypesInv, FutureIsAccepted, AcceptedIsReturned,
                PendingIsAlive
  <1> QED  BY <1>1, <1>2, <1>3, <1>4, <1>5, <1>6, <1>7, <1>8, <1>9 DEF Next

(* BrokerInv is an invariant of the broker. *)
THEOREM BrokerInvariant == Spec => []BrokerInv
  <1>1. Init => BrokerInv  BY InitInv
  <1>2. BrokerInv /\ [Next]_vars => BrokerInv'  BY NextInv
  <1> QED  BY <1>1, <1>2, PTL DEF Spec

(* Whoever was told that an answer was accepted (respond(), line 124) sees *)
(* request() return it, for any number of calls, ids and answers.          *)
THEOREM AcceptedAnswersReturn == Spec => []AcceptedIsReturned
  <1>1. BrokerInv => AcceptedIsReturned  BY DEF BrokerInv
  <1> QED  BY <1>1, BrokerInvariant, PTL

(* No entry of _pending outlives its call, and no id is pending twice or   *)
(* pending and remembered at once, whatever ids the calls are made with.   *)
THEOREM EntriesAreAlive == Spec => []PendingIsAlive
  <1>1. BrokerInv => PendingIsAlive  BY DEF BrokerInv
  <1> QED  BY <1>1, BrokerInvariant, PTL

(* A call that changes the way the contract says, while the others keep    *)
(* their state, their answer and their result.                             *)
LEMMA QuestionMoves ==
    ASSUME TypesInv, NEW r \in Request, NEW q,
           [phase |-> PhaseOf(call'[r]), with |-> AnswerOf(call'[r])] = q,
           \A s \in Request \ {r} :
               /\ call'[s].pc = call[s].pc
               /\ call'[s].accepted = call[s].accepted
               /\ call'[s].result = call[s].result
    PROVE  question' = [question EXCEPT ![r] = q]
  <1>1. \A s \in Request \ {r} :
            /\ PhaseOf(call'[s]) = PhaseOf(call[s])
            /\ AnswerOf(call'[s]) = AnswerOf(call[s])
    BY DEF PhaseOf, AnswerOf
  <1> QED  BY <1>1 DEF question

LEMMA QuestionKept ==
    ASSUME \A s \in Request :
               /\ call'[s].pc = call[s].pc
               /\ call'[s].accepted = call[s].accepted
               /\ call'[s].result = call[s].result
    PROVE  UNCHANGED question
  <1>1. \A s \in Request :
            /\ PhaseOf(call'[s]) = PhaseOf(call[s])
            /\ AnswerOf(call'[s]) = AnswerOf(call[s])
    BY DEF PhaseOf, AnswerOf
  <1> QED  BY <1>1 DEF question

(* The end of a call concludes its question. *)
LEMMA EndConcludes ==
    ASSUME TypesInv, NEW r \in Request, call[r].pc = "waiting",
           NEW pc \in {"returned", "aborted"}, NEW result \in Answer \cup {Unset},
           call' = [Dropped(IdOf[r]) EXCEPT ![r].pc = pc, ![r].result = result],
           pc = "returned" =>
               result = IF call[r].accepted # Unset THEN call[r].accepted ELSE Safe
    PROVE  Contract!Conclude(r)
  <1> DEFINE d == Dropped(IdOf[r])
  <1>1. IdOf[r] \in Id  BY BrokerAssumption
  <1>2. /\ d \in [Request -> Call]
        /\ \A s \in Request : /\ d[s].pc = call[s].pc
                              /\ d[s].accepted = call[s].accepted
                              /\ d[s].result = call[s].result
    BY <1>1, DroppedIs
  <1> HIDE DEF d
  <1>3. d[r] \in Call /\ call' = [d EXCEPT ![r].pc = pc, ![r].result = result]
    BY <1>2 DEF d
  <1>4. /\ call'[r].pc = pc
        /\ call'[r].result = result
        /\ call'[r].accepted = call[r].accepted
    <2>1. call'[r] = [d[r] EXCEPT !.pc = pc, !.result = result]  BY <1>2, <1>3
    <2>2. call'[r].pc = pc /\ call'[r].result = result  BY <1>3, <2>1 DEF Call
    <2>3. call'[r].accepted = d[r].accepted  BY <1>3, <2>1 DEF Call
    <2> QED  BY <1>2, <2>2, <2>3
  <1>5. \A s \in Request \ {r} : call'[s] = d[s]  BY <1>2, <1>3
  <1> DEFINE answer == IF call[r].accepted = Unset THEN Safe ELSE call[r].accepted
  <1>6. /\ question[r].phase \in {"open", "accepted"}
        /\ question[r].with = answer
    BY DEF question, PhaseOf, AnswerOf
  <1>7. PhaseOf(call'[r]) = "over" /\ AnswerOf(call'[r]) = answer
    BY <1>4 DEF PhaseOf, AnswerOf
  <1>8. question' = [question EXCEPT ![r] = [phase |-> "over", with |-> answer]]
    <2>1. [phase |-> PhaseOf(call'[r]), with |-> AnswerOf(call'[r])]
              = [phase |-> "over", with |-> answer]
      BY <1>7
    <2>2. \A s \in Request \ {r} : /\ call'[s].pc = call[s].pc
                                   /\ call'[s].accepted = call[s].accepted
                                   /\ call'[s].result = call[s].result
      BY <1>2, <1>5
    <2> HIDE DEF answer
    <2> QED  BY <2>1, <2>2, QuestionMoves
  <1> QED  BY <1>6, <1>8 DEF Contract!Conclude, Contract!Over

(* Asking opens the question, or leaves it as it was. *)
LEMMA AskOpens ==
    ASSUME BrokerInv, NEW r \in Request, Ask(r)
    PROVE  Contract!Ask(r) \/ UNCHANGED question
  <1>1. TypesInv /\ FutureIsAccepted  BY DEF BrokerInv
  <1>2. call[r] \in Call /\ call[r].pc = "idle" /\ call[r].accepted = Unset
    BY <1>1 DEF Ask, TypesInv, FutureIsAccepted
  <1>3. PICK pc \in {"refused", "waiting"} : call' = [call EXCEPT ![r].pc = pc]
    BY DEF Ask
  <1>4. call' = [call EXCEPT ![r] = [call[r] EXCEPT !.pc = pc]]
    BY <1>3
  <1>5. /\ call'[r].pc = pc
        /\ call'[r].accepted = Unset
        /\ \A s \in Request \ {r} : call'[s] = call[s]
    <2>1. call'[r] = [call[r] EXCEPT !.pc = pc]  BY <1>1, <1>4 DEF TypesInv
    <2>2. call'[r].pc = pc  BY <1>2, <2>1 DEF Call
    <2>3. call'[r].accepted = Unset  BY <1>2, <2>1 DEF Call
    <2>4. \A s \in Request \ {r} : call'[s] = call[s]  BY <1>1, <1>4 DEF TypesInv
    <2> QED  BY <2>2, <2>3, <2>4
  <1>6. question[r] = [phase |-> "idle", with |-> Safe]
    BY <1>2 DEF question, PhaseOf, AnswerOf
  <1>7. \A q : [phase |-> PhaseOf(call'[r]), with |-> AnswerOf(call'[r])] = q
            => question' = [question EXCEPT ![r] = q]
    BY <1>1, <1>5, QuestionMoves
  <1>8. CASE pc = "waiting"
    <2>1. [phase |-> PhaseOf(call'[r]), with |-> AnswerOf(call'[r])]
              = [phase |-> "open", with |-> Safe]
      BY <1>5, <1>8 DEF PhaseOf, AnswerOf
    <2>2. question' = [question EXCEPT ![r] = [phase |-> "open", with |-> Safe]]
      BY <2>1, <1>7
    <2> QED  BY <2>2, <1>6 DEF Contract!Ask, Contract!Open
  <1>9. CASE pc = "refused"
    <2>1. [phase |-> PhaseOf(call'[r]), with |-> AnswerOf(call'[r])]
              = [phase |-> "idle", with |-> Safe]
      BY <1>5, <1>9 DEF PhaseOf, AnswerOf
    <2>2. question' = [question EXCEPT ![r] = [phase |-> "idle", with |-> Safe]]
      BY <2>1, <1>7
    <2> QED  BY <2>2, <1>6 DEF question
  <1> QED  BY <1>8, <1>9

(* An answer that respond() accepts is accepted once. *)
LEMMA RespondAccepts ==
    ASSUME BrokerInv, NEW r \in Request, NEW a \in Answer, Respond(r, a)
    PROVE  Contract!Accept(r, a)
  <1> DEFINE c == [call[r] EXCEPT !.future = a, !.accepted = a]
  <1>1. TypesInv /\ PendingIsAlive  BY DEF BrokerInv
  <1>2. call[r] \in Call /\ call[r].pc = "waiting" /\ call[r].future = Unset
    BY <1>1 DEF TypesInv, PendingIsAlive, Respond
  <1>3. call[r].accepted = Unset  BY <1>2, FutureIsAnswer
  <1>4. c.pc = "waiting" /\ c.accepted = a  BY <1>2 DEF Call
  <1>5. call' = [call EXCEPT ![r] = c]  BY <1>1 DEF Respond, TypesInv
  <1> HIDE DEF c
  <1>6. call'[r] = c /\ \A s \in Request \ {r} : call'[s] = call[s]
    BY <1>1, <1>5 DEF TypesInv
  <1>7. a # Unset  BY BrokerAssumption
  <1>8. [phase |-> PhaseOf(call'[r]), with |-> AnswerOf(call'[r])]
            = [phase |-> "accepted", with |-> a]
    BY <1>4, <1>6, <1>7 DEF PhaseOf, AnswerOf
  <1>9. question[r] = [phase |-> "open", with |-> Safe]
    BY <1>2, <1>3 DEF question, PhaseOf, AnswerOf
  <1>10. question' = [question EXCEPT ![r] = [phase |-> "accepted", with |-> a]]
    BY <1>1, <1>6, <1>8, QuestionMoves
  <1> QED  BY <1>9, <1>10 DEF Contract!Accept, Contract!Open, Contract!Accepted

(* Each way for a call to end concludes its question. *)
LEMMA ResumeConcludes ==
    ASSUME BrokerInv, NEW r \in Request, Resume(r) \/ AbortCall(r)
    PROVE  Contract!Conclude(r)
  <1>1. TypesInv  BY DEF BrokerInv
  <1>2. CASE ReturnAnswer(r)
    <2>1. /\ call[r].pc = "waiting" /\ call[r].future \in Answer
          /\ call' = [Dropped(IdOf[r]) EXCEPT ![r].pc = "returned", ![r].result = call[r].future]
      BY <1>2 DEF ReturnAnswer, Returns
    <2>2. call[r].future = IF call[r].accepted # Unset THEN call[r].accepted ELSE Safe
      BY <2>1, FutureIsAnswer
    <2> QED  BY <1>1, <2>1, <2>2, EndConcludes
  <1>3. CASE ReturnSafe(r)
    <2>1. /\ call[r].pc = "waiting" /\ call[r].future = Unset
          /\ call' = [Dropped(IdOf[r]) EXCEPT ![r].pc = "returned", ![r].result = Safe]
      BY <1>3 DEF ReturnSafe, Returns
    <2>2. call[r].accepted = Unset  BY <2>1, FutureIsAnswer
    <2>3. Safe \in Answer  BY BrokerAssumption
    <2> QED  BY <1>1, <2>1, <2>2, <2>3, EndConcludes
  <1>4. CASE RaiseGone(r) \/ AbortCall(r)
    <2>1. call[r].pc = "waiting" /\ call' = [Dropped(IdOf[r]) EXCEPT ![r].pc = "aborted"]
      BY <1>4 DEF RaiseGone, AbortCall, Aborts
    <2>2. IdOf[r] \in Id  BY BrokerAssumption
    <2>3. /\ Dropped(IdOf[r]) \in [Request -> Call]
          /\ Dropped(IdOf[r])[r].result = call[r].result
      BY <1>1, <2>2, DroppedIs
    <2>4. Dropped(IdOf[r])[r] \in Call  BY <2>3
    <2>5. [Dropped(IdOf[r])[r] EXCEPT !.pc = "aborted"]
              = [Dropped(IdOf[r])[r] EXCEPT !.pc = "aborted", !.result = call[r].result]
      BY <2>3, <2>4 DEF Call
    <2>6. call' = [Dropped(IdOf[r]) EXCEPT ![r].pc = "aborted", ![r].result = call[r].result]
      BY <2>1, <2>3, <2>5
    <2>7. call[r].result \in Answer \cup {Unset}  BY <1>1 DEF TypesInv, Call
    <2> QED  BY <1>1, <2>1, <2>6, <2>7, EndConcludes
  <1> QED  BY <1>2, <1>3, <1>4 DEF Resume

LEMMA StepRefines ==
    ASSUME BrokerInv, [Next]_vars
    PROVE  [Contract!ContractNext]_question
  <1>1. TypesInv  BY DEF BrokerInv
  <1>2. CASE Shutdown
    <2>1. \A s \in Request : /\ call'[s].pc = call[s].pc
                             /\ call'[s].accepted = call[s].accepted
                             /\ call'[s].result = call[s].result
      <3> SUFFICES ASSUME NEW s \in Request
                   PROVE  /\ call'[s].pc = call[s].pc
                          /\ call'[s].accepted = call[s].accepted
                          /\ call'[s].result = call[s].result
        OBVIOUS
      <3>1. call[s] \in Call  BY <1>1 DEF TypesInv
      <3>2. call'[s] = call[s] \/ call'[s] = [call[s] EXCEPT !.future = Safe]
        BY <1>2 DEF Shutdown
      <3> QED  BY <3>1, <3>2 DEF Call
    <2> QED  BY <2>1, QuestionKept
  <1>3. ASSUME NEW r \in Request, Ask(r) PROVE [Contract!ContractNext]_question
    BY <1>3, AskOpens DEF Contract!ContractNext
  <1>4. ASSUME NEW r \in Request, Cancel(r) \/ Expire(r) \/ RespondLate(r)
        PROVE  [Contract!ContractNext]_question
    <2>1. \/ call' = [call EXCEPT ![r].token = TRUE]
          \/ call' = [call EXCEPT ![r].due = TRUE]
          \/ call' = [call EXCEPT ![r].future = Safe]
          \/ call' = call
      BY <1>4 DEF Cancel, Expire, RespondLate
    <2>2. call[r] \in Call  BY <1>1 DEF TypesInv
    <2>3. \A s \in Request \ {r} : call'[s] = call[s]
      BY <1>1, <2>1 DEF TypesInv
    <2>4. /\ call'[r].pc = call[r].pc
          /\ call'[r].accepted = call[r].accepted
          /\ call'[r].result = call[r].result
      BY <1>1, <2>1, <2>2 DEF TypesInv, Call
    <2> QED  BY <2>3, <2>4, QuestionKept
  <1>5. ASSUME NEW r \in Request, Resume(r) \/ AbortCall(r)
        PROVE  [Contract!ContractNext]_question
    BY <1>5, ResumeConcludes DEF Contract!ContractNext
  <1>6. ASSUME NEW r \in Request, NEW a \in Answer, Respond(r, a)
        PROVE  [Contract!ContractNext]_question
    BY <1>6, RespondAccepts DEF Contract!ContractNext
  <1>7. CASE UNCHANGED vars
    BY <1>7, QuestionKept DEF vars
  <1> QED  BY <1>2, <1>3, <1>4, <1>5, <1>6, <1>7 DEF Next

(* The broker implements the contract of a question: one accepted answer   *)
(* at most, and it is what the question ends with; otherwise the safe one. *)
THEOREM BrokerImplementsContract == Spec => ImplementsContract
  <1>1. Init => Contract!ContractInit
    BY DEF Init, NewCall, question, PhaseOf, AnswerOf, Contract!ContractInit
  <1>2. BrokerInv /\ [Next]_vars => [Contract!ContractNext]_(Contract!contractVars)
    BY StepRefines DEF Contract!contractVars
  <1> QED
    BY <1>1, <1>2, BrokerInvariant, PTL
    DEF Spec, ImplementsContract, Contract!ContractSpec

----------------------------------------------------------------------------
(* The operators of Selections, seen through the instance.                 *)
LEMMA ContextTurns ==
    ASSUME NEW h  PROVE Context!Turns(h) = Cardinality(Context!Starts(h))
  BY DEF Context!Turns, Context!Cardinality, Cardinality

LEMMA ContextNth == ASSUME NEW S, NEW n  PROVE Context!Nth(S, n) = Nth(S, n)
  <1>1. \A i : Context!Rank(S, i) = Rank(S, i)
    BY DEF Context!Rank, Rank, Context!Cardinality, Cardinality
  <1> QED  BY <1>1 DEF Context!Nth, Nth

(* What a request is asked with: a history whose tool results follow their *)
(* asked, and whose asked have their results, within their turns.          *)
ContextCall == Nat \X Nat \X Nat
ContextMessage == [role : {"user", "assistant", "tool", "summary"}, turn : Nat,
                   calls : SUBSET ContextCall]
Together(h, j, k) == \A i \in DOMAIN h : j < i /\ i <= k => ~Context!User(h[i])
InLastTurn(h, k) == \A i \in DOMAIN h : k < i => ~Context!User(h[i])
CalledAt(h, k) == \E j \in DOMAIN h : /\ j < k /\ h[j].role = "assistant"
                                      /\ h[k].calls \subseteq h[j].calls /\ Together(h, j, k)
ResultAt(h, k, c) == \E j \in DOMAIN h : /\ k < j /\ h[j].role = "tool" /\ c \in h[j].calls
                                         /\ Together(h, k, j)
Between(h, k) == k = 1 \/ k = Len(h) + 1 \/ (k \in DOMAIN h /\ Context!User(h[k]))
Followed(h) == \A k \in DOMAIN h : h[k].role = "tool" => h[k].calls # {} /\ CalledAt(h, k)
Answers(h, open, now, ended) ==
    \A k \in DOMAIN h : h[k].role = "assistant" => \A c \in h[k].calls :
        \/ ResultAt(h, k, c) \/ h[k].turn \in ended
        \/ c \in open /\ h[k].turn = now /\ InLastTurn(h, k)
Sound(h, ended) == Followed(h) /\ Answers(h, {}, 0, ended)
Prompting(h, now) == \E k \in DOMAIN h : Context!User(h[k]) /\ h[k].turn = now /\ InLastTurn(h, k)
Owed == {due[k] : k \in DOMAIN due}

ContextTypes ==
    /\ preserve \in 0..2 /\ latest \in Nat /\ rounds \in Nat
    /\ stage \in {"idle", "loop", "asked", "tools"}
    /\ session \in Seq(ContextMessage) /\ history \in Seq(ContextMessage)
    /\ request \in Seq(ContextMessage)
    /\ due \in Seq(ContextCall)

(* While asked are executed the last answer's are owed, and only then; and *)
(* the prompt of the running turn is the last one in its history.          *)
ContextInv ==
    /\ ContextTypes
    /\ Sound(session, short) /\ Sound(request, short)
    /\ Followed(history) /\ Answers(history, Owed, latest, short)
    /\ \A c \in Owed : \E k \in DOMAIN history :
          history[k].role = "assistant" /\ c \in history[k].calls /\ InLastTurn(history, k)
    /\ stage = "tools" <=> due # <<>>
    /\ stage = "asked" => request = history
    /\ stage # "idle" /\ preserve > 0 => Prompting(history, latest)

(* Whole turns can be ended out of a history, and put together.              *)
LEMMA TurnsCut ==
    ASSUME NEW h \in Seq(ContextMessage), NEW ended, Sound(h, ended),
           NEW a \in Int, NEW b \in Int, 1 <= a, a - 1 <= b, b <= Len(h),
           Between(h, a), Between(h, b + 1)
    PROVE  /\ SubSeq(h, a, b) \in Seq(ContextMessage)
           /\ Len(SubSeq(h, a, b)) = b - a + 1
           /\ \A i \in 1..(b - a + 1) : SubSeq(h, a, b)[i] = h[a - 1 + i]
           /\ Sound(SubSeq(h, a, b), ended)
  <1>0. /\ Len(h) \in Nat /\ DOMAIN h = 1..Len(h)
        /\ a \in Int /\ b \in Int /\ 1 <= a /\ a - 1 <= b /\ b <= Len(h)
    OBVIOUS
  <1>1. PICK q : q = SubSeq(h, a, b)  OBVIOUS
  <1>2. /\ q \in Seq(ContextMessage) /\ Len(q) = b - a + 1 /\ DOMAIN q = 1..(b - a + 1)
        /\ \A i \in 1..(b - a + 1) : q[i] = h[a - 1 + i]
    <2>1. \A i \in a..b : h[i] \in ContextMessage  BY <1>0
    <2>2. q \in Seq(ContextMessage)  BY <1>1, <2>1, SubSeqProperties, <1>0
    <2>3. Len(q) = b - a + 1
      <3>1. CASE a <= b  BY <1>0, <1>1, <3>1, SubSeqProperties
      <3>2. CASE a = b + 1  BY <1>0, <1>1, <3>2, SubSeqProperties
      <3> QED  BY <1>0, <3>1, <3>2
    <2>4. \A i \in 1..(b - a + 1) : q[i] = h[a + i - 1] /\ a + i - 1 = a - 1 + i
      BY <1>0, <1>1, <2>3, SubSeqProperties
    <2> QED  BY <2>2, <2>3, <2>4
  <1>3. ASSUME NEW i \in DOMAIN q
        PROVE  a - 1 + i \in DOMAIN h /\ q[i] = h[a - 1 + i] /\ i \in Int /\ 1 <= i
    <2>1. i \in 1..(b - a + 1)  BY <1>2
    <2>2. i \in Int /\ 1 <= i /\ i <= b - a + 1  BY <1>0, <2>1
    <2>3. a - 1 + i \in Int /\ 1 <= a - 1 + i /\ a - 1 + i <= Len(h)  BY <1>0, <2>2
    <2>4. a - 1 + i \in DOMAIN h  BY <1>0, <2>3
    <2> QED  BY <1>2, <2>1, <2>2, <2>4
  <1>4. ASSUME NEW j \in DOMAIN h, a <= j, j <= b
        PROVE  j - a + 1 \in DOMAIN q /\ q[j - a + 1] = h[j]
    <2>0. j \in Int  BY <1>0
    <2>1. j - a + 1 \in 1..(b - a + 1) /\ a - 1 + (j - a + 1) = j  BY <1>0, <1>4, <2>0
    <2> QED  BY <1>2, <2>1
  <1>5. ASSUME NEW j \in DOMAIN q, NEW k \in DOMAIN q, Together(h, a - 1 + j, a - 1 + k)
        PROVE  Together(q, j, k)
    <2> SUFFICES ASSUME NEW i \in DOMAIN q, j < i, i <= k  PROVE ~Context!User(q[i])
      BY DEF Together
    <2>1. a - 1 + i \in DOMAIN h /\ q[i] = h[a - 1 + i]  BY <1>3
    <2>3. i \in Int /\ j \in Int /\ k \in Int  BY <1>3
    <2>2. a - 1 + j < a - 1 + i /\ a - 1 + i <= a - 1 + k  BY <1>0, <2>3
    <2> QED  BY <1>5, <2>1, <2>2 DEF Together
  <1>6. Followed(q)
    <2> SUFFICES ASSUME NEW k \in DOMAIN q, q[k].role = "tool"
                 PROVE  q[k].calls # {} /\ CalledAt(q, k)
      BY DEF Followed
    <2>1. a - 1 + k \in DOMAIN h /\ q[k] = h[a - 1 + k] /\ k \in Int /\ 1 <= k  BY <1>3
    <2>2. h[a - 1 + k].calls # {} /\ CalledAt(h, a - 1 + k)  BY <2>1 DEF Sound, Followed
    <2>3. PICK j \in DOMAIN h : /\ j < a - 1 + k /\ h[j].role = "assistant"
                                /\ h[a - 1 + k].calls \subseteq h[j].calls
                                /\ Together(h, j, a - 1 + k)
      BY <2>2 DEF CalledAt
    <2>0. j \in Int /\ 1 <= j  BY <1>0, <2>3
    <2>4. a <= j
      <3>1. CASE a = 1  BY <1>0, <2>0, <3>1
      <3>2. CASE a # 1
        <4>1. a <= a - 1 + k  BY <1>0, <2>1
        <4>3. a \in DOMAIN h /\ Context!User(h[a])
          <5>1. a # Len(h) + 1  BY <1>0, <2>1, <4>1
          <5> QED  BY <3>2, <5>1 DEF Between
        <4>2. ~(j < a)  BY <2>3, <4>1, <4>3 DEF Together
        <4> QED  BY <1>0, <2>0, <4>2
      <3> QED  BY <3>1, <3>2
    <2>9. k <= b - a + 1  BY <1>0, <1>2
    <2>5. j <= b  BY <1>0, <2>0, <2>1, <2>3, <2>9
    <2>6. j - a + 1 \in DOMAIN q /\ q[j - a + 1] = h[j]  BY <1>4, <2>4, <2>5
    <2>7. j - a + 1 < k /\ a - 1 + (j - a + 1) = j  BY <1>0, <2>0, <2>1, <2>3
    <2>8. Together(q, j - a + 1, k)  BY <1>5, <2>3, <2>6, <2>7
    <2> QED  BY <2>1, <2>2, <2>3, <2>6, <2>7, <2>8 DEF CalledAt
  <1>7. Answers(q, {}, 0, ended)
    <2> SUFFICES ASSUME NEW k \in DOMAIN q, q[k].role = "assistant", NEW c \in q[k].calls,
                        q[k].turn \notin ended
                 PROVE  ResultAt(q, k, c)
      BY DEF Answers
    <2>1. a - 1 + k \in DOMAIN h /\ q[k] = h[a - 1 + k] /\ k \in Int /\ 1 <= k  BY <1>3
    <2>2. ResultAt(h, a - 1 + k, c)  BY <2>1 DEF Sound, Answers
    <2>3. PICK j \in DOMAIN h : /\ a - 1 + k < j /\ h[j].role = "tool" /\ c \in h[j].calls
                                /\ Together(h, a - 1 + k, j)
      BY <2>2 DEF ResultAt
    <2>0. j \in Int /\ 1 <= j  BY <1>0, <2>3
    <2>9. k <= b - a + 1  BY <1>0, <1>2
    <2>4. j <= b
      <3>1. CASE b >= Len(h)  BY <1>0, <2>3, <3>1
      <3>2. CASE b < Len(h)
        <4>1. a - 1 + k < b + 1  BY <1>0, <2>1, <2>9
        <4>3. b + 1 \in DOMAIN h /\ Context!User(h[b + 1])
          <5>1. b >= 1  BY <1>0, <2>1, <2>9
          <5>2. b + 1 # 1  BY <1>0, <5>1
          <5>3. b + 1 # Len(h) + 1  BY <1>0, <3>2
          <5> QED  BY <5>2, <5>3 DEF Between
        <4>2. ~(b + 1 <= j)  BY <2>3, <4>1, <4>3 DEF Together
        <4> QED  BY <1>0, <2>0, <4>2
      <3> QED  BY <3>1, <3>2
    <2>5. a <= j  BY <1>0, <2>0, <2>1, <2>3
    <2>6. j - a + 1 \in DOMAIN q /\ q[j - a + 1] = h[j]  BY <1>4, <2>4, <2>5
    <2>7. k < j - a + 1 /\ a - 1 + (j - a + 1) = j  BY <1>0, <2>0, <2>1, <2>3
    <2>8. Together(q, k, j - a + 1)  BY <1>5, <2>3, <2>6, <2>7
    <2> QED  BY <2>1, <2>2, <2>3, <2>6, <2>7, <2>8 DEF ResultAt
  <1> QED  BY <1>1, <1>2, <1>6, <1>7 DEF Sound

LEMMA TurnsJoin ==
    ASSUME NEW p \in Seq(ContextMessage), NEW q \in Seq(ContextMessage), NEW ended,
           Sound(p, ended), Sound(q, ended)
    PROVE  p \o q \in Seq(ContextMessage) /\ Sound(p \o q, ended)
  <1>1. PICK h : h = p \o q  OBVIOUS
  <1>2. /\ h \in Seq(ContextMessage) /\ Len(h) = Len(p) + Len(q)
        /\ \A i \in 1..Len(p) : h[i] = p[i]
        /\ \A i \in 1..Len(q) : h[Len(p) + i] = q[i]
    BY <1>1
  <1>3. /\ DOMAIN p = 1..Len(p) /\ DOMAIN q = 1..Len(q) /\ DOMAIN h = 1..(Len(p) + Len(q))
        /\ Len(p) \in Nat /\ Len(q) \in Nat
    BY <1>2
  <1>4. ASSUME NEW i \in DOMAIN p  PROVE i \in DOMAIN h /\ h[i] = p[i] /\ i \in Nat
    BY <1>2, <1>3
  <1>5. ASSUME NEW i \in DOMAIN q
        PROVE  Len(p) + i \in DOMAIN h /\ h[Len(p) + i] = q[i] /\ i \in Nat
    BY <1>2, <1>3
  <1>6. ASSUME NEW j \in DOMAIN p, NEW k \in DOMAIN p, Together(p, j, k)  PROVE Together(h, j, k)
    <2> SUFFICES ASSUME NEW i \in DOMAIN h, j < i, i <= k  PROVE ~Context!User(h[i])  BY DEF Together
    <2>1. i \in DOMAIN p  BY <1>3
    <2> QED  BY <1>4, <1>6, <2>1 DEF Together
  <1>7. ASSUME NEW j \in DOMAIN q, NEW k \in DOMAIN q, Together(q, j, k)
        PROVE  Together(h, Len(p) + j, Len(p) + k)
    <2> SUFFICES ASSUME NEW i \in DOMAIN h, Len(p) + j < i, i <= Len(p) + k  PROVE ~Context!User(h[i])
      BY DEF Together
    <2>1. i - Len(p) \in DOMAIN q /\ j < i - Len(p) /\ i - Len(p) <= k /\ Len(p) + (i - Len(p)) = i
      BY <1>3
    <2>2. h[i] = q[i - Len(p)]  BY <1>5, <2>1
    <2> QED  BY <1>7, <2>1, <2>2 DEF Together
  <1>8. Followed(h)
    <2> SUFFICES ASSUME NEW k \in DOMAIN h, h[k].role = "tool"
                 PROVE  h[k].calls # {} /\ CalledAt(h, k)
      BY DEF Followed
    <2>1. CASE k \in DOMAIN p
      <3>1. p[k].calls # {} /\ CalledAt(p, k) /\ h[k] = p[k]
        BY <1>4, <2>1 DEF Sound, Followed
      <3>2. PICK j \in DOMAIN p : /\ j < k /\ p[j].role = "assistant"
                                  /\ p[k].calls \subseteq p[j].calls /\ Together(p, j, k)
        BY <3>1 DEF CalledAt
      <3> QED  BY <1>4, <1>6, <2>1, <3>1, <3>2 DEF CalledAt
    <2>2. CASE k \notin DOMAIN p
      <3>0. PICK n \in DOMAIN q : k = Len(p) + n
        <4>1. k - Len(p) \in DOMAIN q /\ k = Len(p) + (k - Len(p))  BY <1>3, <2>2
        <4> QED  BY <4>1
      <3>1. q[n].calls # {} /\ CalledAt(q, n) /\ h[k] = q[n]
        BY <1>5, <3>0 DEF Sound, Followed
      <3>2. PICK j \in DOMAIN q : /\ j < n /\ q[j].role = "assistant"
                                  /\ q[n].calls \subseteq q[j].calls /\ Together(q, j, n)
        BY <3>1 DEF CalledAt
      <3>3. Len(p) + j < k  BY <1>3, <3>0, <3>2
      <3> QED  BY <1>5, <1>7, <3>0, <3>1, <3>2, <3>3 DEF CalledAt
    <2> QED  BY <2>1, <2>2
  <1>9. Answers(h, {}, 0, ended)
    <2> SUFFICES ASSUME NEW k \in DOMAIN h, h[k].role = "assistant", NEW c \in h[k].calls,
                        h[k].turn \notin ended
                 PROVE  ResultAt(h, k, c)
      BY DEF Answers
    <2>1. CASE k \in DOMAIN p
      <3>1. h[k] = p[k]  BY <1>4, <2>1
      <3>2. ResultAt(p, k, c)  BY <2>1, <3>1 DEF Sound, Answers
      <3>3. PICK j \in DOMAIN p : /\ k < j /\ p[j].role = "tool" /\ c \in p[j].calls
                                  /\ Together(p, k, j)
        BY <3>2 DEF ResultAt
      <3> QED  BY <1>4, <1>6, <2>1, <3>3 DEF ResultAt
    <2>2. CASE k \notin DOMAIN p
      <3>0. PICK n \in DOMAIN q : k = Len(p) + n
        <4>1. k - Len(p) \in DOMAIN q /\ k = Len(p) + (k - Len(p))  BY <1>3, <2>2
        <4> QED  BY <4>1
      <3>1. h[k] = q[n]  BY <1>5, <3>0
      <3>2. ResultAt(q, n, c)  BY <3>1 DEF Sound, Answers
      <3>3. PICK j \in DOMAIN q : /\ n < j /\ q[j].role = "tool" /\ c \in q[j].calls
                                  /\ Together(q, n, j)
        BY <3>2 DEF ResultAt
      <3>4. k < Len(p) + j  BY <1>3, <3>0, <3>3
      <3> QED  BY <1>5, <1>7, <3>0, <3>3, <3>4 DEF ResultAt
    <2> QED  BY <2>1, <2>2
  <1> QED  BY <1>1, <1>2, <1>8, <1>9 DEF Sound

(* The whole turns a compaction keeps; with at least one, the prompt.      *)
LEMMA LastTurnsAre ==
    ASSUME NEW h \in Seq(ContextMessage), NEW ended, NEW now, Sound(h, ended),
           NEW n \in Nat, n <= Context!Turns(h)
    PROVE  /\ Context!Turns(h) \in Nat
           /\ Context!LastTurns(h, n) \in Seq(ContextMessage) /\ Sound(Context!LastTurns(h, n), ended)
           /\ n > 0 /\ Prompting(h, now) => Prompting(Context!LastTurns(h, n), now)
  <1>1. /\ Len(h) \in Nat /\ DOMAIN h = 1..Len(h)
        /\ Context!Starts(h) \in SUBSET DOMAIN h
    BY DEF Context!Starts
  <1>2. PICK S : S = Context!Starts(h)  OBVIOUS
  <1>3. /\ S \in SUBSET Int /\ IsFiniteSet(S) /\ Cardinality(S) \in Nat
        /\ Context!Turns(h) = Cardinality(S)
    BY <1>1, <1>2, PositionsAre, ContextTurns
  <1>4. CASE n = 0
    <2>1. Context!LastTurns(h, n) = <<>>  BY <1>4 DEF Context!LastTurns
    <2>2. <<>> \in Seq(ContextMessage) /\ Sound(<<>>, ended)
      BY DEF Sound, Followed, Answers
    <2>3. ~(n > 0)  BY <1>4
    <2>4. Context!LastTurns(h, n) \in Seq(ContextMessage) /\ Sound(Context!LastTurns(h, n), ended)
      BY <2>1, <2>2
    <2>5. Context!Turns(h) \in Nat  BY <1>3
    <2> QED  BY <2>3, <2>4, <2>5
  <1>5. CASE n # 0
    <2>1. PICK m : m = Cardinality(S) - n + 1  OBVIOUS
    <2>2. m \in 1..Cardinality(S)  BY <1>3, <1>5, <2>1
    <2>3. PICK a \in S : a = Nth(S, m)  BY <1>3, <2>2, NthIs
    <2>4. a \in DOMAIN h /\ Context!User(h[a])  BY <1>2, <2>3 DEF Context!Starts
    <2>5. a \in Int /\ Len(h) \in Int /\ 1 <= a /\ a - 1 <= Len(h) /\ Len(h) <= Len(h)
      BY <1>1, <2>4
    <2>6. Between(h, a) /\ Between(h, Len(h) + 1)  BY <2>4 DEF Between
    <2>7. PICK q : q = SubSeq(h, a, Len(h))  OBVIOUS
    <2>8. /\ q \in Seq(ContextMessage) /\ Len(q) = Len(h) - a + 1 /\ Sound(q, ended)
          /\ \A i \in 1..(Len(h) - a + 1) : q[i] = h[a - 1 + i]
      BY <2>5, <2>6, <2>7, TurnsCut
    <2>9. Context!LastTurns(h, n) = q
      BY <1>2, <1>3, <1>5, <2>1, <2>3, <2>7, ContextTurns, ContextNth
         DEF Context!LastTurns
    <2>10. ASSUME Prompting(h, now)  PROVE Prompting(q, now)
      <3>1. PICK k \in DOMAIN h : Context!User(h[k]) /\ h[k].turn = now /\ InLastTurn(h, k)
        BY <2>10 DEF Prompting
      <3>2. k \in Int /\ k <= Len(h)  BY <1>1
      <3>3. a <= k
        <4>1. ~(k < a)  BY <2>4, <3>1 DEF InLastTurn
        <4> QED  BY <2>5, <3>2, <4>1
      <3>4. PICK r : r = k - a + 1  OBVIOUS
      <3>5. r \in 1..(Len(h) - a + 1) /\ a - 1 + r = k  BY <2>5, <3>2, <3>3, <3>4
      <3>6. r \in DOMAIN q /\ q[r] = h[k]  BY <2>8, <3>5
      <3>7. InLastTurn(q, r)
        <4> SUFFICES ASSUME NEW i \in DOMAIN q, r < i  PROVE ~Context!User(q[i])  BY DEF InLastTurn
        <4>1. i \in 1..(Len(h) - a + 1)  BY <2>8
        <4>2. i \in Int /\ 1 <= i /\ i <= Len(h) - a + 1  BY <2>5, <4>1
        <4>3. a - 1 + i \in 1..Len(h) /\ k < a - 1 + i  BY <1>1, <2>5, <3>5, <4>2
        <4> QED  BY <1>1, <2>8, <3>1, <4>1, <4>3 DEF InLastTurn
      <3> QED  BY <3>1, <3>6, <3>7 DEF Prompting
    <2> QED  BY <1>3, <2>8, <2>9, <2>10
  <1> QED  BY <1>4, <1>5

LEMMA PrefixIs ==
    ASSUME NEW h \in Seq(ContextMessage), NEW ended, Sound(h, ended)
    PROVE  Context!Prefix(h) \in Seq(ContextMessage) /\ Sound(Context!Prefix(h), ended)
  <1>1. /\ Len(h) \in Nat /\ DOMAIN h = 1..Len(h)
        /\ Context!Starts(h) \in SUBSET DOMAIN h
    BY DEF Context!Starts
  <1>2. PICK S : S = Context!Starts(h)  OBVIOUS
  <1>3. S \in SUBSET Int /\ IsFiniteSet(S)  BY <1>1, <1>2, PositionsAre
  <1>4. CASE S = {}  BY <1>2, <1>4 DEF Context!Prefix
  <1>5. CASE S # {}
    <2>1. PICK a \in S : a = Nth(S, 1)
      <3>1. PICK i \in S : TRUE  BY <1>5
      <3> QED  BY <1>3, <3>1, NthEnds
    <2>2. a \in DOMAIN h /\ Context!User(h[a])  BY <1>2, <2>1 DEF Context!Starts
    <2>3. a \in Int /\ 1 <= a /\ a <= Len(h)  BY <1>1, <2>2
    <2>4. PICK b : b = a - 1  OBVIOUS
    <2>5. b \in Int /\ 1 \in Int /\ 1 <= 1 /\ 1 - 1 <= b /\ b <= Len(h) /\ b + 1 = a
      BY <1>1, <2>3, <2>4
    <2>6. Between(h, 1) /\ Between(h, b + 1)  BY <2>2, <2>5 DEF Between
    <2>7. SubSeq(h, 1, b) \in Seq(ContextMessage) /\ Sound(SubSeq(h, 1, b), ended)
      BY <2>5, <2>6, TurnsCut
    <2> QED  BY <1>2, <1>5, <2>1, <2>4, <2>7, ContextNth DEF Context!Prefix
  <1> QED  BY <1>4, <1>5

LEMMA PromptJoins ==
    ASSUME NEW p \in Seq(ContextMessage), NEW q \in Seq(ContextMessage), NEW now,
           Prompting(q, now)
    PROVE  Prompting(p \o q, now)
  <1>1. PICK h : h = p \o q  OBVIOUS
  <1>2. /\ h \in Seq(ContextMessage) /\ Len(h) = Len(p) + Len(q)
        /\ \A i \in 1..Len(q) : h[Len(p) + i] = q[i]
    BY <1>1
  <1>3. /\ DOMAIN q = 1..Len(q) /\ DOMAIN h = 1..(Len(p) + Len(q))
        /\ Len(p) \in Nat /\ Len(q) \in Nat
    BY <1>2
  <1>4. PICK k \in DOMAIN q : Context!User(q[k]) /\ q[k].turn = now /\ InLastTurn(q, k)
    BY DEF Prompting
  <1>5. Len(p) + k \in DOMAIN h /\ h[Len(p) + k] = q[k]  BY <1>2, <1>3
  <1>6. InLastTurn(h, Len(p) + k)
    <2> SUFFICES ASSUME NEW i \in DOMAIN h, Len(p) + k < i  PROVE ~Context!User(h[i])  BY DEF InLastTurn
    <2>1. i - Len(p) \in DOMAIN q /\ k < i - Len(p) /\ Len(p) + (i - Len(p)) = i  BY <1>3
    <2>2. h[i] = q[i - Len(p)]  BY <1>2, <1>3, <2>1
    <2> QED  BY <1>4, <2>1, <2>2 DEF InLastTurn
  <1> QED  BY <1>1, <1>4, <1>5, <1>6 DEF Prompting

LEMMA CompactionKeeps ==
    ASSUME NEW h \in Seq(ContextMessage), NEW ended, Sound(h, ended), NEW emergency \in BOOLEAN,
           preserve \in 0..2, latest \in Nat, NEW g \in Context!Compactions(h, emergency)
    PROVE  /\ g \in Seq(ContextMessage) /\ Sound(g, ended)
           /\ preserve > 0 /\ Prompting(h, latest) => Prompting(g, latest)
  <1>0. PICK turns : turns = Context!Turns(h)  OBVIOUS
  <1>1. turns \in Nat
    <2>1. Context!Starts(h) \in SUBSET (1..Len(h)) /\ Len(h) \in Nat  BY DEF Context!Starts
    <2> QED  BY <1>0, <2>1, PositionsAre, ContextTurns
  <1>2. PICK kept : kept = Context!Preserved(h, emergency)  OBVIOUS
  <1>3. kept \in 0..turns /\ (preserve > 0 /\ turns > 0 => kept > 0)
    BY <1>0, <1>1, <1>2 DEF Context!Preserved, Context!Smaller
  <1>4. PICK summary \in {<<>>, <<Context!Message("summary", {})>>},
             n \in Context!Smaller(kept, Context!Larger(1, IF emergency THEN 1 ELSE preserve))..kept :
          g = Context!Prefix(h) \o summary \o Context!LastTurns(h, n)
    BY <1>2 DEF Context!Compactions
  <1>5. n \in Nat /\ n <= turns /\ (kept > 0 => n > 0)
    BY <1>1, <1>3 DEF Context!Smaller, Context!Larger
  <1>6. summary \in Seq(ContextMessage) /\ Sound(summary, ended)
    <2>1. CASE summary = <<>>  BY <2>1 DEF Sound, Followed, Answers
    <2>2. CASE summary = <<Context!Message("summary", {})>>
      <3>1. Context!Message("summary", {}) \in ContextMessage /\ Context!Message("summary", {}).role = "summary"
        BY DEF Context!Message, ContextMessage
      <3>2. summary \in Seq(ContextMessage) /\ \A k \in DOMAIN summary : summary[k].role = "summary"
        BY <2>2, <3>1
      <3> QED  BY <3>2 DEF Sound, Followed, Answers
    <2> QED  BY <2>1, <2>2
  <1>7. Context!Prefix(h) \in Seq(ContextMessage) /\ Sound(Context!Prefix(h), ended)  BY PrefixIs
  <1>8. Context!Prefix(h) \o summary \in Seq(ContextMessage) /\ Sound(Context!Prefix(h) \o summary, ended)
    BY <1>6, <1>7, TurnsJoin
  <1>9. /\ Context!LastTurns(h, n) \in Seq(ContextMessage) /\ Sound(Context!LastTurns(h, n), ended)
        /\ n > 0 /\ Prompting(h, latest) => Prompting(Context!LastTurns(h, n), latest)
    BY <1>0, <1>5, LastTurnsAre
  <1>10. g \in Seq(ContextMessage) /\ Sound(g, ended)  BY <1>4, <1>8, <1>9, TurnsJoin
  <1>11. ASSUME preserve > 0, Prompting(h, latest)  PROVE Prompting(g, latest)
    <2>1. turns > 0
      <3>1. PICK k \in Context!Starts(h) : TRUE  BY <1>11 DEF Prompting, Context!Starts
      <3>2. Context!Starts(h) \in SUBSET (1..Len(h)) /\ Len(h) \in Nat  BY DEF Context!Starts
      <3>3. Context!Starts(h) \in SUBSET Int /\ IsFiniteSet(Context!Starts(h))  BY <3>2, PositionsAre
      <3>4. Cardinality(Context!Starts(h)) >= 1  BY <3>1, <3>3, NthEnds
      <3> QED  BY <1>0, <1>1, <3>4, ContextTurns
    <2>2. n > 0  BY <1>3, <1>5, <1>11, <2>1
    <2> QED  BY <1>4, <1>8, <1>9, <1>11, <2>2, PromptJoins
  <1> QED  BY <1>10, <1>11

(* One more message at the end of a history.                               *)
LEMMA MessageAdded ==
    ASSUME NEW h \in Seq(ContextMessage), NEW m \in ContextMessage
    PROVE  LET g == Append(h, m)
           IN /\ g \in Seq(ContextMessage) /\ DOMAIN g = (DOMAIN h) \cup {Len(h) + 1}
              /\ Len(h) \in Nat /\ g[Len(h) + 1] = m
              /\ \A k \in DOMAIN h : k \in Int /\ k < Len(h) + 1 /\ g[k] = h[k]
              /\ \A j, k \in DOMAIN h : Together(h, j, k) => Together(g, j, k)
              /\ ~Context!User(m) => \A k \in DOMAIN h : InLastTurn(h, k) =>
                    InLastTurn(g, k) /\ Together(g, k, Len(h) + 1)
              /\ InLastTurn(g, Len(h) + 1)
  <1>1. PICK g : g = Append(h, m)  OBVIOUS
  <1>2. PICK n : n = Len(h) + 1  OBVIOUS
  <1>3. /\ g \in Seq(ContextMessage) /\ DOMAIN g = (DOMAIN h) \cup {n}
        /\ n \in Int /\ Len(h) \in Nat /\ g[n] = m
        /\ \A k \in DOMAIN h : k \in Int /\ k < n /\ g[k] = h[k]
    BY <1>1, <1>2
  <1>4. ASSUME NEW j \in DOMAIN h, NEW k \in DOMAIN h, Together(h, j, k)  PROVE Together(g, j, k)
    <2> SUFFICES ASSUME NEW i \in DOMAIN g, j < i, i <= k  PROVE ~Context!User(g[i])  BY DEF Together
    <2>1. i # n  BY <1>3
    <2> QED  BY <1>3, <1>4, <2>1 DEF Together
  <1>5. ASSUME ~Context!User(m), NEW k \in DOMAIN h, InLastTurn(h, k)
        PROVE  InLastTurn(g, k) /\ Together(g, k, n)
    BY <1>3, <1>5 DEF InLastTurn, Together
  <1>6. InLastTurn(g, n)
    <2> SUFFICES ASSUME NEW i \in DOMAIN g, n < i  PROVE FALSE  BY DEF InLastTurn
    <2>1. i \in DOMAIN h  BY <1>3
    <2> QED  BY <1>3, <2>1
  <1> QED  BY <1>1, <1>2, <1>3, <1>4, <1>5, <1>6

LEMMA FollowedGrows ==
    ASSUME NEW h \in Seq(ContextMessage), NEW m \in ContextMessage, Followed(h),
           m.role = "tool" => /\ m.calls # {}
                              /\ \E j \in DOMAIN h : /\ h[j].role = "assistant" /\ InLastTurn(h, j)
                                                     /\ m.calls \subseteq h[j].calls
    PROVE  Followed(Append(h, m))
  <1>1. PICK g : g = Append(h, m)  OBVIOUS
  <1>2. PICK n : n = Len(h) + 1  OBVIOUS
  <1>3. /\ DOMAIN g = (DOMAIN h) \cup {n} /\ g[n] = m
        /\ \A k \in DOMAIN h : k < n /\ g[k] = h[k]
        /\ \A j, k \in DOMAIN h : Together(h, j, k) => Together(g, j, k)
        /\ ~Context!User(m) => \A k \in DOMAIN h : InLastTurn(h, k) => Together(g, k, n)
    BY <1>1, <1>2, MessageAdded
  <1>4. ASSUME NEW k \in DOMAIN h, g[k].role = "tool"  PROVE g[k].calls # {} /\ CalledAt(g, k)
    <2>1. h[k].calls # {} /\ CalledAt(h, k)  BY <1>3, <1>4 DEF Followed
    <2> QED  BY <1>3, <2>1 DEF CalledAt
  <1>5. ASSUME g[n].role = "tool"  PROVE g[n].calls # {} /\ CalledAt(g, n)
    <2>1. ~Context!User(m)  BY <1>3, <1>5 DEF Context!User
    <2> QED  BY <1>3, <1>5, <2>1 DEF CalledAt
  <1> QED  BY <1>1, <1>3, <1>4, <1>5 DEF Followed

(* The asked that stay open are the earlier ones the message does not      *)
(* answer, and its own.                                                    *)
LEMMA AnswersGrow ==
    ASSUME NEW h \in Seq(ContextMessage), NEW m \in ContextMessage, NEW open, NEW rest,
           NEW now, NEW ended, Answers(h, open, now, ended),
           Context!User(m) => open = {},
           \A c \in open : c \in rest \/ (m.role = "tool" /\ c \in m.calls),
           m.role = "assistant" => m.calls \subseteq rest /\ m.turn = now
    PROVE  Answers(Append(h, m), rest, now, ended)
  <1>1. PICK g : g = Append(h, m)  OBVIOUS
  <1>2. PICK n : n = Len(h) + 1  OBVIOUS
  <1>3. /\ DOMAIN g = (DOMAIN h) \cup {n} /\ g[n] = m
        /\ \A k \in DOMAIN h : k < n /\ g[k] = h[k]
        /\ \A j, k \in DOMAIN h : Together(h, j, k) => Together(g, j, k)
        /\ ~Context!User(m) => \A k \in DOMAIN h : InLastTurn(h, k) =>
              InLastTurn(g, k) /\ Together(g, k, n)
        /\ InLastTurn(g, n)
    BY <1>1, <1>2, MessageAdded
  <1> DEFINE Fine(k, c) == \/ ResultAt(g, k, c) \/ g[k].turn \in ended
                           \/ c \in rest /\ g[k].turn = now /\ InLastTurn(g, k)
  <1>4. ASSUME NEW k \in DOMAIN h, g[k].role = "assistant", NEW c \in g[k].calls  PROVE Fine(k, c)
    <2>1. h[k] = g[k] /\ k < n  BY <1>3
    <2>2. \/ ResultAt(h, k, c) \/ h[k].turn \in ended
          \/ c \in open /\ h[k].turn = now /\ InLastTurn(h, k)
      BY <1>4, <2>1 DEF Answers
    <2>3. CASE ResultAt(h, k, c)  BY <1>3, <2>3 DEF ResultAt
    <2>4. CASE h[k].turn \in ended  BY <2>1, <2>4
    <2>5. CASE c \in open /\ h[k].turn = now /\ InLastTurn(h, k)
      <3>1. InLastTurn(g, k) /\ Together(g, k, n)  BY <1>3, <2>5
      <3>2. CASE c \in rest  BY <2>1, <2>5, <3>1, <3>2
      <3>3. CASE m.role = "tool" /\ c \in m.calls  BY <1>3, <2>1, <3>1, <3>3 DEF ResultAt
      <3> QED  BY <2>5, <3>2, <3>3
    <2> QED  BY <2>2, <2>3, <2>4, <2>5
  <1>5. ASSUME g[n].role = "assistant", NEW c \in g[n].calls  PROVE Fine(n, c)
    BY <1>3, <1>5
  <1> QED  BY <1>1, <1>3, <1>4, <1>5 DEF Answers

(* Calls may stay unanswered in a turn that was cut short.                 *)
LEMMA AnswersCut ==
    ASSUME NEW h, NEW open, NEW now, NEW ended, NEW more, Answers(h, open, now, ended),
           ended \subseteq more, open = {} \/ now \in more
    PROVE  Answers(h, {}, 0, more)
  BY DEF Answers

LEMMA MessagesAre ==
    ASSUME latest \in Nat, NEW role \in {"user", "assistant", "tool", "summary"},
           NEW asked \in SUBSET ContextCall
    PROVE  /\ Context!Message(role, asked) \in ContextMessage
           /\ Context!Message(role, asked).role = role /\ Context!Message(role, asked).calls = asked
           /\ Context!Message(role, asked).turn = latest
  BY DEF Context!Message, ContextMessage

LEMMA ContextInit == Context!Init => ContextInv
  <1> SUFFICES ASSUME Context!Init  PROVE ContextInv  OBVIOUS
  <1> USE DEF Context!Init
  <1>1. Owed = {}  BY DEF Owed
  <1>2. \A h, ended : h = <<>> => /\ h \in Seq(ContextMessage) /\ Sound(h, ended) /\ Followed(h)
                                /\ Answers(h, {}, latest, ended)
    BY DEF Sound, Followed, Answers
  <1>3. due \in Seq(ContextCall)  OBVIOUS
  <1>4. ContextTypes  BY <1>2, <1>3 DEF ContextTypes
  <1> QED  BY <1>1, <1>2, <1>4 DEF ContextInv

(* A turn that waits for an answer owes no results: its history is sound.  *)
LEMMA NothingOwed ==
    ASSUME ContextInv, stage # "tools"
    PROVE  due = <<>> /\ Owed = {} /\ Sound(history, short)
  <1>1. due = <<>>  BY DEF ContextInv
  <1>2. Owed = {}  BY <1>1 DEF Owed
  <1>3. Answers(history, {}, 0, short)  BY <1>2, AnswersCut DEF ContextInv
  <1> QED  BY <1>1, <1>2, <1>3 DEF ContextInv, Sound

LEMMA SoundAnswers ==
    ASSUME NEW h, NEW ended, NEW now, Sound(h, ended)
    PROVE  Followed(h) /\ Answers(h, {}, now, ended)
  BY DEF Sound, Answers

LEMMA PromptKeeps == ASSUME ContextInv, Context!Prompt  PROVE ContextInv'
  <1> USE DEF Context!Prompt
  <1>1. due = <<>> /\ Owed = {}  BY NothingOwed
  <1>2. ContextTypes /\ latest \in Nat  BY DEF ContextInv, ContextTypes
  <1>3. PICK m : m = Context!Prompted(latest + 1)  OBVIOUS
  <1>4. m \in ContextMessage /\ Context!User(m) /\ m.role # "tool" /\ m.role # "assistant" /\ m.turn = latest'
    BY <1>2, <1>3 DEF Context!Prompted, ContextMessage, Context!User
  <1>5. session \in Seq(ContextMessage) /\ Followed(session) /\ Answers(session, {}, latest', short)
    BY <1>2, SoundAnswers DEF ContextInv, ContextTypes
  <1>6. history' = Append(session, m)  BY <1>3
  <1>7. history' \in Seq(ContextMessage) /\ Followed(history')
    BY <1>4, <1>5, <1>6, MessageAdded, FollowedGrows
  <1>8. Answers(history', {}, latest', short)  BY <1>4, <1>5, <1>6, AnswersGrow
  <1>9. Prompting(history', latest')
    BY <1>4, <1>5, <1>6, MessageAdded DEF Prompting
  <1>10. Owed' = {} /\ due' = <<>> /\ stage' = "loop"  BY <1>1 DEF Owed
  <1>11. ContextTypes'  BY <1>2, <1>7 DEF ContextTypes
  <1>12. Sound(session, short)' /\ Sound(request, short)'
    BY DEF ContextInv, Sound, Followed, Answers, CalledAt, ResultAt, Together, InLastTurn, Context!User
  <1> QED  BY <1>7, <1>8, <1>9, <1>10, <1>11, <1>12 DEF ContextInv

LEMMA AskKeeps == ASSUME ContextInv, Context!Ask  PROVE ContextInv'
  <1>1. due = <<>> /\ Owed = {} /\ Sound(history, short)  BY NothingOwed DEF Context!Ask
  <1>2. /\ ContextTypes /\ latest \in Nat /\ preserve \in 0..2 /\ history \in Seq(ContextMessage)
        /\ preserve > 0 => Prompting(history, latest)
    BY DEF ContextInv, ContextTypes, Context!Ask
  <1>3. PICK g : g = history'  OBVIOUS
  <1>4. /\ g \in Seq(ContextMessage) /\ Sound(g, short)
        /\ preserve > 0 => Prompting(g, latest)
    <2>1. CASE g = history  BY <1>1, <1>2, <2>1
    <2>2. CASE g \in Context!Compactions(history, FALSE)  BY <1>1, <1>2, <2>2, CompactionKeeps
    <2> QED  BY <1>3, <2>1, <2>2 DEF Context!Ask
  <1>5. Followed(g) /\ Answers(g, {}, latest, short)  BY <1>4, SoundAnswers
  <1>6. /\ latest' = latest /\ short' = short /\ preserve' = preserve /\ due' = <<>>
        /\ stage' = "asked" /\ request' = g /\ session' = session /\ Owed' = {}
    BY <1>1, <1>3 DEF Context!Ask, Owed
  <1>7. ContextTypes'  BY <1>2, <1>3, <1>4, <1>6 DEF ContextTypes, Context!Ask
  <1>8. Sound(session', short') /\ Sound(request', short')  BY <1>4, <1>6 DEF ContextInv
  <1> QED  BY <1>3, <1>4, <1>5, <1>6, <1>7, <1>8 DEF ContextInv

LEMMA RescueKeeps == ASSUME ContextInv, Context!Rescue  PROVE ContextInv'
  <1>1. due = <<>> /\ Owed = {} /\ Sound(history, short)  BY NothingOwed DEF Context!Rescue
  <1>2. /\ ContextTypes /\ latest \in Nat /\ preserve \in 0..2 /\ history \in Seq(ContextMessage)
        /\ preserve > 0 => Prompting(history, latest)
    BY DEF ContextInv, ContextTypes, Context!Rescue
  <1>3. PICK g : g = history'  OBVIOUS
  <1>4. /\ g \in Seq(ContextMessage) /\ Sound(g, short)
        /\ preserve > 0 => Prompting(g, latest)
    BY <1>1, <1>2, <1>3, CompactionKeeps DEF Context!Rescue
  <1>5. Followed(g) /\ Answers(g, {}, latest, short)  BY <1>4, SoundAnswers
  <1>6. /\ latest' = latest /\ short' = short /\ preserve' = preserve /\ due' = <<>>
        /\ stage' = "loop" /\ request' = request /\ session' = session /\ Owed' = {}
    BY <1>1, <1>3 DEF Context!Rescue, Owed
  <1>7. ContextTypes'  BY <1>2, <1>3, <1>4, <1>6 DEF ContextTypes, Context!Rescue
  <1>8. Sound(session', short') /\ Sound(request', short')  BY <1>6 DEF ContextInv
  <1> QED  BY <1>3, <1>4, <1>5, <1>6, <1>7, <1>8 DEF ContextInv

(* A turn that ends saves a sound history, or leaves the saved one as it   *)
(* was; a turn that was cut short may leave asked without results.         *)
LEMMA EndKeeps ==
    ASSUME ContextInv, NEW g \in Seq(ContextMessage), NEW ended,
           session' = g \/ session' = session,
           short' = ended, short \subseteq ended, Sound(g, ended), preserve' = preserve, latest' = latest,
           rounds' \in Nat, request' = request, stage' = "idle", history' = <<>>, due' = <<>>
    PROVE  ContextInv'
  <1>1. ContextTypes  BY DEF ContextInv
  <1>2. Owed' = {}  BY DEF Owed
  <1>3. \A h : Sound(h, short) => Sound(h, ended)  BY AnswersCut DEF Sound
  <1>4. Sound(session', ended) /\ Sound(request', ended)  BY <1>3 DEF ContextInv
  <1>5. history' \in Seq(ContextMessage) /\ due' \in Seq(ContextCall)  OBVIOUS
  <1>6. Followed(history') /\ Answers(history', {}, latest', ended)  BY DEF Followed, Answers
  <1>7. ContextTypes'  BY <1>1, <1>5 DEF ContextTypes
  <1> QED  BY <1>2, <1>4, <1>6, <1>7 DEF ContextInv

LEMMA AnsweredKeeps == ASSUME ContextInv, Context!Answered  PROVE ContextInv'
  <1>1. Sound(history, short) /\ due = <<>>  BY NothingOwed DEF Context!Answered
  <1>2. latest \in Nat /\ history \in Seq(ContextMessage) /\ rounds \in Nat
    BY DEF ContextInv, ContextTypes
  <1>3. PICK m : m = Context!Message("assistant", {})  OBVIOUS
  <1>4. m \in ContextMessage /\ m.role = "assistant" /\ m.calls = {} /\ m.turn = latest
    BY <1>2, <1>3, MessagesAre
  <1>5. PICK g : g = Append(history, m)  OBVIOUS
  <1>6. g \in Seq(ContextMessage)  BY <1>2, <1>4, <1>5, MessageAdded
  <1>7. Followed(g)  BY <1>1, <1>2, <1>4, <1>5, FollowedGrows DEF Sound
  <1>8. Answers(g, {}, latest, short)
    BY <1>1, <1>2, <1>4, <1>5, AnswersGrow, SoundAnswers
  <1>9. Sound(g, short)  BY <1>7, <1>8, AnswersCut DEF Sound
  <1>10. session' = g \/ session' = session  BY <1>3, <1>5 DEF Context!Answered, Context!Save
  <1>11. rounds' \in Nat  BY <1>2 DEF Context!Answered
  <1> QED  BY <1>1, <1>6, <1>9, <1>10, <1>11, EndKeeps DEF Context!Answered

LEMMA CalledKeeps == ASSUME ContextInv, MaxCalls \in Nat, NEW n \in 1..MaxCalls, Context!Called(n)  PROVE ContextInv'
  <1>1. Sound(history, short) /\ due = <<>>  BY NothingOwed DEF Context!Called
  <1>2. /\ ContextTypes /\ latest \in Nat /\ history \in Seq(ContextMessage) /\ rounds \in Nat
        /\ preserve > 0 => Prompting(history, latest)
    BY DEF ContextInv, ContextTypes, Context!Called
  <1>3. PICK ids : ids = [k \in 1..n |-> <<latest, rounds, k>>]  OBVIOUS
  <1>4. n \in Nat /\ n >= 1  OBVIOUS
  <1>5. ids \in Seq(ContextCall) /\ ids # <<>> /\ DOMAIN ids = 1..n
    <2>1. \A k \in 1..n : <<latest, rounds, k>> \in ContextCall  BY <1>2, <1>4 DEF ContextCall
    <2>2. ids \in Seq(ContextCall) /\ Len(ids) = n  BY <1>3, <1>4, <2>1
    <2> QED  BY <1>3, <1>4, <2>2
  <1>6. PICK asked : asked = {ids[k] : k \in 1..n}  OBVIOUS
  <1>7. asked \in SUBSET ContextCall  BY <1>5, <1>6
  <1>8. PICK m : m = Context!Message("assistant", asked)  OBVIOUS
  <1>9. m \in ContextMessage /\ m.role = "assistant" /\ m.calls = asked /\ m.turn = latest /\ ~Context!User(m)
    BY <1>2, <1>7, <1>8, MessagesAre DEF Context!User
  <1>10. PICK g : g = Append(history, m)  OBVIOUS
  <1>11. g \in Seq(ContextMessage)  BY <1>2, <1>9, <1>10, MessageAdded
  <1>12. Followed(g)  BY <1>1, <1>2, <1>9, <1>10, FollowedGrows DEF Sound
  <1>13. Answers(g, asked, latest, short)
    <2>1. Answers(history, {}, latest, short)  BY <1>1, SoundAnswers
    <2>2. m.calls \subseteq asked  BY <1>9
    <2> QED  BY <1>2, <1>9, <1>10, <2>1, <2>2, AnswersGrow
  <1>14. rounds' \in Nat /\ preserve' = preserve /\ latest' = latest /\ request' = request
    BY <1>2 DEF Context!Called
  <1>15. CASE rounds < MaxRounds
    <2>1. history' = g /\ due' = ids /\ stage' = "tools" /\ session' = session /\ short' = short
      BY <1>3, <1>6, <1>8, <1>10, <1>15 DEF Context!Called
    <2>2. Owed' = asked  BY <1>5, <1>6, <2>1 DEF Owed
    <2>3. g[Len(history) + 1] = m /\ Len(history) + 1 \in DOMAIN g /\ InLastTurn(g, Len(history) + 1)
      BY <1>2, <1>9, <1>10, MessageAdded
    <2>4. \A c \in asked : \E k \in DOMAIN g :
             g[k].role = "assistant" /\ c \in g[k].calls /\ InLastTurn(g, k)
      BY <1>9, <2>3
    <2>5. preserve > 0 => Prompting(g, latest)
      <3>1. ASSUME Prompting(history, latest)  PROVE Prompting(g, latest)
        <4>1. PICK k \in DOMAIN history : /\ Context!User(history[k]) /\ history[k].turn = latest
                                          /\ InLastTurn(history, k)
          BY <3>1 DEF Prompting
        <4>2. k \in DOMAIN g /\ g[k] = history[k] /\ InLastTurn(g, k)
          BY <1>2, <1>9, <1>10, <4>1, MessageAdded
        <4> QED  BY <4>1, <4>2 DEF Prompting
      <3> QED  BY <1>2, <3>1
    <2>6. ContextTypes'  BY <1>2, <1>5, <1>11, <1>14, <2>1 DEF ContextTypes
    <2>7. Sound(session', short') /\ Sound(request', short')  BY <1>14, <2>1 DEF ContextInv
    <2> QED
      BY <1>5, <1>12, <1>13, <1>14, <2>1, <2>2, <2>4, <2>5, <2>6, <2>7 DEF ContextInv
  <1>16. CASE ~(rounds < MaxRounds)
    <2>1. PICK ended : ended = short \cup {latest}  OBVIOUS
    <2>2. Sound(g, ended)  BY <1>12, <1>13, <2>1, AnswersCut DEF Sound
    <2>3. session' = g \/ session' = session
      BY <1>3, <1>6, <1>8, <1>10, <1>16 DEF Context!Called, Context!Save
    <2>4. history' = <<>> /\ stage' = "idle" /\ short' = ended /\ due' = <<>>
      BY <1>1, <1>16, <2>1 DEF Context!Called
    <2>5. short \subseteq ended  BY <2>1
    <2> QED  BY <1>11, <1>14, <2>2, <2>3, <2>4, <2>5, EndKeeps
  <1> QED  BY <1>15, <1>16

LEMMA ExecutedKeeps == ASSUME ContextInv, Context!Executed  PROVE ContextInv'
  <1>1. /\ ContextTypes /\ latest \in Nat /\ history \in Seq(ContextMessage) /\ rounds \in Nat
        /\ preserve > 0 => Prompting(history, latest)
        /\ due \in Seq(ContextCall) /\ due # <<>>
        /\ Followed(history) /\ Answers(history, Owed, latest, short)
    BY DEF ContextInv, ContextTypes, Context!Executed
  <1>2. PICK c : c = Head(due)  OBVIOUS
  <1>3. PICK rest : rest = Tail(due)  OBVIOUS
  <1>4. /\ c \in ContextCall /\ rest \in Seq(ContextCall) /\ c \in Owed
        /\ \A d \in Owed : d = c \/ \E k \in DOMAIN rest : rest[k] = d
        /\ \A k \in DOMAIN rest : rest[k] \in Owed
    <2>1. /\ c \in ContextCall /\ rest \in Seq(ContextCall) /\ Len(rest) = Len(due) - 1
          /\ Len(due) \in Nat /\ Len(due) >= 1 /\ c = due[1]
          /\ \A k \in 1..Len(rest) : rest[k] = due[k + 1]
      BY <1>1, <1>2, <1>3
    <2>2. DOMAIN due = 1..Len(due) /\ DOMAIN rest = 1..(Len(due) - 1)  BY <1>1, <2>1
    <2>3. 1 \in DOMAIN due /\ c \in Owed  BY <2>1, <2>2 DEF Owed
    <2>4. ASSUME NEW d \in Owed, d # c  PROVE \E k \in DOMAIN rest : rest[k] = d
      <3>1. PICK j \in DOMAIN due : d = due[j]  BY DEF Owed
      <3>2. j # 1 /\ j \in 1..Len(due)  BY <2>1, <2>2, <2>4, <3>1
      <3>3. j - 1 \in 1..(Len(due) - 1) /\ (j - 1) + 1 = j  BY <2>1, <3>2
      <3> QED  BY <2>1, <2>2, <3>1, <3>3
    <2>5. ASSUME NEW k \in DOMAIN rest  PROVE rest[k] \in Owed
      <3>1. k + 1 \in DOMAIN due /\ rest[k] = due[k + 1]  BY <2>1, <2>2
      <3> QED  BY <3>1 DEF Owed
    <2> QED  BY <2>1, <2>3, <2>4, <2>5
  <1>5. PICK m : m = Context!Message("tool", {c})  OBVIOUS
  <1>6. m \in ContextMessage /\ m.role = "tool" /\ m.calls = {c} /\ ~Context!User(m)
    BY <1>1, <1>4, <1>5, MessagesAre DEF Context!User
  <1>7. PICK g : g = Append(history, m)  OBVIOUS
  <1>8. /\ history' = g /\ due' = rest /\ session' = session /\ request' = request
        /\ short' = short /\ latest' = latest /\ preserve' = preserve /\ rounds' = rounds
        /\ stage' = IF due' = <<>> THEN "loop" ELSE "tools"
    BY <1>2, <1>3, <1>5, <1>7 DEF Context!Executed
  <1>9. PICK j \in DOMAIN history : /\ history[j].role = "assistant" /\ c \in history[j].calls
                                    /\ InLastTurn(history, j)
    BY <1>4 DEF ContextInv
  <1>10. m.calls # {} /\ m.calls \subseteq history[j].calls  BY <1>6, <1>9
  <1>11. Followed(g)  BY <1>1, <1>6, <1>7, <1>9, <1>10, FollowedGrows
  <1>12. Owed' = {rest[k] : k \in DOMAIN rest}  BY <1>8 DEF Owed
  <1>13. PICK open : open = Owed'  OBVIOUS
  <1>14. /\ \A d \in Owed : d = c \/ d \in open
         /\ \A d \in open : d \in Owed
    BY <1>4, <1>12, <1>13
  <1>15. Answers(g, open, latest, short)  BY <1>1, <1>6, <1>7, <1>14, AnswersGrow
  <1>16. /\ g \in Seq(ContextMessage)
         /\ \A k \in DOMAIN history : /\ k \in DOMAIN g /\ g[k] = history[k]
                                      /\ InLastTurn(history, k) => InLastTurn(g, k)
    BY <1>1, <1>6, <1>7, MessageAdded
  <1>17. \A d \in open : \E k \in DOMAIN g :
            g[k].role = "assistant" /\ d \in g[k].calls /\ InLastTurn(g, k)
    <2>1. \A d \in open : \E k \in DOMAIN history :
             history[k].role = "assistant" /\ d \in history[k].calls /\ InLastTurn(history, k)
      BY <1>14 DEF ContextInv
    <2> QED  BY <1>16, <2>1
  <1>18. preserve > 0 => Prompting(g, latest)  BY <1>1, <1>16 DEF Prompting
  <1>19. ContextTypes'  BY <1>1, <1>4, <1>8, <1>16 DEF ContextTypes
  <1>20. Sound(session', short') /\ Sound(request', short')  BY <1>8 DEF ContextInv
  <1> QED
    BY <1>8, <1>11, <1>13, <1>15, <1>17, <1>18, <1>19, <1>20 DEF ContextInv

LEMMA CutShortKeeps == ASSUME ContextInv, Context!CutShort  PROVE ContextInv'
  <1>1. /\ latest \in Nat /\ history \in Seq(ContextMessage) /\ rounds \in Nat
        /\ Followed(history) /\ Answers(history, Owed, latest, short)
    BY DEF ContextInv, ContextTypes
  <1>2. PICK ended : ended = short \cup {latest}  OBVIOUS
  <1>3. Sound(history, ended)  BY <1>1, <1>2, AnswersCut DEF Sound
  <1>4. PICK m : m = Context!Message("assistant", {})  OBVIOUS
  <1>5. m \in ContextMessage /\ m.role = "assistant" /\ m.calls = {} /\ m.turn = latest /\ ~Context!User(m)
    BY <1>1, <1>4, MessagesAre DEF Context!User
  <1>6. PICK g : g = Append(history, m)  OBVIOUS
  <1>7. g \in Seq(ContextMessage) /\ Followed(g)
    BY <1>1, <1>5, <1>6, MessageAdded, FollowedGrows
  <1>8. Answers(g, Owed, latest, short)  BY <1>1, <1>5, <1>6, AnswersGrow
  <1>9. Sound(g, ended)  BY <1>2, <1>7, <1>8, AnswersCut DEF Sound
  <1>10. session' = history \/ session' = g \/ session' = session
    BY <1>4, <1>6 DEF Context!CutShort, Context!Save
  <1>11. /\ short' = ended /\ short \subseteq ended /\ rounds' \in Nat /\ preserve' = preserve
         /\ latest' = latest /\ request' = request /\ stage' = "idle"
         /\ history' = <<>> /\ due' = <<>>
    BY <1>1, <1>2 DEF Context!CutShort
  <1> QED  BY <1>1, <1>3, <1>7, <1>9, <1>10, <1>11, EndKeeps

LEMMA ContextNext == ASSUME ContextInv, MaxCalls \in Nat, [Context!Next]_(Context!vars)  PROVE ContextInv'
  <1>1. CASE Context!Prompt  BY <1>1, PromptKeeps
  <1>2. CASE Context!Ask  BY <1>2, AskKeeps
  <1>3. CASE Context!Rescue  BY <1>3, RescueKeeps
  <1>4. CASE Context!Answered  BY <1>4, AnsweredKeeps
  <1>5. CASE \E n \in 1..MaxCalls : Context!Called(n)  BY <1>5, CalledKeeps
  <1>6. CASE Context!Executed  BY <1>6, ExecutedKeeps
  <1>7. CASE Context!CutShort  BY <1>7, CutShortKeeps
  <1>8. CASE UNCHANGED Context!vars
    <2>1. /\ preserve' = preserve /\ session' = session /\ latest' = latest /\ stage' = stage
          /\ history' = history /\ due' = due /\ rounds' = rounds /\ request' = request
          /\ short' = short
      BY <1>8 DEF Context!vars
    <2>2. ContextTypes'  BY <2>1 DEF ContextInv, ContextTypes
    <2>3. Owed' = Owed  BY <2>1 DEF Owed
    <2>4. Sound(session', short') /\ Sound(request', short')  BY <2>1 DEF ContextInv
    <2>5. Followed(history') /\ Answers(history', Owed', latest', short')
      BY <2>1, <2>3 DEF ContextInv
    <2>6. stage' # "idle" /\ preserve' > 0 => Prompting(history', latest')
      BY <2>1 DEF ContextInv
    <2>7. \A c \in Owed' : \E k \in DOMAIN history' :
             history'[k].role = "assistant" /\ c \in history'[k].calls /\ InLastTurn(history', k)
      BY <2>1, <2>3 DEF ContextInv
    <2>8. (stage' = "tools" <=> due' # <<>>) /\ (stage' = "asked" => request' = history')
      BY <2>1 DEF ContextInv
    <2> QED  BY <2>2, <2>4, <2>5, <2>6, <2>7, <2>8 DEF ContextInv
  <1> QED  BY <1>1, <1>2, <1>3, <1>4, <1>5, <1>6, <1>7, <1>8 DEF Context!Next

(* For every provider, the call of a tool result is an item before it.     *)
LEMMA ItemsFollow == ContextInv => Context!ResultsFollowCalls
  <1> SUFFICES ASSUME ContextInv, NEW provider \in Context!Providers, NEW b \in Context!Places(provider),
                      Context!ItemAt(b, provider).kind = "result"
               PROVE  \E a \in Context!Places(provider) :
                         /\ Context!Before(a, b) /\ Context!ItemAt(a, provider).kind = "call"
                         /\ Context!ItemAt(b, provider).calls \subseteq Context!ItemAt(a, provider).calls
    BY DEF Context!ResultsFollowCalls
  <1>1. PICK k \in DOMAIN request, p \in 1..2 :
           b = <<k, p>> /\ p \in DOMAIN Context!Pieces(request[k], provider)
    BY DEF Context!Places
  <1>2. request \in Seq(ContextMessage) /\ request[k] \in ContextMessage /\ Followed(request)
    BY <1>1 DEF ContextInv, ContextTypes, Sound
  <1>3. Context!ItemAt(b, provider) = Context!Pieces(request[k], provider)[p]  BY <1>1 DEF Context!ItemAt
  <1>4. request[k].role = "tool" /\ Context!ItemAt(b, provider).calls = request[k].calls
    BY <1>1, <1>2, <1>3 DEF Context!Pieces, Context!Piece, ContextMessage
  <1>5. PICK j \in DOMAIN request : /\ j < k /\ request[j].role = "assistant"
                                    /\ request[k].calls # {} /\ request[k].calls \subseteq request[j].calls
    BY <1>1, <1>2, <1>4 DEF Followed, CalledAt
  <1>6. request[j].calls # {}  BY <1>5
  <1>7. 1 \in DOMAIN Context!Pieces(request[j], provider) /\ Context!Pieces(request[j], provider)[1] = Context!Piece("call", request[j].calls)
    BY <1>5, <1>6 DEF Context!Pieces, Context!Providers
  <1>8. PICK a : a = <<j, 1>>  OBVIOUS
  <1>9. a \in Context!Places(provider)  BY <1>5, <1>7, <1>8 DEF Context!Places
  <1>10. Context!ItemAt(a, provider) = Context!Piece("call", request[j].calls)  BY <1>7, <1>8 DEF Context!ItemAt
  <1>11. Context!Before(a, b)  BY <1>1, <1>5, <1>8 DEF Context!Before
  <1> QED  BY <1>4, <1>5, <1>9, <1>10, <1>11 DEF Context!Piece

LEMMA ContextSafe == ContextInv => Context!RequestsAreValid
  <1> SUFFICES ASSUME ContextInv  PROVE Context!RequestsAreValid  OBVIOUS
  <1>1. Context!UnansweredWereCutShort
    <2> SUFFICES ASSUME NEW k \in DOMAIN request, request[k].role = "assistant",
                        request[k].turn \notin short, NEW c \in request[k].calls
                 PROVE  c \in UNION {request[j].calls : j \in {j \in DOMAIN request : request[j].role = "tool"}}
      BY DEF Context!UnansweredWereCutShort
    <2>1. ResultAt(request, k, c)  BY DEF ContextInv, Sound, Answers
    <2> QED  BY <2>1 DEF ResultAt
  <1>2. Context!PromptIsSent  BY DEF ContextInv, Context!PromptIsSent, Prompting
  <1> QED  BY <1>1, <1>2, ItemsFollow DEF Context!RequestsAreValid

(* Every request the engine sends is one its provider can take, however    *)
(* the history was compacted, rescued, stopped and saved before            *)
(* (_execute, _compact, ContextPacker, providers/serialization.py).        *)
THEOREM RequestsStayValid ==
    ASSUME MaxCalls \in Nat  PROVE Context!Spec => []RequestsAreValid
  <1>1. Context!Init => ContextInv  BY ContextInit
  <1>2. ContextInv /\ [Context!Next]_(Context!vars) => ContextInv'  BY ContextNext
  <1>3. ContextInv => RequestsAreValid  BY ContextSafe DEF RequestsAreValid
  <1> QED  BY <1>1, <1>2, <1>3, PTL DEF Context!Spec
==============================================================================
