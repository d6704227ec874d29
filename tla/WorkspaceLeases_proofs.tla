----------------------- MODULE WorkspaceLeases_proofs -----------------------
(* Proofs of the safety properties of WorkspaceLeases for any finite set   *)
(* of tasks.                                                               *)
EXTENDS WorkspaceLeases, FiniteSetTheorems, TLAPS

(* The five state invariants together are inductive. *)
Inv ==
    /\ TypeOK
    /\ CountersMatch
    /\ Exclusion
    /\ StableIdentity
    /\ NoLostWakeup

(* The tasks in a set of states can be counted. *)
LEMMA CountIn ==
    ASSUME NEW S
    PROVE  /\ IsFiniteSet(In(S))
           /\ Cardinality(In(S)) \in Nat
           /\ Cardinality(In(S)) = 0 <=> In(S) = {}
  <1>1. IsFiniteSet(In(S))
    <2>1. In(S) \in SUBSET Task  BY DEF In
    <2>2. IsFiniteSet(Task)  BY LeaseAssumption
    <2> QED  BY <2>1, <2>2, FS_Subset
  <1>2. Cardinality(In(S)) \in Nat  BY <1>1, FS_CardinalityType
  <1>3. Cardinality(In(S)) = 0 <=> In(S) = {}  BY <1>1, FS_EmptySet
  <1> QED  BY <1>1, <1>2, <1>3

(* One task moving to a state takes it out of the sets of states it was in *)
(* and puts it in those of its new state; the counts follow.               *)
LEMMA MoveIn ==
    ASSUME TypeOK, NEW t \in Task, NEW s, Goto(t, s), NEW S
    PROVE  /\ s \in S => In(S)' = In(S) \cup {t}
           /\ s \notin S => In(S)' = In(S) \ {t}
           /\ t \in In(S) <=> pc[t] \in S
           /\ s \in S => Cardinality(In(S)') =
                  IF pc[t] \in S THEN Cardinality(In(S)) ELSE Cardinality(In(S)) + 1
           /\ s \notin S => Cardinality(In(S)') =
                  IF pc[t] \in S THEN Cardinality(In(S)) - 1 ELSE Cardinality(In(S))
  <1>1. s \in S => In(S)' = In(S) \cup {t}  BY DEF TypeOK, Goto, In
  <1>2. s \notin S => In(S)' = In(S) \ {t}  BY DEF TypeOK, Goto, In
  <1>3. t \in In(S) <=> pc[t] \in S  BY DEF In
  <1>4. IsFiniteSet(In(S))  BY CountIn
  <1>5. s \in S => Cardinality(In(S)') =
            IF pc[t] \in S THEN Cardinality(In(S)) ELSE Cardinality(In(S)) + 1
    BY <1>1, <1>3, <1>4, FS_AddElement
  <1>6. s \notin S => Cardinality(In(S)') =
            IF pc[t] \in S THEN Cardinality(In(S)) - 1 ELSE Cardinality(In(S))
    BY <1>2, <1>3, <1>4, FS_RemoveElement
  <1> QED  BY <1>1, <1>2, <1>3, <1>5, <1>6

(* The three sets of states the counters count, after a move. *)
LEMMA MoveCounts ==
    ASSUME TypeOK, NEW t \in Task, NEW s, Goto(t, s)
    PROVE  /\ Cardinality(In({"reading"})') =
                 Cardinality(In({"reading"}))
                 + (IF s = "reading" THEN 1 ELSE 0)
                 - (IF pc[t] = "reading" THEN 1 ELSE 0)
           /\ Cardinality(In(WriteWaiting)') =
                 Cardinality(In(WriteWaiting))
                 + (IF s \in WriteWaiting THEN 1 ELSE 0)
                 - (IF pc[t] \in WriteWaiting THEN 1 ELSE 0)
           /\ In({"reading"})' = IF s = "reading" THEN In({"reading"}) \cup {t}
                                                  ELSE In({"reading"}) \ {t}
           /\ In({"writing"})' = IF s = "writing" THEN In({"writing"}) \cup {t}
                                                  ELSE In({"writing"}) \ {t}
           /\ In(WriteWaiting)' = IF s \in WriteWaiting THEN In(WriteWaiting) \cup {t}
                                                  ELSE In(WriteWaiting) \ {t}
           /\ In(AnyWaiting)' = IF s \in AnyWaiting THEN In(AnyWaiting) \cup {t}
                                                    ELSE In(AnyWaiting) \ {t}
  <1>1. Cardinality(In({"reading"})) \in Nat /\ Cardinality(In(WriteWaiting)) \in Nat
    BY CountIn
  <1>2. Cardinality(In({"reading"})') =
            Cardinality(In({"reading"}))
            + (IF s = "reading" THEN 1 ELSE 0) - (IF pc[t] = "reading" THEN 1 ELSE 0)
    BY <1>1, MoveIn
  <1>3. Cardinality(In(WriteWaiting)') =
            Cardinality(In(WriteWaiting))
            + (IF s \in WriteWaiting THEN 1 ELSE 0)
            - (IF pc[t] \in WriteWaiting THEN 1 ELSE 0)
    BY <1>1, MoveIn
  <1>4. In({"reading"})' = IF s = "reading" THEN In({"reading"}) \cup {t}
                                            ELSE In({"reading"}) \ {t}
    BY MoveIn
  <1>5. In({"writing"})' = IF s = "writing" THEN In({"writing"}) \cup {t}
                                            ELSE In({"writing"}) \ {t}
    BY MoveIn
  <1>6. In(WriteWaiting)' = IF s \in WriteWaiting THEN In(WriteWaiting) \cup {t}
                                                  ELSE In(WriteWaiting) \ {t}
    BY MoveIn
  <1>7. In(AnyWaiting)' = IF s \in AnyWaiting THEN In(AnyWaiting) \cup {t}
                                              ELSE In(AnyWaiting) \ {t}
    BY MoveIn
  <1> QED  BY <1>2, <1>3, <1>4, <1>5, <1>6, <1>7

(* Moving one counter with one task keeps the counters right.              *)
LEMMA MoveCounters ==
    ASSUME TypeOK, CountersMatch, Exclusion, NEW t \in Task, NEW s, Goto(t, s),
           readers' = readers + (IF s = "reading" THEN 1 ELSE 0)
                              - (IF pc[t] = "reading" THEN 1 ELSE 0),
           waitingWriters' = waitingWriters
                              + (IF s \in WriteWaiting THEN 1 ELSE 0)
                              - (IF pc[t] \in WriteWaiting THEN 1 ELSE 0),
           writer' <=> \/ s = "writing"
                       \/ pc[t] # "writing" /\ writer
    PROVE  CountersMatch' /\ readers' \in Nat /\ waitingWriters' \in Nat
  <1>1. readers' = Cardinality(In({"reading"})')
    BY MoveCounts DEF CountersMatch
  <1>2. waitingWriters' = Cardinality(In(WriteWaiting)')
    BY MoveCounts DEF CountersMatch
  <1>3. In({"writing"})' = IF s = "writing" THEN In({"writing"}) \cup {t}
                                            ELSE In({"writing"}) \ {t}
    BY MoveCounts
  <1>4. t \in In({"writing"}) <=> pc[t] = "writing"  BY DEF In
  <1>5. t \in In({"writing"}) => In({"writing"}) = {t}  BY DEF Exclusion
  <1>6. writer' <=> In({"writing"})' # {}
    BY <1>3, <1>4, <1>5 DEF CountersMatch
  <1>7. Cardinality(In({"reading"})') \in Nat /\ Cardinality(In(WriteWaiting)') \in Nat
    <2>1. In({"reading"})' \in SUBSET Task /\ In(WriteWaiting)' \in SUBSET Task
      BY DEF In
    <2>2. IsFiniteSet(Task)  BY LeaseAssumption
    <2> QED  BY <2>1, <2>2, FS_Subset, FS_CardinalityType
  <1> QED  BY <1>1, <1>2, <1>6, <1>7 DEF CountersMatch

(* What the counters say about who holds, in the form the steps use.       *)
LEMMA CountersRead ==
    ASSUME Inv
    PROVE  /\ readers = 0 <=> In({"reading"}) = {}
           /\ waitingWriters = 0 <=> In(WriteWaiting) = {}
           /\ writer <=> In({"writing"}) # {}
  BY CountIn DEF Inv, CountersMatch

(* After a notify_all by t nobody is asleep but possibly t itself.         *)
LEMMA NotifiedAll ==
    ASSUME TypeOK, NEW t \in Task, NEW s, Goto(t, s), s \notin AnyWaiting,
           NotifyOthers(t)
    PROVE  /\ woken' \in SUBSET Task
           /\ NoLostWakeup'
  <1>1. In(AnyWaiting)' = In(AnyWaiting) \ {t}  BY MoveCounts
  <1>2. woken' = In(AnyWaiting) \ {t}  BY DEF NotifyOthers
  <1>3. In(AnyWaiting) \in SUBSET Task  BY DEF In
  <1> QED  BY <1>1, <1>2, <1>3 DEF NoLostWakeup

LEMMA ReadStep ==
    ASSUME Inv, NEW t \in Readers, Read(t)
    PROVE  Inv'
  <1> t \in Task  BY DEF Task
  <1> USE DEF Inv
  <1>0. woken' = woken \ {t}  BY DEF Read
  <1>1. CASE ReadBlocked /\ Goto(t, "readWait") /\ UNCHANGED <<readers, lease>>
    <2>0. UNCHANGED <<readers, lease, writer, waitingWriters, closed, snapshot>>
      BY <1>1 DEF Read
    <2>1. TypeOK'  BY <1>0, <1>1, <2>0 DEF TypeOK, Goto, AnyWaiting, WriteWaiting
    <2>2. pc[t] \in {"idle", "readWait"}  BY DEF Read, Runnable
    <2>3. CountersMatch'
      BY <1>1, <2>0, <2>2, MoveCounters DEF WriteWaiting, TypeOK
    <2>4. In({"reading"})' = In({"reading"}) /\ In({"writing"})' = In({"writing"})
      BY <1>1, <2>2, MoveCounts, ZenonT(60) DEF In
    <2>5. Exclusion' /\ StableIdentity'  BY <2>0, <2>4 DEF Exclusion, StableIdentity
    <2>6. NoLostWakeup'
      BY <1>0, <1>1, <2>0, <2>2
      DEF NoLostWakeup, In, TypeOK, Goto, AnyWaiting, WriteWaiting, ReadBlocked, WriteBlocked
    <2> QED  BY <2>1, <2>3, <2>5, <2>6
  <1>2. CASE closed /\ Goto(t, "idle") /\ UNCHANGED <<readers, lease>>
    <2>0. UNCHANGED <<readers, lease, writer, waitingWriters, closed, snapshot>>
      BY <1>2 DEF Read
    <2>1. TypeOK'  BY <1>0, <1>2, <2>0 DEF TypeOK, Goto, AnyWaiting, WriteWaiting
    <2>2. pc[t] \in {"idle", "readWait"}  BY DEF Read, Runnable
    <2>3. CountersMatch'
      BY <1>2, <2>0, <2>2, MoveCounters DEF WriteWaiting, TypeOK
    <2>4. In({"reading"})' = In({"reading"}) /\ In({"writing"})' = In({"writing"})
      BY <1>2, <2>2, MoveCounts, ZenonT(60) DEF In
    <2>5. Exclusion' /\ StableIdentity'  BY <2>0, <2>4 DEF Exclusion, StableIdentity
    <2>6. NoLostWakeup'
      BY <1>0, <1>2, <2>0, <2>2
      DEF NoLostWakeup, In, TypeOK, Goto, AnyWaiting, WriteWaiting, ReadBlocked, WriteBlocked
    <2> QED  BY <2>1, <2>3, <2>5, <2>6
  <1>3. CASE /\ ~closed /\ ~ReadBlocked
             /\ Goto(t, "reading")
             /\ readers' = readers + 1
             /\ lease' = [lease EXCEPT ![t] = snapshot]
    <2>0. UNCHANGED <<writer, waitingWriters, closed, snapshot>>  BY DEF Read
    <2>1. TypeOK'  BY <1>0, <1>3, <2>0 DEF TypeOK, Goto, AnyWaiting, WriteWaiting
    <2>2. pc[t] \in {"idle", "readWait"}  BY DEF Read, Runnable
    <2>3. CountersMatch'
      BY <1>3, <2>0, <2>2, MoveCounters DEF WriteWaiting, TypeOK
    <2>4. In({"writing"})' = {}
      <3>1. ~writer  BY <1>3 DEF ReadBlocked
      <3> QED  BY <3>1, <1>3, CountersRead, MoveCounts
    <2>5. Exclusion'  BY <2>4 DEF Exclusion
    <2>6. In({"reading"})' = In({"reading"}) \cup {t}  BY <1>3, MoveCounts
    <2>7. StableIdentity'
      BY <1>3, <2>0, <2>6 DEF StableIdentity, TypeOK, In
    <2>8. NoLostWakeup'
      BY <1>0, <1>3, <2>0, <2>2
      DEF NoLostWakeup, In, TypeOK, Goto, AnyWaiting, WriteWaiting, ReadBlocked, WriteBlocked
    <2> QED  BY <2>1, <2>3, <2>5, <2>7, <2>8
  <1> QED  BY <1>1, <1>2, <1>3 DEF Read

(* The three ways a pass through the loop of write() ends, for a caller of *)
(* write() and for one of bump_revision().                                 *)
LEMMA WriteSleepStep ==
    ASSUME Inv, NEW t \in Writers, NEW wait \in WriteWaiting, WriteSleep(t, wait)
    PROVE  Inv'
  <1> t \in Task  BY DEF Task
  <1> USE DEF Inv
  <1>1. pc[t] \in {"idle", wait}  BY DEF WriteSleep, Runnable
  <1>2. Goto(t, wait) /\ WriteBlocked /\ woken' = woken \ {t}
    BY DEF WriteSleep
  <1>3. UNCHANGED <<readers, writer, closed, snapshot, lease>>  BY DEF WriteSleep
  <1>4. waitingWriters' = waitingWriters + 1 - (IF pc[t] \in WriteWaiting THEN 1 ELSE 0)
    BY <1>1 DEF WriteSleep, OthersWaiting, TypeOK, WriteWaiting
  <1>5. CountersMatch' /\ waitingWriters' \in Nat
    BY <1>1, <1>2, <1>3, <1>4, MoveCounters DEF WriteWaiting, TypeOK
  <1>6. TypeOK'
    BY <1>2, <1>3, <1>5 DEF TypeOK, Goto, AnyWaiting, WriteWaiting
  <1>7. In({"reading"})' = In({"reading"}) /\ In({"writing"})' = In({"writing"})
    BY <1>1, <1>2 DEF Goto, In, TypeOK, WriteWaiting
  <1>8. Exclusion' /\ StableIdentity'  BY <1>3, <1>7 DEF Exclusion, StableIdentity
  <1>9. NoLostWakeup'
    <2>1. waitingWriters' > 0
      <3>1. t \in In(WriteWaiting)'  BY <1>2, MoveCounts
      <3>2. In(WriteWaiting)' \in SUBSET Task /\ IsFiniteSet(Task)
        BY LeaseAssumption DEF In
      <3>3. Cardinality(In(WriteWaiting)') # 0  BY <3>1, <3>2, FS_Subset, FS_EmptySet
      <3> QED  BY <3>3, <1>5 DEF CountersMatch
    <2>2. ReadBlocked' /\ WriteBlocked'
      BY <1>2, <1>3, <2>1 DEF ReadBlocked, WriteBlocked
    <2> QED  BY <2>2 DEF NoLostWakeup
  <1> QED  BY <1>5, <1>6, <1>8, <1>9

LEMMA WriteRefusedStep ==
    ASSUME Inv, NEW t \in Writers, NEW wait \in WriteWaiting, WriteRefused(t, wait)
    PROVE  Inv'
  <1> t \in Task  BY DEF Task
  <1> USE DEF Inv
  <1>1. pc[t] \in {"idle", wait}  BY DEF WriteRefused, Runnable
  <1>2. Goto(t, "idle") /\ NotifyOthers(t)  BY DEF WriteRefused
  <1>3. UNCHANGED <<readers, writer, closed, snapshot, lease>>  BY DEF WriteRefused
  <1>4. waitingWriters' = waitingWriters - (IF pc[t] \in WriteWaiting THEN 1 ELSE 0)
    BY <1>1 DEF WriteRefused, OthersWaiting, TypeOK, WriteWaiting
  <1>5. CountersMatch' /\ waitingWriters' \in Nat
    BY <1>1, <1>2, <1>3, <1>4, MoveCounters DEF WriteWaiting, TypeOK
  <1>6. woken' \in SUBSET Task /\ NoLostWakeup'
    BY <1>2, NotifiedAll DEF AnyWaiting, WriteWaiting
  <1>7. TypeOK'  BY <1>2, <1>3, <1>5, <1>6 DEF TypeOK, Goto
  <1>8. In({"reading"})' = In({"reading"}) /\ In({"writing"})' = In({"writing"})
    BY <1>1, <1>2 DEF Goto, In, TypeOK, WriteWaiting
  <1>9. Exclusion' /\ StableIdentity'  BY <1>3, <1>8 DEF Exclusion, StableIdentity
  <1> QED  BY <1>5, <1>6, <1>7, <1>9

LEMMA WriteGrantedStep ==
    ASSUME Inv, NEW t \in Writers, WriteGranted(t)
    PROVE  Inv'
  <1> t \in Task  BY DEF Task
  <1> USE DEF Inv
  <1>1. pc[t] \in {"idle", "writeWait"}  BY DEF WriteGranted, Runnable
  <1>2. Goto(t, "writing") /\ NotifyOthers(t) /\ writer'  BY DEF WriteGranted
  <1>3. UNCHANGED <<readers, closed, snapshot>>  BY DEF WriteGranted
  <1>4. waitingWriters' = waitingWriters - (IF pc[t] \in WriteWaiting THEN 1 ELSE 0)
    BY <1>1 DEF WriteGranted, OthersWaiting, TypeOK, WriteWaiting
  <1>5. CountersMatch' /\ waitingWriters' \in Nat
    BY <1>1, <1>2, <1>3, <1>4, MoveCounters DEF WriteWaiting, TypeOK
  <1>6. woken' \in SUBSET Task /\ NoLostWakeup'
    BY <1>2, NotifiedAll DEF AnyWaiting, WriteWaiting
  <1>7. TypeOK'
    <2>1. lease' = [lease EXCEPT ![t] = snapshot] /\ writer' = TRUE  BY DEF WriteGranted
    <2> QED  BY <1>2, <1>3, <1>5, <1>6, <2>1 DEF TypeOK, Goto
  <1>8. ~writer /\ readers = 0
    BY DEF WriteGranted, WriteBlocked, TypeOK
  <1>9. In({"reading"})' = {} /\ In({"writing"})' = {t}
    <2>1. In({"reading"}) = {} /\ In({"writing"}) = {}  BY <1>8, CountersRead
    <2> QED  BY <1>2, <2>1 DEF Goto, In, TypeOK
  <1>10. Exclusion' /\ StableIdentity'  BY <1>9 DEF Exclusion, StableIdentity
  <1> QED  BY <1>5, <1>6, <1>7, <1>10

LEMMA BumpGrantedStep ==
    ASSUME Inv, NEW t \in Writers, BumpGranted(t)
    PROVE  Inv'
  <1> t \in Task  BY DEF Task
  <1> USE DEF Inv
  <1>1. pc[t] \in {"idle", "bumpWait"}  BY DEF BumpGranted, Runnable
  <1>2. Goto(t, "idle") /\ NotifyOthers(t)  BY DEF BumpGranted
  <1>3. UNCHANGED <<readers, writer, closed, lease>>  BY DEF BumpGranted
  <1>4. waitingWriters' = waitingWriters - (IF pc[t] \in WriteWaiting THEN 1 ELSE 0)
    BY <1>1 DEF BumpGranted, OthersWaiting, TypeOK, WriteWaiting
  <1>5. CountersMatch' /\ waitingWriters' \in Nat
    BY <1>1, <1>2, <1>3, <1>4, MoveCounters DEF WriteWaiting, TypeOK
  <1>6. woken' \in SUBSET Task /\ NoLostWakeup'
    BY <1>2, NotifiedAll DEF AnyWaiting, WriteWaiting
  <1>7. TypeOK'
    <2>1. snapshot' = [snapshot EXCEPT !.revision = @ + 1]  BY DEF BumpGranted
    <2>2. snapshot' \in Snapshot  BY <2>1 DEF TypeOK, Snapshot
    <2> QED  BY <1>2, <1>3, <1>5, <1>6, <2>2 DEF TypeOK, Goto
  <1>8. ~writer /\ readers = 0
    BY DEF BumpGranted, WriteBlocked, TypeOK
  <1>9. In({"reading"})' = {} /\ In({"writing"})' = {}
    <2>1. In({"reading"}) = {} /\ In({"writing"}) = {}  BY <1>8, CountersRead
    <2> QED  BY <1>2, <2>1 DEF Goto, In, TypeOK
  <1>10. Exclusion' /\ StableIdentity'  BY <1>9 DEF Exclusion, StableIdentity
  <1> QED  BY <1>5, <1>6, <1>7, <1>10

LEMMA UpdateStep ==
    ASSUME Inv, NEW t \in Writers, NEW root \in Root, Update(t, root)
    PROVE  Inv'
  <1> t \in Task  BY DEF Task
  <1> USE DEF Inv
  <1>1. UNCHANGED <<pc, woken, readers, writer, waitingWriters, closed, lease>>
    BY DEF Update
  <1>2. TypeOK'
    <2>1. snapshot' = [root |-> root, revision |-> snapshot.revision + 1]  BY DEF Update
    <2>2. snapshot' \in Snapshot  BY <2>1 DEF TypeOK, Snapshot
    <2> QED  BY <1>1, <2>2 DEF TypeOK
  <1>3. CountersMatch' /\ Exclusion'
    BY <1>1 DEF CountersMatch, Exclusion, In
  <1>4. In({"reading"})' = {}
    <2>1. t \in In({"writing"})  BY DEF Update, In
    <2> QED  BY <1>1, <2>1 DEF Exclusion, In
  <1>5. StableIdentity'  BY <1>4 DEF StableIdentity
  <1>6. NoLostWakeup'
    BY <1>1 DEF NoLostWakeup, In, ReadBlocked, WriteBlocked
  <1> QED  BY <1>2, <1>3, <1>5, <1>6

LEMMA ReleaseStep ==
    ASSUME Inv, NEW t \in Task, Release(t)
    PROVE  Inv'
  <1> USE DEF Inv
  <1>1. Goto(t, "idle") /\ NotifyOthers(t) /\ lease' = [lease EXCEPT ![t] = NoLease]
    BY DEF Release
  <1>2. UNCHANGED <<waitingWriters, closed, snapshot>>  BY DEF Release
  <1>3. CountersMatch' /\ readers' \in Nat /\ writer' \in BOOLEAN
    <2>1. CASE pc[t] = "writing" /\ writer' = FALSE /\ UNCHANGED readers
      <3>1. CountersMatch' /\ readers' \in Nat
        BY <1>1, <1>2, <2>1, MoveCounters DEF WriteWaiting, TypeOK
      <3> QED  BY <2>1, <3>1
    <2>2. CASE pc[t] = "reading" /\ readers' = readers - 1 /\ UNCHANGED writer
      <3>1. CountersMatch' /\ readers' \in Nat
        BY <1>1, <1>2, <2>2, MoveCounters DEF WriteWaiting, TypeOK
      <3> QED  BY <2>2, <3>1 DEF TypeOK
    <2> QED  BY <2>1, <2>2 DEF Release
  <1>4. woken' \in SUBSET Task /\ NoLostWakeup'
    BY <1>1, NotifiedAll DEF AnyWaiting, WriteWaiting
  <1>5. TypeOK'  BY <1>1, <1>2, <1>3, <1>4 DEF TypeOK, Goto
  <1>6. /\ In({"reading"})' = In({"reading"}) \ {t}
        /\ In({"writing"})' = In({"writing"}) \ {t}
    BY <1>1 DEF Goto, In, TypeOK
  <1>7. Exclusion'  BY <1>6 DEF Exclusion
  <1>8. StableIdentity'  BY <1>1, <1>2, <1>6 DEF StableIdentity, TypeOK, In
  <1> QED  BY <1>3, <1>4, <1>5, <1>7, <1>8

LEMMA CancelWaitStep ==
    ASSUME Inv, NEW t \in Task, CancelWait(t)
    PROVE  Inv'
  <1> USE DEF Inv
  <1>1. Goto(t, "idle") /\ UNCHANGED <<readers, writer, closed, snapshot, lease>>
    BY DEF CancelWait
  <1>2. pc[t] \in AnyWaiting  BY DEF CancelWait, AnyWaiting
  <1>3. /\ In({"reading"})' = In({"reading"})
        /\ In({"writing"})' = In({"writing"})
    BY <1>1, <1>2 DEF Goto, In, TypeOK, AnyWaiting, WriteWaiting
  <1>4. Exclusion' /\ StableIdentity'  BY <1>1, <1>3 DEF Exclusion, StableIdentity
  <1>5. CASE pc[t] = "readWait" /\ woken' = woken \ {t} /\ UNCHANGED waitingWriters
    <2>1. CountersMatch'
      BY <1>1, <1>5, MoveCounters DEF WriteWaiting, TypeOK
    <2>2. TypeOK'  BY <1>1, <1>5 DEF TypeOK, Goto
    <2>3. NoLostWakeup'
      BY <1>1, <1>5
      DEF NoLostWakeup, In, TypeOK, Goto, AnyWaiting, WriteWaiting, ReadBlocked, WriteBlocked
    <2> QED  BY <1>4, <2>1, <2>2, <2>3
  <1>6. CASE /\ pc[t] \in WriteWaiting
             /\ waitingWriters' = waitingWriters - 1
             /\ NotifyOthers(t)
    <2>1. CountersMatch' /\ waitingWriters' \in Nat
      BY <1>1, <1>6, MoveCounters DEF WriteWaiting, TypeOK
    <2>2. woken' \in SUBSET Task /\ NoLostWakeup'
      BY <1>1, <1>6, NotifiedAll DEF AnyWaiting, WriteWaiting
    <2>3. TypeOK'  BY <1>1, <2>1, <2>2 DEF TypeOK, Goto
    <2> QED  BY <1>4, <2>1, <2>2, <2>3
  <1> QED  BY <1>5, <1>6 DEF CancelWait

LEMMA CloseStep ==
    ASSUME Inv, Close
    PROVE  Inv'
  <1> USE DEF Inv
  <1>1. UNCHANGED <<pc, readers, writer, waitingWriters, snapshot, lease>>
    BY DEF Close
  <1>2. closed' = TRUE /\ woken' = In(AnyWaiting)  BY DEF Close
  <1>3. TypeOK'
    <2>1. In(AnyWaiting) \in SUBSET Task  BY DEF In
    <2> QED  BY <1>1, <1>2, <2>1 DEF TypeOK
  <1>4. CountersMatch' /\ Exclusion' /\ StableIdentity'
    BY <1>1 DEF CountersMatch, Exclusion, StableIdentity, In
  <1>5. NoLostWakeup'  BY <1>1, <1>2 DEF NoLostWakeup, In
  <1> QED  BY <1>3, <1>4, <1>5

(* The invariant holds in every reachable state: the counters are exact,   *)
(* writers are alone, readers keep the workspace they were given and no    *)
(* waiter sleeps through its chance, for any number of tasks.              *)
THEOREM InvInvariant == Spec => []Inv
  <1>1. Init => Inv
    <2> SUFFICES ASSUME Init PROVE Inv
      OBVIOUS
    <2>1. TypeOK
      <3>1. snapshot \in Snapshot  BY DEF Init, Snapshot
      <3> QED  BY <3>1 DEF Init, TypeOK
    <2>2. \A S : "idle" \notin S => In(S) = {}  BY DEF Init, In
    <2>3. In({"reading"}) = {} /\ In({"writing"}) = {} /\ In(WriteWaiting) = {}
          /\ In(AnyWaiting) = {}
      BY <2>2 DEF WriteWaiting, AnyWaiting
    <2>4. CountersMatch
      BY <2>3, FS_EmptySet DEF Init, CountersMatch
    <2>5. Exclusion /\ StableIdentity /\ NoLostWakeup
      BY <2>3 DEF Exclusion, StableIdentity, NoLostWakeup
    <2> QED  BY <2>1, <2>4, <2>5 DEF Inv
  <1>2. Inv /\ [Next]_vars => Inv'
    <2> SUFFICES ASSUME Inv, [Next]_vars PROVE Inv'
      OBVIOUS
    <2> "writeWait" \in WriteWaiting /\ "bumpWait" \in WriteWaiting
      BY DEF WriteWaiting
    <2>1. CASE \E t \in Readers : Read(t)  BY <2>1, ReadStep
    <2>2. CASE \E t \in Writers : Write(t)
      BY <2>2, WriteSleepStep, WriteRefusedStep, WriteGrantedStep DEF Write
    <2>3. CASE \E t \in Writers : Bump(t)
      BY <2>3, WriteSleepStep, WriteRefusedStep, BumpGrantedStep DEF Bump
    <2>4. CASE \E t \in Writers, root \in Root : Update(t, root)
      BY <2>4, UpdateStep
    <2>5. CASE \E t \in Task : Release(t)  BY <2>5, ReleaseStep
    <2>6. CASE \E t \in Task : CancelWait(t)  BY <2>6, CancelWaitStep
    <2>7. CASE Close  BY <2>7, CloseStep
    <2>8. CASE UNCHANGED vars
      BY <2>8 DEF vars, Inv, TypeOK, CountersMatch, Exclusion, StableIdentity,
                  NoLostWakeup, In, ReadBlocked, WriteBlocked
    <2> QED  BY <2>1, <2>2, <2>3, <2>4, <2>5, <2>6, <2>7, <2>8 DEF Next
  <1> QED  BY <1>1, <1>2, PTL DEF Spec

(* A reader keeps the root and the revision it was given.                  *)
THEOREM ReadersKeepIdentity == Spec => [](Exclusion /\ StableIdentity)
  <1>1. Inv => Exclusion /\ StableIdentity  BY DEF Inv
  <1> QED  BY <1>1, InvInvariant, PTL

(* No wake-up is lost.                                                     *)
THEOREM WakeupsReachTheirWaiters == Spec => []NoLostWakeup
  <1>1. Inv => NoLostWakeup  BY DEF Inv
  <1> QED  BY <1>1, InvInvariant, PTL

(* No read lease is granted past a queued writer.                          *)
THEOREM WritersComeFirst == Spec => WriterPreferred
  <1> DEFINE A == \A t \in Task :
          pc[t] # "reading" /\ pc'[t] = "reading" => In(WriteWaiting) = {}
  <1>1. Inv /\ [Next]_vars => [A]_vars
    <2> SUFFICES ASSUME Inv, Next, NEW t \in Task,
                        pc[t] # "reading", pc'[t] = "reading"
                 PROVE  In(WriteWaiting) = {}
      BY DEF vars
    <2>1. PICK u \in Readers : Read(u)
      BY DEF Next, Inv, TypeOK, Goto, Write, Bump, WriteSleep, WriteRefused, WriteGranted,
             BumpGranted, Update, Release, CancelWait, Close
    <2>2. ~ReadBlocked /\ ~closed
      BY <2>1 DEF Read, Goto, Inv, TypeOK
    <2>3. waitingWriters = 0  BY <2>2 DEF ReadBlocked, Inv, TypeOK
    <2> QED  BY <2>3, CountersRead
  <1>2. Spec => [][A]_vars  BY <1>1, InvInvariant, PTL DEF Spec
  <1> QED  BY <1>2 DEF WriterPreferred
=============================================================================
