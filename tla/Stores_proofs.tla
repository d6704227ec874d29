---------------------------- MODULE Stores_proofs ----------------------------
(* Proofs about the components the suite "stores" explores beside the      *)
(* conversations, each for any values of its constants.  They share        *)
(* nothing, so each is an instance of its own.                             *)
EXTENDS StoreParts, Integers, Sequences, SequenceTheorems, FiniteSetTheorems,
        WellFoundedInduction, TLAPS

(* Every set of numbers that is not empty has a smallest one. *)
LEMMA Smallest ==
    ASSUME NEW S \in SUBSET Nat, S # {}
    PROVE  \E m \in S : \A n \in S : m <= n
  <1> DEFINE R == OpToRel(<, Nat)
  <1>1. IsWellFoundedOn(R, Nat)  BY NatLessThanWellFounded
  <1>2. \A x, y \in Nat : <<x, y>> \in R <=> x < y  BY DEF OpToRel
  <1> HIDE DEF R
  <1>3. PICK m \in S : \A n \in S : ~(<<n, m>> \in R)  BY <1>1, WFMin
  <1>4. \A n \in S : m <= n
    <2> TAKE n \in S
    <2>1. ~(n < m)  BY <1>2, <1>3
    <2> QED  BY <2>1
  <1> QED  BY <1>4

----------------------------------------------------------------------------
(* The trust of skills: what each step of a call has compared.  The digest *)
(* about to be saved is confirmed already; the one the second snapshot has *)
(* to repeat was in the store, hence confirmed.                            *)
Vouched == approved \cup {Skills!NoDigest}
Step == {"idle", "viewing", "trusting", "saving", "before", "after", "revoking", "clearing"}
SkillCall == [step : Step, at : Nat \ {0}, got : Seq(Content), want : Seq(Content)]
CallOK(w) == /\ w \in SkillCall
             /\ w.step = "saving" => w.want \in approved
             /\ w.step = "after" => w.want \in Vouched

TrustInv ==
    /\ directory \in [Skills!File -> Content]
    /\ shown \in Seq(Content) /\ store \in Seq(Content)
    /\ store \in Vouched /\ loaded \in Vouched
    /\ request \in [Caller -> SkillCall]
    /\ \A c \in Caller : CallOK(request[c])

(* A call may go on with w when nothing that was confirmed is forgotten.   *)
LEMMA TrustGoes ==
    ASSUME TrustInv, NEW c \in Caller, NEW w, CallOK(w)',
           request' = [request EXCEPT ![c] = w],
           approved \subseteq approved', directory' = directory,
           shown' \in Seq(Content), store' \in Seq(Content),
           store' \in Vouched', loaded' \in Vouched'
    PROVE  TrustInv'
  <1>1. w \in SkillCall /\ Vouched \subseteq Vouched'  BY DEF CallOK, Vouched, Skills!NoDigest, SkillCall
  <1>2. request' \in [Caller -> SkillCall]  BY <1>1 DEF TrustInv
  <1>3. \A d \in Caller : request'[d] = IF d = c THEN w ELSE request[d]  BY DEF TrustInv
  <1>4. \A d \in Caller : CallOK(request[d])'  BY <1>1, <1>3 DEF TrustInv, CallOK
  <1> QED  BY <1>2, <1>4 DEF TrustInv, Skills!File

(* It goes to a step with nothing read yet, or it is over.                 *)
LEMMA TrustTurns ==
    ASSUME NEW step \in Step, NEW want \in Seq(Content),
           step = "saving" => want \in approved,
           step = "after" => want \in Vouched
    PROVE  /\ CallOK([step |-> step, at |-> 1, got |-> Skills!NoDigest, want |-> want])
           /\ CallOK(Skills!Nothing)
  <1>1. Skills!NoDigest \in Seq(Content)  BY DEF Skills!NoDigest
  <1>2. Skills!Nothing = [step |-> "idle", at |-> 1, got |-> Skills!NoDigest, want |-> Skills!NoDigest]
    BY DEF Skills!Nothing
  <1> HIDE DEF Skills!NoDigest
  <1>3. CallOK([step |-> step, at |-> 1, got |-> Skills!NoDigest, want |-> want])
    BY <1>1 DEF CallOK, SkillCall
  <1>4. CallOK(Skills!Nothing)  BY <1>1, <1>2 DEF CallOK, SkillCall, Step
  <1> QED  BY <1>3, <1>4

LEMMA TrustInvInit == Skills!Init => TrustInv
  <1> SUFFICES ASSUME Skills!Init  PROVE TrustInv  OBVIOUS
  <1>1. Skills!NoDigest \in Seq(Content)  BY DEF Skills!NoDigest
  <1>2. Skills!Nothing \in SkillCall /\ CallOK(Skills!Nothing)
    <2>1. "idle" \in Step  BY DEF Step
    <2> QED  BY <1>1, <2>1, TrustTurns DEF CallOK
  <1> QED  BY <1>1, <1>2 DEF Skills!Init, TrustInv, Vouched, Skills!Digest

LEMMA TrustInvStep == TrustInv /\ [Skills!Next]_(Skills!skillVars) => TrustInv'
  <1> SUFFICES ASSUME TrustInv, [Skills!Next]_(Skills!skillVars)  PROVE TrustInv'  OBVIOUS
  <1>0. Skills!NoDigest \in Seq(Content)  BY DEF Skills!NoDigest
  <1>00. CallOK(Skills!Nothing)
    <2>1. "idle" \in Step  BY DEF Step
    <2> QED  BY <1>0, <2>1, TrustTurns
  <1>1. CASE UNCHANGED Skills!skillVars
    BY <1>1 DEF TrustInv, Skills!skillVars, CallOK, Vouched
  <1>2. CASE Skills!EditDirectory
    BY <1>2 DEF TrustInv, Skills!EditDirectory, CallOK, Vouched
  <1>3. CASE Skills!Restart
    <2>1. CallOK(Skills!Nothing)'
      <3>1. CallOK(Skills!Nothing)  BY <1>00
      <3> QED  BY <3>1, <1>3 DEF Skills!Restart, CallOK, Vouched, Skills!Nothing
    <2> QED  BY <1>0, <1>3, <2>1 DEF TrustInv, Skills!Restart, CallOK, Vouched
  <1>4. ASSUME NEW c \in Caller, Skills!ReadFile(c)  PROVE TrustInv'
    <2> DEFINE q == request[c]
    <2>0. PICK w : w = [q EXCEPT !.got = Append(q.got, directory[q.at]), !.at = q.at + 1]
      OBVIOUS
    <2>1. q \in SkillCall /\ q.at \in Skills!File
      BY <1>4 DEF TrustInv, Skills!ReadFile, SkillCall, Skills!File
    <2>2. request' = [request EXCEPT ![c] = w]  BY <1>4, <2>0 DEF Skills!ReadFile, TrustInv, SkillCall
    <2>3. Append(q.got, directory[q.at]) \in Seq(Content) /\ q.at + 1 \in Nat \ {0}
      BY <2>1 DEF TrustInv, SkillCall
    <2>4. w \in SkillCall /\ w.step = q.step /\ w.want = q.want
      <3> DEFINE g == Append(q.got, directory[q.at])
      <3> DEFINE n == q.at + 1
      <3>1. q \in SkillCall /\ g \in Seq(Content) /\ n \in Nat \ {0}  BY <2>1, <2>3
      <3> HIDE DEF q, g, n
      <3>2. [q EXCEPT !.got = g, !.at = n] \in SkillCall  BY <3>1 DEF SkillCall
      <3>3. [q EXCEPT !.got = g, !.at = n].step = q.step  BY <3>1 DEF SkillCall
      <3>4. [q EXCEPT !.got = g, !.at = n].want = q.want  BY <3>1 DEF SkillCall
      <3> QED  BY <2>0, <3>2, <3>3, <3>4 DEF g, n, q
    <2>5. CallOK(w)'
      <3>1. CallOK(q)  BY DEF TrustInv
      <3>2. w.step = q.step /\ w.want = q.want /\ w \in SkillCall  BY <2>4
      <3>3. approved' = approved /\ directory' = directory  BY <1>4 DEF Skills!ReadFile
      <3> QED  BY <3>1, <3>2, <3>3 DEF CallOK, Vouched
    <2>6. UNCHANGED <<directory, store, loaded, shown, approved>>  BY <1>4 DEF Skills!ReadFile
    <2> QED  BY <2>2, <2>5, <2>6, TrustGoes DEF TrustInv, Vouched
  <1>5. ASSUME NEW c \in Caller, UNCHANGED <<directory, store, approved>>,
               loaded' \in Vouched, shown' \in Seq(Content),
               NEW step \in {"viewing", "trusting", "before", "after", "revoking", "clearing"},
               NEW want \in Seq(Content), step = "after" => want \in Vouched,
               Skills!Goto(c, step, want) \/ Skills!Finish(c)
        PROVE  TrustInv'
    <2>1. step \in Step /\ step # "saving"  BY <1>5 DEF Step
    <2>2. /\ CallOK([step |-> step, at |-> 1, got |-> Skills!NoDigest, want |-> want])'
          /\ CallOK(Skills!Nothing)'
      <3>1. /\ CallOK([step |-> step, at |-> 1, got |-> Skills!NoDigest, want |-> want])
            /\ CallOK(Skills!Nothing)
        BY <2>1, <1>5, TrustTurns
      <3> QED  BY <3>1, <1>5 DEF CallOK, Vouched, Skills!Nothing
    <2>3. store' \in Seq(Content) /\ store' \in Vouched' /\ loaded' \in Vouched'
      BY <1>5 DEF TrustInv, Vouched
    <2>4. CASE Skills!Goto(c, step, want)
      BY <2>4, <1>5, <2>2, <2>3, TrustGoes DEF Skills!Goto
    <2>5. CASE Skills!Finish(c)
      BY <2>5, <1>5, <2>2, <2>3, TrustGoes DEF Skills!Finish
    <2> QED  BY <1>5, <2>4, <2>5
  <1>6. ASSUME NEW c \in Caller,
               \/ Skills!Raise(c) \/ Skills!Inspect(c) \/ Skills!Show(c)
               \/ Skills!Trust(c) \/ Skills!Reload(c) \/ Skills!Revoke(c) \/ Skills!Clear(c)
        PROVE  TrustInv'
    <2>1. CASE Skills!Raise(c)  BY <2>1, <1>0, <1>5 DEF Skills!Raise, TrustInv
    <2>2. CASE Skills!Inspect(c)  BY <2>2, <1>0, <1>5 DEF Skills!Inspect, TrustInv
    <2>3. CASE Skills!Show(c)
      <3>1. request[c].got \in Seq(Content)  BY DEF TrustInv, SkillCall
      <3> QED  BY <2>3, <3>1, <1>0, <1>5 DEF Skills!Show, TrustInv
    <2>4. CASE Skills!Trust(c)  BY <2>4, <1>5 DEF Skills!Trust, TrustInv
    <2>5. CASE Skills!Reload(c)  BY <2>5, <1>0, <1>5 DEF Skills!Reload, TrustInv
    <2>6. CASE Skills!Revoke(c)  BY <2>6, <1>0, <1>5 DEF Skills!Revoke, TrustInv
    <2>7. CASE Skills!Clear(c)  BY <2>7, <1>0, <1>5 DEF Skills!Clear, TrustInv, Vouched
    <2> QED  BY <1>6, <2>1, <2>2, <2>3, <2>4, <2>5, <2>6, <2>7
  <1>7. ASSUME NEW c \in Caller, Skills!Compare(c)  PROVE TrustInv'
    <2>1. request[c].got \in Seq(Content)  BY DEF TrustInv, SkillCall
    <2>2. CASE request[c].got = store
      BY <2>1, <2>2, <1>7, <1>5 DEF Skills!Compare, TrustInv
    <2>3. CASE request[c].got # store
      BY <1>0, <2>3, <1>7, <1>5 DEF Skills!Compare, TrustInv, Vouched
    <2> QED  BY <2>2, <2>3
  <1>8. ASSUME NEW c \in Caller, Skills!Load(c)  PROVE TrustInv'
    <2>1. request[c].want \in Vouched  BY <1>8 DEF TrustInv, CallOK, Skills!Load, Skills!HasRead
    <2>2. loaded' \in Vouched  BY <2>1, <1>8 DEF Skills!Load, Vouched
    <2> QED  BY <1>0, <2>2, <1>8, <1>5 DEF Skills!Load, TrustInv
  <1>9. ASSUME NEW c \in Caller, Skills!Confirm(c)  PROVE TrustInv'
    <2> DEFINE q == request[c]
    <2>1. q \in SkillCall  BY DEF TrustInv
    <2>2. CASE Skills!Unchanged(q.want, q.got)
      <3>0. PICK w : w = [q EXCEPT !.step = "saving"]  OBVIOUS
      <3>1. request' = [request EXCEPT ![c] = w] /\ approved' = approved \cup {q.want}
        BY <1>9, <2>2, <3>0 DEF Skills!Confirm
      <3>2. w \in SkillCall /\ w.step = "saving" /\ w.want = q.want
        BY <2>1, <3>0 DEF SkillCall, Step
      <3>3. CallOK(w)'  BY <3>1, <3>2 DEF CallOK, Vouched
      <3>4. /\ approved \subseteq approved' /\ directory' = directory /\ shown' \in Seq(Content)
            /\ store' \in Seq(Content) /\ store' \in Vouched' /\ loaded' \in Vouched'
        BY <1>9, <3>1 DEF Skills!Confirm, TrustInv, Vouched
      <3> QED  BY <3>1, <3>3, <3>4, TrustGoes
    <2>3. CASE ~Skills!Unchanged(q.want, q.got)
      BY <1>0, <2>3, <1>9, <1>5 DEF Skills!Confirm, TrustInv
    <2> QED  BY <2>2, <2>3
  <1>10. ASSUME NEW c \in Caller, Skills!SaveTrust(c) \/ Skills!Forget(c)  PROVE TrustInv'
    <2>1. store' \in Seq(Content) /\ store' \in Vouched
      <3>1. request[c] \in SkillCall  BY DEF TrustInv
      <3>2. request[c].step = "saving" => request[c].want \in approved  BY DEF TrustInv, CallOK
      <3>3. CASE Skills!SaveTrust(c)
        BY <3>1, <3>2, <3>3 DEF Skills!SaveTrust, SkillCall, Vouched
      <3>4. CASE Skills!Forget(c)  BY <1>0, <3>4 DEF Skills!Forget, Vouched
      <3> QED  BY <1>10, <3>3, <3>4
    <2>2. PICK step \in {"before", "clearing"} :
             Skills!Goto(c, step, Skills!NoDigest) \/ Skills!Finish(c)
      BY <1>10 DEF Skills!SaveTrust, Skills!Forget
    <2>3. UNCHANGED <<directory, loaded, shown, approved>>
      BY <1>10 DEF Skills!SaveTrust, Skills!Forget
    <2>4. /\ CallOK([step |-> step, at |-> 1, got |-> Skills!NoDigest, want |-> Skills!NoDigest])'
          /\ CallOK(Skills!Nothing)'
      <3>1. step \in Step /\ step # "saving" /\ step # "after"  BY <2>2 DEF Step
      <3>2. /\ CallOK([step |-> step, at |-> 1, got |-> Skills!NoDigest, want |-> Skills!NoDigest])
            /\ CallOK(Skills!Nothing)
        BY <1>0, <3>1, TrustTurns
      <3> QED  BY <3>2, <2>3 DEF CallOK, Vouched, Skills!Nothing
    <2>5. loaded' \in Vouched' /\ store' \in Vouched' /\ shown' \in Seq(Content)
      BY <2>1, <2>3 DEF TrustInv, Vouched
    <2>6. CASE Skills!Goto(c, step, Skills!NoDigest)
      BY <2>6, <2>1, <2>3, <2>4, <2>5, TrustGoes DEF Skills!Goto
    <2>7. CASE Skills!Finish(c)
      BY <2>7, <2>1, <2>3, <2>4, <2>5, TrustGoes DEF Skills!Finish
    <2> QED  BY <2>2, <2>6, <2>7
  <1>11. ASSUME NEW c \in Caller, Skills!Cancel(c)  PROVE TrustInv'
    <2>1. CASE request' = request
      BY <2>1, <1>11 DEF TrustInv, CallOK, Vouched, Skills!Cancel
    <2>2. CASE request' = [request EXCEPT ![c] = Skills!Nothing]
      <3>1. CallOK(Skills!Nothing)  BY <1>00
      <3>2. CallOK(Skills!Nothing)'
        BY <3>1, <1>11 DEF CallOK, Vouched, Skills!Nothing, Skills!Cancel
      <3> QED  BY <2>2, <3>2, <1>11, TrustGoes DEF Skills!Cancel, TrustInv, Vouched
    <2> QED  BY <2>1, <2>2, <1>11 DEF Skills!Cancel
  <1> QED
    BY <1>1, <1>2, <1>3, <1>4, <1>6, <1>7, <1>8, <1>9, <1>10, <1>11 DEF Skills!Next

(* Whatever edits, cancellations and restarts happen between review,       *)
(* confirmation, parsing and activation, the registry of the kernel has    *)
(* only loaded bytes that a call of trust has confirmed, for any number of *)
(* callers, files and versions (skills/registry.py).                       *)
THEOREM LoadedSkillsWereReviewed == Skills!Spec => []Skills!OnlyReviewedIsLoaded
  <1>1. TrustInv => Skills!OnlyReviewedIsLoaded
    BY DEF TrustInv, Vouched, Skills!OnlyReviewedIsLoaded
  <1> QED  BY <1>1, TrustInvInit, TrustInvStep, PTL DEF Skills!Spec

----------------------------------------------------------------------------
(* The skills of the first generation: a thread has queued only files that *)
(* a call of trust confirmed with the digest found, and code waiting for   *)
(* the second snapshot was compiled from the bytes of that digest.         *)
Manifest == [Tools!File -> FileContent \cup {Tools!Gone}]
Found == [digest : Manifest, names : SUBSET Tools!File, trusted : SUBSET Tools!File]
Task == {"reload", "refresh", "revoke", "check", "trust"}
Purpose == {"nothing", "refresh", "reload", "load", "again", "trust"}
Thread == [start : BOOLEAN, todo : Seq(Task), reads : Purpose, left : SUBSET Tools!File,
           got : Manifest, found : Found, queue : SUBSET Tools!File, code : Manifest,
           want : Manifest]

Confirmed(m) == \A f \in Tools!File : m[f] # Tools!NoManifest => <<f, m[f]>> \in confirmed
ThreadOK(w) ==
    /\ w \in Thread
    /\ w.reads # "nothing" => w.todo # <<>>
    /\ w.reads \in {"load", "again"} => w.queue # {}
    /\ w.reads = "again" => w.code = w.found.digest
    /\ \A f \in w.queue : <<f, w.found.digest>> \in confirmed

RegistryInv ==
    /\ files \in Manifest
    /\ entries \in [Tools!File -> Manifest] /\ Confirmed(entries)
    /\ tools \in [Tools!File -> Manifest] /\ Confirmed(tools)
    /\ work \in [Caller -> Thread]
    /\ \A c \in Caller : ThreadOK(work[c])

LEMMA NoManifestType == Tools!NoManifest \in Manifest /\ Tools!NoEntries \in [Tools!File -> Manifest]
                        /\ Confirmed(Tools!NoEntries)
                        /\ Tools!NoCandidates \in Found
  BY DEF Tools!NoManifest, Tools!NoEntries, Manifest, Confirmed, Tools!NoCandidates, Found

(* A thread at rest, and one with something to do and nothing read yet.    *)
LEMMA IdleOK == ThreadOK(Tools!Idle) /\ Tools!Idle.reads = "nothing" /\ Tools!Idle.queue = {}
  <1>1. "nothing" \in Purpose /\ <<>> \in Seq(Task)  BY DEF Purpose
  <1>2. Tools!Idle \in Thread  BY <1>1, NoManifestType DEF Tools!Idle, Thread
  <1>3. Tools!Idle.reads = "nothing" /\ Tools!Idle.queue = {}  BY DEF Tools!Idle
  <1> QED  BY <1>2, <1>3 DEF ThreadOK

Fresh(s, t, m) == [Tools!Idle EXCEPT !.start = s, !.want = m, !.todo = t]

LEMMA FreshOK ==
    ASSUME NEW s \in BOOLEAN, NEW t \in Seq(Task), NEW m \in Manifest
    PROVE  ThreadOK(Fresh(s, t, m)) /\ Fresh(s, t, m).todo = t
  <1> DEFINE w == Fresh(s, t, m)
  <1>1. Tools!Idle \in Thread  BY IdleOK DEF ThreadOK
  <1>2. w \in Thread  BY <1>1 DEF Fresh, Thread
  <1>3. w.todo = t /\ w.reads = Tools!Idle.reads /\ w.queue = Tools!Idle.queue
    BY <1>1 DEF Fresh, Thread
  <1> HIDE DEF w
  <1>4. ThreadOK(w)  BY <1>2, <1>3, IdleOK DEF ThreadOK
  <1> QED  BY <1>3, <1>4 DEF w

LEMMA ReadingOK ==
    ASSUME files \in Manifest, NEW w, ThreadOK(w), w.todo # <<>>,
           NEW why \in Purpose,
           why \in {"load", "again"} => w.queue # {},
           why = "again" => w.code = w.found.digest
    PROVE  ThreadOK(Tools!Reading(w, why))
  <1> DEFINE l == {f \in Tools!File : files[f] # Tools!Gone}
  <1> DEFINE r == [w EXCEPT !.reads = why, !.got = Tools!NoManifest, !.left = l]
  <1>1. w \in Thread /\ l \in SUBSET Tools!File /\ Tools!NoManifest \in Manifest
    BY NoManifestType DEF ThreadOK
  <1> HIDE DEF l
  <1>2. r \in Thread  BY <1>1 DEF Thread
  <1>3. /\ r.reads = why /\ r.todo = w.todo /\ r.queue = w.queue /\ r.code = w.code
        /\ r.found = w.found
    BY <1>1 DEF Thread
  <1> HIDE DEF r
  <1>4. ThreadOK(r)  BY <1>2, <1>3 DEF ThreadOK
  <1> QED  BY <1>4 DEF r, l, Tools!Reading

LEMMA ReadyOK ==
    ASSUME files \in Manifest, NEW w, ThreadOK(w), w.todo # <<>>
    PROVE  ThreadOK(Tools!Ready(w))
  <1>1. CASE Head(w.todo) \in {"refresh", "trust"}
    <2>1. Head(w.todo) \in Purpose /\ ~(Head(w.todo) \in {"load", "again"})
          /\ Head(w.todo) # "again"
      BY <1>1 DEF Purpose
    <2>2. ThreadOK(Tools!Reading(w, Head(w.todo)))  BY <2>1, ReadingOK
    <2> QED  BY <1>1, <2>2 DEF Tools!Ready
  <1>2. CASE ~(Head(w.todo) \in {"refresh", "trust"})
    BY <1>2 DEF Tools!Ready
  <1> QED  BY <1>1, <1>2

LEMMA DoneOK ==
    ASSUME files \in Manifest, NEW w, ThreadOK(w), w.todo # <<>>
    PROVE  ThreadOK(Tools!Done(w))
  <1> DEFINE rest == Tail(w.todo)
  <1>1. w.todo \in Seq(Task) /\ w.start \in BOOLEAN /\ w.want \in Manifest
    BY DEF ThreadOK, Thread
  <1>2. rest \in Seq(Task)  BY <1>1
  <1> HIDE DEF rest
  <1>3. CASE rest = <<>>  BY <1>3, IdleOK DEF Tools!Done, rest
  <1>4. CASE rest # <<>>
    <2> DEFINE n == Fresh(w.start, rest, w.want)
    <2>1. ThreadOK(n) /\ n.todo # <<>>  BY <1>1, <1>2, <1>4, FreshOK
    <2> HIDE DEF n
    <2>2. ThreadOK(Tools!Ready(n))  BY <2>1, ReadyOK
    <2> QED  BY <2>2, <1>4 DEF Tools!Done, rest, n, Fresh
  <1> QED  BY <1>3, <1>4

LEMMA LoadNextOK ==
    ASSUME files \in Manifest, NEW w, ThreadOK(w), w.todo # <<>>,
           NEW found \in Found, NEW queue \in SUBSET Tools!File,
           \A f \in queue : <<f, found.digest>> \in confirmed
    PROVE  ThreadOK(Tools!LoadNext(w, found, queue))
  <1>1. CASE queue = {}  BY <1>1, DoneOK DEF Tools!LoadNext
  <1>2. CASE queue # {}
    <2> DEFINE l == {f \in Tools!File : files[f] # Tools!Gone}
    <2> DEFINE r == [Tools!Reading(w, "load") EXCEPT !.found = found, !.queue = queue]
    <2>1. w \in Thread /\ l \in SUBSET Tools!File /\ Tools!NoManifest \in Manifest
      BY NoManifestType DEF ThreadOK
    <2>2. r = [w EXCEPT !.reads = "load", !.got = Tools!NoManifest, !.left = l,
                        !.found = found, !.queue = queue]
      BY <2>1 DEF Tools!Reading, Thread
    <2> HIDE DEF l, r
    <2>3. r \in Thread  BY <2>1, <2>2 DEF Thread, Purpose
    <2>4. r.reads = "load" /\ r.todo = w.todo /\ r.queue = queue /\ r.found = found
      BY <2>1, <2>2 DEF Thread
    <2>5. ThreadOK(r)  BY <2>3, <2>4, <1>2 DEF ThreadOK
    <2> QED  BY <2>5, <1>2 DEF r, Tools!LoadNext
  <1> QED  BY <1>1, <1>2

(* What a snapshot finds trusted was confirmed with its digest.            *)
LEMMA DiscoveredOK ==
    ASSUME RegistryInv, NEW c \in Caller, NEW entry \in Tools!Readable
    PROVE  LET found == Tools!Discovered(c, entry)
           IN  found \in Found /\ \A f \in found.trusted : <<f, found.digest>> \in confirmed
  <1> DEFINE names == {f \in Tools!File : files[f] # Tools!Gone}
  <1>1. entry \in [Tools!File -> Manifest] /\ Confirmed(entry)
    BY NoManifestType DEF Tools!Readable, RegistryInv
  <1>2. work[c].got \in Manifest  BY DEF RegistryInv, Thread
  <1>3. CASE names = {}
    BY <1>3, NoManifestType DEF Tools!Discovered, Tools!NoCandidates
  <1>4. CASE names # {}
    <2> DEFINE tr == {f \in names : entry[f] = work[c].got /\ entry[f] # Tools!NoManifest}
    <2> DEFINE got == work[c].got
    <2>1. Tools!Discovered(c, entry) = [digest |-> got, names |-> names, trusted |-> tr]
      BY <1>4 DEF Tools!Discovered
    <2>2. names \in SUBSET Tools!File /\ tr \in SUBSET Tools!File /\ got \in Manifest  BY <1>2
    <2>3. \A f \in tr : <<f, got>> \in confirmed  BY <1>1 DEF Confirmed
    <2> HIDE DEF names, tr, got
    <2> QED  BY <2>1, <2>2, <2>3 DEF Found
  <1> QED  BY <1>3, <1>4

(* A thread goes on to w when nothing that was confirmed is forgotten.     *)
LEMMA RegistryGoes ==
    ASSUME RegistryInv, NEW c \in Caller, NEW w, ThreadOK(w), Tools!Goto(c, w),
           confirmed \subseteq confirmed', files' = files,
           entries' \in [Tools!File -> Manifest], Confirmed(entries)',
           tools' \in [Tools!File -> Manifest], Confirmed(tools)'
    PROVE  RegistryInv'
  <1>1. \A v : ThreadOK(v) => ThreadOK(v)'  BY DEF ThreadOK
  <1>2. w \in Thread  BY DEF ThreadOK
  <1>3. work' \in [Caller -> Thread]  BY <1>2 DEF RegistryInv, Tools!Goto
  <1>4. \A d \in Caller : work'[d] = IF d = c THEN w ELSE work[d]  BY DEF RegistryInv, Tools!Goto
  <1>5. \A d \in Caller : ThreadOK(work[d])'
    <2> TAKE d \in Caller
    <2>1. ThreadOK(work[d]) /\ ThreadOK(w)  BY DEF RegistryInv
    <2>2. PICK v : v = work'[d]  OBVIOUS
    <2>3. ThreadOK(v)  BY <1>4, <2>1, <2>2
    <2>4. ThreadOK(v)'  BY <1>1, <2>3
    <2> QED  BY <2>2, <2>4
  <1> QED  BY <1>3, <1>5 DEF RegistryInv

(* The same, where only the thread moves.                                  *)
LEMMA RegistryMoves ==
    ASSUME RegistryInv, NEW c \in Caller, NEW w, ThreadOK(w), Tools!Goto(c, w),
           UNCHANGED <<confirmed, files, entries, tools>>
    PROVE  RegistryInv'
  <1>1. /\ confirmed \subseteq confirmed'
        /\ entries' \in [Tools!File -> Manifest] /\ Confirmed(entries)'
        /\ tools' \in [Tools!File -> Manifest] /\ Confirmed(tools)'
    BY DEF RegistryInv, Confirmed
  <1> QED  BY <1>1, RegistryGoes
(* Every file a thread's snapshot or queue is about is the smallest one.   *)
LEMMA LeastFile ==
    ASSUME NFiles \in Nat, NEW S \in SUBSET Tools!File, S # {}
    PROVE  (CHOOSE f \in S : \A g \in S : f <= g) \in S
  <1>1. S \in SUBSET Nat  BY DEF Tools!File
  <1> QED  BY <1>1, Smallest

LEMMA RegistryInvInit == Tools!Init => RegistryInv
  <1> SUFFICES ASSUME Tools!Init  PROVE RegistryInv  OBVIOUS
  <1>1. /\ files \in Manifest /\ entries \in [Tools!File -> Manifest] /\ Confirmed(entries)
        /\ tools \in [Tools!File -> Manifest] /\ Confirmed(tools)
    <2>1. entries = Tools!NoEntries /\ tools = Tools!NoEntries /\ files \in Manifest
      BY DEF Tools!Init, Manifest
    <2> QED  BY <2>1, NoManifestType
  <1>2. ThreadOK([Tools!Idle EXCEPT !.start = TRUE, !.todo = <<"reload">>])
    <2>1. <<"reload">> \in Seq(Task)  BY DEF Task
    <2>2. Tools!Idle.want \in Manifest /\ Tools!Idle \in Thread  BY IdleOK DEF ThreadOK, Thread
    <2>3. [Tools!Idle EXCEPT !.start = TRUE, !.todo = <<"reload">>]
            = Fresh(TRUE, <<"reload">>, Tools!Idle.want)
      BY <2>2 DEF Fresh, Thread
    <2> QED  BY <2>1, <2>2, <2>3, FreshOK
  <1>3. \A c \in Caller : ThreadOK(Tools!Starting[c])  BY <1>2, IdleOK DEF Tools!Starting
  <1>4. work = Tools!Starting /\ Tools!Starting \in [Caller -> Thread]
    BY <1>3 DEF Tools!Init, Tools!Starting, ThreadOK
  <1> QED  BY <1>1, <1>3, <1>4 DEF RegistryInv

(* A thread that reloads has its next step from a snapshot it has read.    *)
LEMMA RefreshedStep ==
    ASSUME RegistryInv, NEW c \in Caller, NEW found, Tools!Refreshed(c, found),
           work[c].reads # "nothing"
    PROVE  RegistryInv'
  <1> DEFINE n == Fresh(work[c].start, <<"reload">> \o Tail(work[c].todo), work[c].want)
  <1>1. ThreadOK(work[c]) /\ files \in Manifest /\ work[c].todo # <<>>
    BY DEF RegistryInv, ThreadOK
  <1>2. ThreadOK(n)
    <2>1. /\ work[c].todo \in Seq(Task) /\ work[c].start \in BOOLEAN /\ work[c].want \in Manifest
      BY <1>1 DEF ThreadOK, Thread
    <2>2. Tail(work[c].todo) \in Seq(Task) /\ <<"reload">> \in Seq(Task)
      BY <1>1, <2>1 DEF Task
    <2>3. <<"reload">> \o Tail(work[c].todo) \in Seq(Task)  BY <2>2
    <2> QED  BY <2>1, <2>3, FreshOK
  <1>3. ThreadOK(Tools!Done(work[c]))  BY <1>1, DoneOK
  <1>4. PICK w : w = IF found = candidates THEN Tools!Done(work[c]) ELSE n  OBVIOUS
  <1>5. Tools!Goto(c, w)  BY <1>4 DEF Tools!Refreshed, Fresh
  <1>6. ThreadOK(w)  BY <1>2, <1>3, <1>4
  <1> QED  BY <1>5, <1>6, RegistryMoves DEF Tools!Refreshed

LEMMA AdoptedStep ==
    ASSUME RegistryInv, NEW c \in Caller, NEW found \in Found, Tools!Adopted(c, found),
           \A f \in found.trusted : <<f, found.digest>> \in confirmed,
           work[c].reads # "nothing"
    PROVE  RegistryInv'
  <1>1. ThreadOK(work[c]) /\ files \in Manifest /\ work[c].todo # <<>>
    BY DEF RegistryInv, ThreadOK
  <1>2. found.trusted \in SUBSET Tools!File  BY DEF Found
  <1>3. PICK w : w = Tools!LoadNext(work[c], found, found.trusted)  OBVIOUS
  <1>4. ThreadOK(w)  BY <1>1, <1>2, <1>3, LoadNextOK
  <1> QED  BY <1>3, <1>4, RegistryMoves DEF Tools!Adopted

(* What remains of a queue after one file, whether or not it was loaded.   *)
LEMMA NextFileOK ==
    ASSUME RegistryInv, NEW c \in Caller, work[c].reads \in {"load", "again"}
    PROVE  ThreadOK(Tools!LoadNext(work[c], work[c].found, work[c].queue \ {Tools!ThisFile(c)}))
  <1>1. ThreadOK(work[c]) /\ files \in Manifest /\ work[c].todo # <<>>
    BY DEF RegistryInv, ThreadOK
  <1>2. /\ work[c].found \in Found
        /\ work[c].queue \ {Tools!ThisFile(c)} \in SUBSET Tools!File
        /\ \A f \in work[c].queue \ {Tools!ThisFile(c)} : <<f, work[c].found.digest>> \in confirmed
    BY <1>1 DEF ThreadOK, Thread
  <1> QED  BY <1>1, <1>2, LoadNextOK

LEMMA FailsStep ==
    ASSUME RegistryInv, NEW c \in Caller, Tools!Fails(c)
    PROVE  RegistryInv'
  <1>1. CASE work[c].reads = "refresh" /\ Tools!Refreshed(c, Tools!NoCandidates)
    BY <1>1, RefreshedStep
  <1>2. CASE work[c].reads = "reload" /\ Tools!Adopted(c, Tools!NoCandidates)
    <2>1. Tools!NoCandidates \in Found /\ Tools!NoCandidates.trusted = {}
      BY NoManifestType DEF Tools!NoCandidates
    <2> QED  BY <1>2, <2>1, AdoptedStep
  <1>3. CASE work[c].reads \in {"load", "again"} /\ Tools!Skip(c)
    <2>1. PICK w : w = Tools!LoadNext(work[c], work[c].found, work[c].queue \ {Tools!ThisFile(c)})
      OBVIOUS
    <2> QED  BY <1>3, <2>1, NextFileOK, RegistryMoves DEF Tools!Skip
  <1>4. CASE /\ Tools!Finish(c)
             /\ UNCHANGED <<files, changes, entries, candidates, tools, confirmed>>
    <2>1. PICK w : w = Tools!Idle  OBVIOUS
    <2> QED  BY <1>4, <2>1, IdleOK, RegistryMoves DEF Tools!Finish
  <1> QED  BY <1>1, <1>2, <1>3, <1>4 DEF Tools!Fails

LEMMA ImportStep ==
    ASSUME RegistryInv, NEW c \in Caller, Tools!Import(c)
    PROVE  RegistryInv'
  <1> DEFINE q == work[c]
  <1>1. ThreadOK(q) /\ q.todo # <<>> /\ q.queue # {} /\ files \in Manifest
    BY DEF RegistryInv, ThreadOK, Tools!Import, Tools!HasRead
  <1>2. q.got = q.found.digest  BY DEF Tools!Import, Tools!Verified
  <1>3. PICK v : v = [q EXCEPT !.code = q.got]  OBVIOUS
  <1>4. /\ v \in Thread /\ v.code = v.found.digest /\ v.todo = q.todo /\ v.queue = q.queue
        /\ v.found = q.found /\ v.reads = "load"
    BY <1>1, <1>2, <1>3 DEF ThreadOK, Thread, Tools!Import, Tools!HasRead
  <1>5. ThreadOK(v)  BY <1>1, <1>4 DEF ThreadOK
  <1>6. PICK w : w = Tools!Reading(v, "again")  OBVIOUS
  <1>7. ThreadOK(w)  BY <1>1, <1>4, <1>5, <1>6, ReadingOK DEF Purpose
  <1>8. w = [Tools!Reading(q, "again") EXCEPT !.code = q.got]
    BY <1>1, <1>3, <1>6 DEF Tools!Reading, ThreadOK, Thread
  <1> QED  BY <1>7, <1>8, RegistryMoves DEF Tools!Import

LEMMA RegisterStep ==
    ASSUME NFiles \in Nat, RegistryInv, NEW c \in Caller, Tools!Register(c)
    PROVE  RegistryInv'
  <1> DEFINE q == work[c]
  <1>1. q.reads = "again" /\ ThreadOK(q)  BY DEF RegistryInv, Tools!Register, Tools!HasRead
  <1>2. /\ q.queue # {} /\ q.queue \in SUBSET Tools!File /\ q.code = q.found.digest
        /\ q.code \in Manifest
    BY <1>1 DEF ThreadOK, Thread
  <1>3. Tools!ThisFile(c) \in q.queue  BY <1>2, LeastFile DEF Tools!ThisFile
  <1>4. <<Tools!ThisFile(c), q.code>> \in confirmed  BY <1>1, <1>2, <1>3 DEF ThreadOK
  <1>5. PICK w : w = Tools!LoadNext(q, q.found, q.queue \ {Tools!ThisFile(c)})  OBVIOUS
  <1>6. ThreadOK(w)  BY <1>1, <1>5, NextFileOK
  <1>7. tools' = [tools EXCEPT ![Tools!ThisFile(c)] = q.code]
        /\ UNCHANGED <<files, entries, confirmed>> /\ Tools!Goto(c, w)
    BY <1>5 DEF Tools!Register
  <1>8. tools' \in [Tools!File -> Manifest]  BY <1>2, <1>7 DEF RegistryInv
  <1>9. Confirmed(tools)' /\ Confirmed(entries)'
    BY <1>4, <1>7 DEF RegistryInv, Confirmed
  <1> QED  BY <1>6, <1>7, <1>8, <1>9, RegistryGoes DEF RegistryInv

(* One write trusts every file that the confirmed digest was read with.    *)
LEMMA TrustAllStep ==
    ASSUME RegistryInv, NEW c \in Caller, Tools!TrustAll(c)
    PROVE  RegistryInv'
  <1> DEFINE found == Tools!Discovered(c, entries)
  <1> DEFINE q == work[c]
  <1>1. ThreadOK(q) /\ q.todo # <<>> /\ files \in Manifest
    BY DEF RegistryInv, ThreadOK, Tools!TrustAll, Tools!HasRead
  <1>2. CASE found.names # {} /\ found.digest = q.want
    <2> DEFINE d == Tools!Done(q)
    <2>1. ThreadOK(d)  BY <1>1, DoneOK
    <2>2. PICK w : w = [d EXCEPT !.want = Tools!NoManifest]  OBVIOUS
    <2> HIDE DEF d
    <2>3. /\ w \in Thread /\ w.reads = d.reads /\ w.todo = d.todo /\ w.queue = d.queue
          /\ w.found = d.found /\ w.code = d.code
      BY <2>1, <2>2, NoManifestType DEF ThreadOK, Thread
    <2>4. ThreadOK(w)  BY <2>1, <2>3 DEF ThreadOK
    <2>5. /\ entries' = [f \in Tools!File |-> IF f \in found.names THEN found.digest ELSE Tools!NoManifest]
          /\ confirmed' = confirmed \cup {<<f, q.want>> : f \in found.names}
          /\ Tools!Goto(c, w) /\ UNCHANGED <<files, tools>>
      BY <1>2, <2>2 DEF Tools!TrustAll, d
    <2>6. q.want \in Manifest /\ found.digest = q.want  BY <1>1, <1>2 DEF ThreadOK, Thread
    <2> HIDE DEF found
    <2>7. entries' \in [Tools!File -> Manifest]  BY <2>5, <2>6, NoManifestType
    <2>8. Confirmed(entries)'
      <3> SUFFICES ASSUME NEW f \in Tools!File, entries'[f] # Tools!NoManifest
                   PROVE  <<f, entries'[f]>> \in confirmed'
        BY DEF Confirmed, Tools!NoManifest, Tools!File
      <3>1. CASE f \in found.names
        <4>1. entries'[f] = q.want /\ <<f, q.want>> \in confirmed'  BY <1>2, <2>5, <3>1
        <4> QED  BY <4>1
      <3>2. CASE ~(f \in found.names)  BY <2>5, <3>2
      <3> QED  BY <3>1, <3>2
    <2>9. Confirmed(tools)' /\ tools' \in [Tools!File -> Manifest] /\ confirmed \subseteq confirmed'
      BY <2>5 DEF RegistryInv, Confirmed
    <2> QED  BY <2>4, <2>5, <2>7, <2>8, <2>9, RegistryGoes
  <1>3. CASE ~(found.names # {} /\ found.digest = q.want)
    <2>1. PICK w : w = Tools!Idle  OBVIOUS
    <2> QED  BY <1>3, <2>1, IdleOK, RegistryMoves DEF Tools!TrustAll, Tools!Finish
  <1> QED  BY <1>2, <1>3
LEMMA RegistryInvStep ==
    ASSUME NFiles \in Nat
    PROVE  RegistryInv /\ [Tools!Next]_(Tools!legacySkillVars) => RegistryInv'
  <1> SUFFICES ASSUME RegistryInv, [Tools!Next]_(Tools!legacySkillVars)  PROVE RegistryInv'
    OBVIOUS
  <1>1. CASE UNCHANGED Tools!legacySkillVars
    BY <1>1 DEF RegistryInv, Tools!legacySkillVars, Confirmed, ThreadOK
  <1>2. CASE Tools!EditFiles
    <2>1. files' \in Manifest  BY <1>2 DEF Tools!EditFiles, RegistryInv, Manifest
    <2> QED  BY <1>2, <2>1 DEF RegistryInv, Tools!EditFiles, Confirmed, ThreadOK
  <1>3. CASE Tools!Restart
    <2>1. RegistryInv  OBVIOUS
    <2>2. ThreadOK([Tools!Idle EXCEPT !.start = TRUE, !.todo = <<"reload">>])
      <3>1. <<"reload">> \in Seq(Task)  BY DEF Task
      <3>2. Tools!Idle.want \in Manifest /\ Tools!Idle \in Thread  BY IdleOK DEF ThreadOK, Thread
      <3>3. [Tools!Idle EXCEPT !.start = TRUE, !.todo = <<"reload">>]
              = Fresh(TRUE, <<"reload">>, Tools!Idle.want)
        BY <3>2 DEF Fresh, Thread
      <3> QED  BY ZenonT(40), <3>1, <3>2, <3>3, FreshOK
    <2>3. \A c \in Caller : ThreadOK(Tools!Starting[c])  BY <2>2, IdleOK DEF Tools!Starting
    <2>4. PICK st : st = Tools!Starting  OBVIOUS
    <2>5. st \in [Caller -> Thread] /\ \A c \in Caller : ThreadOK(st[c])
      BY <2>3, <2>4 DEF Tools!Starting, ThreadOK
    <2>6. work' = st /\ UNCHANGED <<files, entries, confirmed>> /\ tools' = Tools!NoEntries
      BY <1>3, <2>4 DEF Tools!Restart
    <2>7. \A c \in Caller : ThreadOK(st[c])'  BY <2>5, <2>6 DEF ThreadOK
    <2>8. tools' \in [Tools!File -> Manifest] /\ Confirmed(tools)' /\ Confirmed(entries)'
      BY <2>6, NoManifestType DEF RegistryInv, Confirmed, Tools!NoEntries
    <2> QED  BY <2>5, <2>6, <2>7, <2>8 DEF RegistryInv
  <1>4. ASSUME NEW c \in Caller, NEW tasks \in Seq(Task), tasks # <<>>, NEW want \in Manifest,
               Tools!Begin(c, tasks, want)
        PROVE  RegistryInv'
    <2> DEFINE n == Fresh(FALSE, tasks, want)
    <2>1. ThreadOK(n) /\ n.todo # <<>>  BY <1>4, FreshOK
    <2>2. n = [Tools!Idle EXCEPT !.todo = tasks, !.want = want]
      <3>1. Tools!Idle \in Thread /\ Tools!Idle.start = FALSE  BY IdleOK DEF ThreadOK, Tools!Idle
      <3> QED  BY <3>1 DEF Fresh, Thread
    <2> HIDE DEF n
    <2>3. PICK w : w = Tools!Ready(n)  OBVIOUS
    <2>4. ThreadOK(w)  BY <2>1, <2>3, ReadyOK DEF RegistryInv
    <2> QED  BY <1>4, <2>2, <2>3, <2>4, RegistryMoves DEF Tools!Begin
  <1>5. ASSUME NEW c \in Caller, Tools!List(c) \/ Tools!Reload(c) \/ Tools!Revoke(c) \/ Tools!Trust(c)
        PROVE  RegistryInv'
    <2>1. /\ <<"refresh">> \in Seq(Task) /\ <<"refresh">> # <<>>
          /\ <<"reload", "refresh">> \in Seq(Task) /\ <<"reload", "refresh">> # <<>>
          /\ <<"revoke", "reload", "refresh">> \in Seq(Task)
          /\ <<"revoke", "reload", "refresh">> # <<>>
          /\ <<"refresh", "check", "trust", "reload", "refresh">> \in Seq(Task)
          /\ <<"refresh", "check", "trust", "reload", "refresh">> # <<>>
      BY DEF Task
    <2>2. CASE Tools!List(c)  BY <2>1, <2>2, <1>4, NoManifestType DEF Tools!List
    <2>3. CASE Tools!Reload(c)  BY <2>1, <2>3, <1>4, NoManifestType DEF Tools!Reload
    <2>4. CASE Tools!Revoke(c)  BY <2>1, <2>4, <1>4, NoManifestType DEF Tools!Revoke
    <2>5. CASE Tools!Trust(c)  BY <2>1, <2>5, <1>4 DEF Tools!Trust, Manifest
    <2> QED  BY <1>5, <2>2, <2>3, <2>4, <2>5
  <1>6. ASSUME NEW c \in Caller, Tools!ReadFile(c)  PROVE RegistryInv'
    <2> DEFINE q == work[c]
    <2> DEFINE f == Tools!NextFile(c)
    <2>1. ThreadOK(q) /\ q.left # {} /\ q \in Thread
      BY <1>6 DEF RegistryInv, Tools!ReadFile, ThreadOK
    <2>2. f \in Tools!File /\ files[f] \in FileContent \cup {Tools!Gone}
      <3>1. q.left \in SUBSET Tools!File  BY <2>1 DEF Thread
      <3>2. f \in q.left  BY <2>1, <3>1, LeastFile DEF Tools!NextFile
      <3> QED  BY <3>1, <3>2 DEF RegistryInv, Manifest
    <2>3. PICK w : w = [q EXCEPT !.got[f] = files[f], !.left = q.left \ {f}]  OBVIOUS
    <2>4. Tools!Goto(c, w) /\ UNCHANGED <<confirmed, files, entries, tools>>
      BY <1>6, <2>1, <2>3 DEF Tools!ReadFile, Thread
    <2>5. [q.got EXCEPT ![f] = files[f]] \in Manifest /\ q.left \ {f} \in SUBSET Tools!File
      BY <2>1, <2>2 DEF Thread, Manifest
    <2> HIDE DEF q, f
    <2>6. w \in Thread  BY <2>1, <2>3, <2>5 DEF Thread
    <2>7. /\ w.reads = q.reads /\ w.todo = q.todo /\ w.queue = q.queue /\ w.found = q.found
          /\ w.code = q.code
      BY <2>1, <2>3 DEF Thread
    <2>8. ThreadOK(w)  BY <2>1, <2>6, <2>7 DEF ThreadOK
    <2> QED  BY <2>4, <2>8, RegistryMoves
  <1>7. ASSUME NEW c \in Caller, Tools!Refresh(c)  PROVE RegistryInv'
    <2>1. work[c].reads = "refresh"  BY <1>7 DEF Tools!Refresh, Tools!HasRead
    <2> QED  BY <1>7, <2>1, RefreshedStep DEF Tools!Refresh
  <1>8. ASSUME NEW c \in Caller, Tools!Unload(c)  PROVE RegistryInv'
    <2>1. ThreadOK(work[c]) /\ work[c].todo # <<>> /\ files \in Manifest
      BY <1>8 DEF RegistryInv, Tools!Unload, Tools!Does
    <2>2. PICK w : w = Tools!Reading(work[c], "reload")  OBVIOUS
    <2>3. ThreadOK(w)  BY <2>1, <2>2, ReadingOK DEF Purpose
    <2>4. Tools!Goto(c, w) /\ UNCHANGED <<files, entries, confirmed>> /\ tools' = Tools!NoEntries
      BY <1>8, <2>2 DEF Tools!Unload
    <2>5. tools' \in [Tools!File -> Manifest] /\ Confirmed(tools)' /\ Confirmed(entries)'
      BY <2>4, NoManifestType DEF RegistryInv, Confirmed, Tools!NoEntries
    <2> QED  BY <2>3, <2>4, <2>5, RegistryGoes DEF RegistryInv
  <1>9. ASSUME NEW c \in Caller, Tools!Adopt(c)  PROVE RegistryInv'
    <2>1. work[c].reads = "reload"  BY <1>9 DEF Tools!Adopt, Tools!HasRead
    <2>2. PICK entry \in Tools!Readable : Tools!Adopted(c, Tools!Discovered(c, entry))
      BY <1>9 DEF Tools!Adopt
    <2> QED  BY <2>1, <2>2, DiscoveredOK, AdoptedStep
  <1>10. ASSUME NEW c \in Caller, Tools!Check(c)  PROVE RegistryInv'
    <2>1. ThreadOK(work[c]) /\ work[c].todo # <<>> /\ files \in Manifest
      BY <1>10 DEF RegistryInv, Tools!Check, Tools!Does
    <2>2. PICK w : w = IF candidates.names # {} /\ candidates.digest = work[c].want
                         THEN Tools!Done(work[c]) ELSE Tools!Idle
      OBVIOUS
    <2>3. ThreadOK(w)  BY <2>1, <2>2, DoneOK, IdleOK
    <2> QED  BY <1>10, <2>2, <2>3, RegistryMoves DEF Tools!Check
  <1>11. ASSUME NEW c \in Caller, Tools!RevokeAll(c)  PROVE RegistryInv'
    <2>1. ThreadOK(work[c]) /\ work[c].todo # <<>> /\ files \in Manifest
      BY <1>11 DEF RegistryInv, Tools!RevokeAll, Tools!Does
    <2>2. PICK w : w = Tools!Done(work[c])  OBVIOUS
    <2>3. ThreadOK(w)  BY <2>1, <2>2, DoneOK
    <2>4. /\ Tools!Goto(c, w) /\ UNCHANGED <<files, tools, confirmed>>
          /\ entries' \in {Tools!NoEntries, entries}
      BY <1>11, <2>2 DEF Tools!RevokeAll
    <2>5. entries' \in [Tools!File -> Manifest] /\ Confirmed(tools)' /\ Confirmed(entries)'
      BY <2>4, NoManifestType DEF RegistryInv, Confirmed, Tools!NoEntries
    <2> QED  BY <2>3, <2>4, <2>5, RegistryGoes DEF RegistryInv
  <1>12. ASSUME NEW c \in Caller, Tools!StoreFails(c)  PROVE RegistryInv'
    <2>1. PICK w : w = Tools!Idle  OBVIOUS
    <2> QED  BY <1>12, <2>1, IdleOK, RegistryMoves DEF Tools!StoreFails, Tools!Finish
  <1> QED
    BY <1>1, <1>2, <1>3, <1>5, <1>6, <1>7, <1>8, <1>9, <1>10, <1>11, <1>12,
       FailsStep, ImportStep, RegisterStep, TrustAllStep DEF Tools!Next

(* A skill file's tools are registered only from bytes that a call of      *)
(* trust has confirmed for it, however the directory, the reloads and the  *)
(* listings without a lock interleave (tools/base.py:_load_skill_module).  *)
THEOREM RegisteredToolsWereConfirmed ==
    ASSUME NFiles \in Nat
    PROVE  Tools!Spec => []Tools!OnlyConfirmedIsRegistered
  <1>1. RegistryInv => Tools!OnlyConfirmedIsRegistered
    BY DEF RegistryInv, Confirmed, Tools!OnlyConfirmedIsRegistered
  <1> QED  BY <1>1, RegistryInvInit, RegistryInvStep, PTL DEF Tools!Spec

(* What runs as a skill was reviewed, in either generation: a package of   *)
(* the kernel (skills/registry.py:_reload_locked), a file of the legacy    *)
(* agent (tools/base.py:_load_skill_module).                               *)
THEOREM LoadedCodeWasReviewed ==
    ASSUME NFiles \in Nat
    PROVE  Skills!Spec /\ Tools!Spec => []OnlyReviewedIsLoaded
  <1> QED
    BY LoadedSkillsWereReviewed, RegisteredToolsWereConfirmed, PTL DEF OnlyReviewedIsLoaded

----------------------------------------------------------------------------
(* The provider catalogs: a catalog's role names one of its profiles, and  *)
(* between the write of the document and the swap only the call that has   *)
(* the lock of its process knows why the two differ.                       *)
ValidCatalog ==
    {k \in [profiles : UNION {[P -> Secret \cup {Catalog!Absent}] : P \in SUBSET Profile},
            role : Profile \cup {Catalog!Absent}] :
       k.role \in DOMAIN k.profiles \cup {Catalog!Absent}}
LiveCatalog == [rev : Nat, catalog : ValidCatalog]
CatalogFile == [rev : Nat, catalog : ValidCatalog, default : Profile \cup {Catalog!Absent}]
Holds == {"reading", "comparing", "writing", "written"}
Change == [pc : {"idle", "queued", "orphaned", "over"} \cup Holds,
           by : Process \cup {Catalog!Absent},
           kind : {"create", "update", "delete", "map", "unmap", "configure"},
           profile : Profile \cup {Catalog!Absent}, secret : Secret \cup {Catalog!Absent},
           expected : Nat, seen : Nat, catalog : ValidCatalog,
           default : Profile \cup {Catalog!Absent}, created : BOOLEAN]
ChangeOK(w) == /\ w \in Change
               /\ w.pc \in {"queued", "orphaned"} \cup Holds => w.by \in Process
               /\ w.pc = "queued" => w.profile \in Profile

CatalogTypes ==
    /\ live \in [Process -> LiveCatalog] /\ document \in CatalogFile
    /\ holder \in [Process -> Call \cup {Catalog!Absent}]
    /\ change \in [Call -> Change] /\ \A c \in Call : ChangeOK(change[c])
    /\ torn \subseteq Process /\ fresh \subseteq Process

Locked == \A o \in Process, c \in Call :
             holder[o] = c <=> change[c].by = o /\ change[c].pc \in Holds

Explained(o) ==
    \/ /\ live[o].catalog = document.catalog
       /\ \A c \in Call : change[c].pc = "written" => change[c].by # o
    \/ \E c \in Call : /\ change[c].pc = "written" /\ change[c].by = o
                       /\ document.catalog = change[c].catalog

CatalogInv ==
    /\ CatalogTypes /\ Locked
    /\ \A c \in Call : change[c].pc = "orphaned" => change[c].by \in torn
    /\ \A o \in fresh \ torn : Explained(o)

LEMMA EmptyCatalogIsValid == Catalog!EmptyCatalog \in ValidCatalog
  <1>1. {} \in SUBSET Profile /\ [p \in {} |-> Catalog!Absent] \in [{} -> Secret \cup {Catalog!Absent}]
    OBVIOUS
  <1>2. [p \in {} |-> Catalog!Absent]
          \in UNION {[P -> Secret \cup {Catalog!Absent}] : P \in SUBSET Profile}
    BY <1>1
  <1> QED  BY <1>2 DEF ValidCatalog, Catalog!EmptyCatalog

LEMMA IdleChange == ChangeOK(Catalog!Idle) /\ ChangeOK(Catalog!Over) /\ Catalog!Over.pc = "over"
  <1>1. Catalog!Idle \in Change  BY EmptyCatalogIsValid DEF Catalog!Idle, Change
  <1>2. Catalog!Idle.pc = "idle"  BY DEF Catalog!Idle
  <1>3. Catalog!Over \in Change /\ Catalog!Over.pc = "over"
    BY <1>1 DEF Catalog!Over, Change
  <1> QED  BY <1>1, <1>2, <1>3 DEF ChangeOK, Holds

(* What a mutation makes of a valid catalog, once allowed, is valid.       *)
LEMMA CandidateIsValid ==
    ASSUME CatalogTypes, NEW m \in Change, m.by \in Process, m.profile \in Profile,
           Catalog!Allowed(m)
    PROVE  Catalog!Candidate(m) \in ValidCatalog
  <1> DEFINE k == live[m.by].catalog
  <1> DEFINE A == Secret \cup {Catalog!Absent}
  <1> DEFINE Maps == UNION {[P -> A] : P \in SUBSET Profile}
  <1> DEFINE ps == Catalog!Candidate(m).profiles
  <1> DEFINE role == Catalog!Candidate(m).role
  <1>1. /\ k \in ValidCatalog /\ m.secret \in A
        /\ m.kind \in {"create", "update", "delete", "map", "unmap", "configure"}
    BY DEF CatalogTypes, Change, LiveCatalog
  <1>2. PICK P \in SUBSET Profile : k.profiles \in [P -> A]  BY <1>1 DEF ValidCatalog
  <1>3. Catalog!Own(m) = k /\ Catalog!Profiles(m) = P /\ k.role \in P \cup {Catalog!Absent}
    BY <1>1, <1>2 DEF ValidCatalog, Catalog!Profiles, Catalog!Own
  <1>4. /\ Catalog!With(m) \in [P \cup {m.profile} -> A]
        /\ Catalog!Without(m) \in [P \ {m.profile} -> A]
    BY <1>1, <1>2, <1>3 DEF Catalog!With, Catalog!Without
  <1>5. P \cup {m.profile} \in SUBSET Profile /\ P \ {m.profile} \in SUBSET Profile  OBVIOUS
  <1>6. Catalog!Candidate(m) = [profiles |-> ps, role |-> role]  BY DEF Catalog!Candidate
  <1>7. CASE m.kind \in {"create", "update", "configure"}
    <2>1. ps = Catalog!With(m)  BY <1>7 DEF Catalog!Candidate
    <2>2. ps \in Maps /\ DOMAIN ps = P \cup {m.profile}  BY <1>4, <1>5, <2>1
    <2>3. role \in {k.role, m.profile}  BY <1>3, <1>7 DEF Catalog!Candidate
    <2> HIDE DEF ps, role, k
    <2> QED  BY <1>3, <1>6, <2>2, <2>3 DEF ValidCatalog
  <1>8. CASE m.kind = "delete"
    <2>1. ps = Catalog!Without(m) /\ role = k.role  BY <1>3, <1>8 DEF Catalog!Candidate
    <2>2. ps \in Maps /\ DOMAIN ps = P \ {m.profile}  BY <1>4, <1>5, <2>1
    <2>3. k.role # m.profile  BY <1>3, <1>8 DEF Catalog!Allowed
    <2> HIDE DEF ps, role, k
    <2> QED  BY <1>3, <1>6, <2>1, <2>2, <2>3 DEF ValidCatalog
  <1>9. CASE m.kind \in {"map", "unmap"}
    <2>1. ps = k.profiles  BY <1>3, <1>9 DEF Catalog!Candidate
    <2>2. ps \in Maps /\ DOMAIN ps = P  BY <1>2, <2>1
    <2>3. role \in {m.profile, Catalog!Absent} /\ (m.kind = "unmap" => role = Catalog!Absent)
      BY <1>9 DEF Catalog!Candidate
    <2>4. m.kind = "map" => m.profile \in P  BY <1>3 DEF Catalog!Allowed
    <2> HIDE DEF ps, role, k
    <2> QED  BY <1>3, <1>6, <1>9, <2>2, <2>3, <2>4 DEF ValidCatalog
  <1> QED  BY <1>1, <1>7, <1>8, <1>9

LEMMA CatalogInvInit ==
    ASSUME Catalog!Absent \notin Call
    PROVE  Catalog!Init => CatalogInv
  <1> SUFFICES ASSUME Catalog!Init  PROVE CatalogInv  OBVIOUS
  <1>1. Catalog!Idle.pc = "idle"  BY DEF Catalog!Idle
  <1>2. Catalog!Idle \in Change  BY IdleChange DEF ChangeOK
  <1>3. CatalogTypes
    BY <1>2, EmptyCatalogIsValid, IdleChange
       DEF Catalog!Init, CatalogTypes, LiveCatalog, CatalogFile
  <1>4. \A c \in Call : change[c].pc = "idle"  BY <1>1 DEF Catalog!Init
  <1>5. \A o \in Process : holder[o] = Catalog!Absent  BY DEF Catalog!Init
  <1>6. \A o \in Process : live[o].catalog = document.catalog  BY DEF Catalog!Init
  <1> QED
    BY <1>3, <1>4, <1>5, <1>6 DEF CatalogInv, CatalogTypes, Locked, Explained, Holds

(* A call goes on to w: it keeps the lock it has or has none, it takes that *)
(* of its process, or it gives that up.                                     *)
Moves(c, w) ==
    \/ /\ holder' = holder /\ (change[c].pc \in Holds <=> w.pc \in Holds)
       /\ w.pc \in Holds => w.by = change[c].by
    \/ /\ holder' = [holder EXCEPT ![w.by] = c] /\ holder[w.by] = Catalog!Absent
       /\ change[c].pc \notin Holds /\ w.pc \in Holds
    \/ /\ holder' = [holder EXCEPT ![change[c].by] = Catalog!Absent]
       /\ change[c].pc \in Holds /\ w.pc \notin Holds

LEMMA ChangeGoes ==
    ASSUME CatalogInv, Catalog!Absent \notin Call, NEW c \in Call, NEW w, ChangeOK(w),
           change' = [change EXCEPT ![c] = w], Moves(c, w),
           live' \in [Process -> LiveCatalog], document' \in CatalogFile,
           torn' \subseteq Process, fresh' \subseteq Process
    PROVE  /\ CatalogTypes' /\ Locked'
           /\ change'[c] = w /\ \A d \in Call : d # c => change'[d] = change[d]
  <1>1. change'[c] = w /\ \A d \in Call : d # c => change'[d] = change[d]
    BY DEF CatalogInv, CatalogTypes
  <1>2. change' \in [Call -> Change]  BY DEF CatalogInv, CatalogTypes, ChangeOK
  <1>3. ChangeOK(change[c])  BY DEF CatalogInv, CatalogTypes
  <1>4. holder' \in [Process -> Call \cup {Catalog!Absent}]
    BY DEF Moves, CatalogInv, CatalogTypes
  <1>5. \A d \in Call : ChangeOK(change'[d])
    BY <1>1 DEF CatalogInv, CatalogTypes
  <1>6. CatalogTypes'
    BY <1>2, <1>4, <1>5 DEF CatalogTypes, ChangeOK, Change, LiveCatalog, CatalogFile, ValidCatalog,
       Catalog!Absent, Holds
  <1>7. holder \in [Process -> Call \cup {Catalog!Absent}]  BY DEF CatalogInv, CatalogTypes
  <1>8. ASSUME NEW o \in Process, NEW d \in Call
        PROVE  holder'[o] = d <=> change'[d].by = o /\ change'[d].pc \in Holds
    <2>1. \A e \in Call : holder[o] = e <=> change[e].by = o /\ change[e].pc \in Holds
      BY DEF CatalogInv, Locked
    <2>2. CASE /\ holder' = holder /\ (change[c].pc \in Holds <=> w.pc \in Holds)
               /\ w.pc \in Holds => w.by = change[c].by
      BY <1>1, <2>1, <2>2
    <2>3. CASE /\ holder' = [holder EXCEPT ![w.by] = c] /\ holder[w.by] = Catalog!Absent
               /\ change[c].pc \notin Holds /\ w.pc \in Holds
      <3>1. w.by \in Process  BY <2>3 DEF ChangeOK
      <3>2. holder'[o] = IF o = w.by THEN c ELSE holder[o]  BY <1>7, <2>3, <3>1
      <3> QED  BY <1>1, <2>1, <2>3, <3>2
    <2>4. CASE /\ holder' = [holder EXCEPT ![change[c].by] = Catalog!Absent]
               /\ change[c].pc \in Holds /\ w.pc \notin Holds
      <3>1. change[c].by \in Process  BY <1>3, <2>4 DEF ChangeOK
      <3>2. holder'[o] = IF o = change[c].by THEN Catalog!Absent ELSE holder[o]
        BY <1>7, <2>4, <3>1
      <3> QED  BY <1>1, <2>1, <2>4, <3>2
    <2> QED  BY <2>2, <2>3, <2>4 DEF Moves
  <1> QED  BY <1>1, <1>6, <1>8 DEF Locked

(* A call that does not write, nor end what it wrote, leaves the live      *)
(* catalogs and the document as equal as they were.                        *)
LEMMA KeepsCatalog ==
    ASSUME CatalogInv, Catalog!Absent \notin Call, NEW c \in Call, NEW w, ChangeOK(w),
           change' = [change EXCEPT ![c] = w], Moves(c, w),
           UNCHANGED <<live, document, fresh>>, torn \subseteq torn', torn' \subseteq Process,
           change[c].pc = "written" => change[c].by \in torn',
           w.pc # "written", w.pc = "orphaned" => w.by \in torn'
    PROVE  CatalogInv'
  <1>1. /\ CatalogTypes' /\ Locked'
        /\ change'[c] = w /\ \A d \in Call : d # c => change'[d] = change[d]
    BY ChangeGoes DEF CatalogInv, CatalogTypes
  <1>2. \A d \in Call : change'[d].pc = "orphaned" => change'[d].by \in torn'
    BY <1>1 DEF CatalogInv
  <1>3. ASSUME NEW o \in fresh' \ torn'  PROVE Explained(o)'
    <2>1. o \in fresh \ torn /\ Explained(o)  BY <1>3 DEF CatalogInv
    <2>2. live'[o].catalog = live[o].catalog /\ document'.catalog = document.catalog  OBVIOUS
    <2> QED  BY <1>1, <2>1, <2>2 DEF Explained
  <1> QED  BY <1>1, <1>2, <1>3 DEF CatalogInv

LEMMA CatalogBeginStep ==
    ASSUME CatalogInv, Catalog!Absent \notin Call, NEW c \in Call, Catalog!Begin(c)
    PROVE  CatalogInv'
  <1> DEFINE m == change[c]
  <1>1. m \in Change /\ m.pc = "queued" /\ m.profile \in Profile /\ m.by \in Process
    BY DEF CatalogInv, CatalogTypes, ChangeOK, Catalog!Begin, Catalog!At
  <1>2. /\ UNCHANGED <<live, document, torn, fresh>> /\ holder[m.by] = Catalog!Absent
        /\ CatalogTypes /\ torn \subseteq Process
    BY DEF Catalog!Begin, CatalogInv, CatalogTypes
  <1>3. CASE Catalog!Leave(c) /\ UNCHANGED <<holder, secrets>>
    <2>1. change' = [change EXCEPT ![c] = Catalog!Over]  BY <1>3 DEF Catalog!Leave
    <2>2. Moves(c, Catalog!Over)  BY <1>1, <1>3, IdleChange DEF Moves, Holds
    <2> QED  BY <1>1, <1>2, <2>1, <2>2, IdleChange, KeepsCatalog
  <1>4. CASE \E made \in BOOLEAN, default \in {Catalog!Absent, m.profile} :
               /\ Catalog!Allowed(m) /\ holder' = [holder EXCEPT ![m.by] = c]
               /\ change' = [change EXCEPT ![c] = [m EXCEPT
                     !.pc = "reading", !.catalog = Catalog!Candidate(m), !.default = default,
                     !.created = made]]
    <2>1. PICK made \in BOOLEAN, default \in {Catalog!Absent, m.profile} :
               /\ Catalog!Allowed(m) /\ holder' = [holder EXCEPT ![m.by] = c]
               /\ change' = [change EXCEPT ![c] = [m EXCEPT
                     !.pc = "reading", !.catalog = Catalog!Candidate(m), !.default = default,
                     !.created = made]]
      BY <1>4
    <2>2. PICK w : w = [m EXCEPT !.pc = "reading", !.catalog = Catalog!Candidate(m),
                                 !.default = default, !.created = made]
      OBVIOUS
    <2>3. Catalog!Candidate(m) \in ValidCatalog /\ default \in Profile \cup {Catalog!Absent}
      BY <1>1, <1>2, <2>1, CandidateIsValid
    <2> HIDE DEF m
    <2>4. w \in Change /\ w.pc = "reading" /\ w.by = m.by
      BY <1>1, <2>2, <2>3 DEF Change, Holds
    <2>5. ChangeOK(w)  BY <1>1, <2>4 DEF ChangeOK
    <2>6. Moves(c, w)  BY <1>1, <1>2, <2>1, <2>4 DEF Moves, Holds, m
    <2>7. change' = [change EXCEPT ![c] = w] /\ change[c].pc # "written"
      BY <1>1, <2>1, <2>2 DEF m
    <2> QED  BY <1>2, <2>4, <2>5, <2>6, <2>7, KeepsCatalog
  <1> QED  BY <1>3, <1>4 DEF Catalog!Begin

(* A save that fails leaves the lock and both catalogs.                    *)
LEMMA CatalogFailStep ==
    ASSUME CatalogInv, Catalog!Absent \notin Call, NEW c \in Call, Catalog!Fail(c),
           change[c].pc \in {"reading", "comparing", "writing"}
    PROVE  CatalogInv'
  <1>1. /\ change' = [change EXCEPT ![c] = Catalog!Over]
        /\ holder' = [holder EXCEPT ![change[c].by] = Catalog!Absent]
        /\ UNCHANGED <<live, document, torn, fresh>>
    BY DEF Catalog!Fail, Catalog!End, Catalog!Leave, Catalog!By
  <1>2. Moves(c, Catalog!Over)  BY <1>1, IdleChange DEF Moves, Holds
  <1>3. torn' \subseteq Process  BY <1>1 DEF CatalogInv, CatalogTypes
  <1> QED  BY <1>1, <1>2, <1>3, IdleChange, KeepsCatalog

LEMMA CatalogSaveStep ==
    ASSUME CatalogInv, Catalog!Absent \notin Call, NEW c \in Call,
           \/ Catalog!ReadRevision(c) \/ Catalog!Compare(c) \/ Catalog!WriteFails(c)
    PROVE  CatalogInv'
  <1>1. /\ ChangeOK(change[c]) /\ change[c] \in Change /\ document \in CatalogFile
        /\ torn \subseteq Process
    BY DEF CatalogInv, CatalogTypes
  <1>2. CASE Catalog!Fail(c)
    BY <1>1, <1>2, CatalogFailStep
       DEF Catalog!ReadRevision, Catalog!Compare, Catalog!WriteFails, Catalog!At
  <1>3. CASE Catalog!ReadRevision(c) /\ ~Catalog!Fail(c)
    <2>1. PICK w : w = [change[c] EXCEPT !.pc = "comparing", !.seen = document.rev]  OBVIOUS
    <2>2. /\ change[c].pc = "reading" /\ UNCHANGED <<live, document, holder, torn, fresh>>
          /\ change' = [change EXCEPT ![c].pc = "comparing", ![c].seen = document.rev]
      BY <1>3 DEF Catalog!ReadRevision, Catalog!At
    <2>3. w \in Change /\ w.pc = "comparing" /\ w.by = change[c].by
      BY <1>1, <2>1 DEF Change, CatalogFile, Holds
    <2>4. ChangeOK(w) /\ Moves(c, w)  BY <1>1, <2>2, <2>3 DEF ChangeOK, Moves, Holds
    <2>5. change' = [change EXCEPT ![c] = w]
      BY <2>1, <2>2 DEF CatalogInv, CatalogTypes, Change
    <2> QED  BY <1>1, <2>2, <2>3, <2>4, <2>5, KeepsCatalog
  <1>4. CASE Catalog!Compare(c) /\ ~Catalog!Fail(c)
    <2>1. PICK d : d = IF change[c].default = Catalog!Absent THEN document.default
                       ELSE change[c].default
      OBVIOUS
    <2>2. PICK w : w = [change[c] EXCEPT !.pc = "writing", !.default = d]  OBVIOUS
    <2>3. d \in Profile \cup {Catalog!Absent}
      BY <1>1, <2>1 DEF Change, CatalogFile
    <2>4. w \in Change /\ w.pc = "writing" /\ w.by = change[c].by
      BY <1>1, <2>2, <2>3 DEF Change, Holds
    <2>5. /\ change[c].pc = "comparing" /\ UNCHANGED <<live, document, holder, torn, fresh>>
          /\ change' = [change EXCEPT ![c].pc = "writing",
                ![c].default = IF @ = Catalog!Absent THEN document.default ELSE @]
      BY <1>4 DEF Catalog!Compare, Catalog!At
    <2>6. ChangeOK(w) /\ Moves(c, w)  BY <1>1, <2>4, <2>5 DEF ChangeOK, Moves, Holds
    <2>7. change' = [change EXCEPT ![c] = w]
      BY <2>1, <2>2, <2>5 DEF CatalogInv, CatalogTypes, Change
    <2> QED  BY <1>1, <2>4, <2>5, <2>6, <2>7, KeepsCatalog
  <1> QED  BY <1>2, <1>3, <1>4 DEF Catalog!WriteFails

(* What was written is explained by the call that wrote it; nobody else's  *)
(* catalog is the one in the document any more.                            *)
LEMMA CatalogWriteStep ==
    ASSUME CatalogInv, Catalog!Absent \notin Call, NEW c \in Call, Catalog!Write(c)
    PROVE  CatalogInv'
  <1> DEFINE m == change[c]
  <1>1. PICK w : /\ change' = [change EXCEPT ![c] = w]
                 /\ \/ m.pc = "writing" /\ w = [m EXCEPT !.pc = "written"]
                    \/ m.pc = "orphaned" /\ w = Catalog!Over
    <2>1. CASE Catalog!At(c, "writing") /\ Catalog!Go(c, "written")
      <3>1. change' = [change EXCEPT ![c] = [m EXCEPT !.pc = "written"]]
        BY <2>1 DEF Catalog!Go, CatalogInv, CatalogTypes
      <3> QED  BY <2>1, <3>1 DEF Catalog!At
    <2>2. CASE Catalog!At(c, "orphaned") /\ Catalog!Leave(c)
      BY <2>2 DEF Catalog!At, Catalog!Leave
    <2> QED  BY <2>1, <2>2 DEF Catalog!Write
  <1>2. ChangeOK(m) /\ m \in Change /\ torn \subseteq Process
    BY DEF CatalogInv, CatalogTypes, ChangeOK
  <1>3. PICK d : d = [rev |-> m.seen + 1, catalog |-> m.catalog, default |-> m.default]  OBVIOUS
  <1>4. d \in CatalogFile /\ d.catalog = m.catalog  BY <1>2, <1>3 DEF Change, CatalogFile
  <1>5. document' = d /\ UNCHANGED <<live, holder, torn>> /\ fresh' = {m.by}
    BY <1>3 DEF Catalog!Write, Catalog!By
  <1>6. m.by \in Process  BY <1>1, <1>2 DEF ChangeOK, Holds
  <1>7. ChangeOK(w) /\ (m.pc = "writing" => w.pc = "written" /\ w.by = m.by /\ w.catalog = m.catalog)
    <2>1. CASE m.pc = "orphaned"  BY <1>1, <2>1, IdleChange
    <2>2. CASE m.pc = "writing"
      <3>1. w = [m EXCEPT !.pc = "written"]  BY <1>1, <2>2
      <3>2. w \in Change /\ w.pc = "written" /\ w.by = m.by /\ w.catalog = m.catalog
        BY <1>2, <3>1 DEF Change, Holds
      <3> QED  BY <1>6, <3>2 DEF ChangeOK
    <2> QED  BY <1>1, <2>1, <2>2
  <1>8. Moves(c, w)  BY <1>1, <1>5, <1>7, IdleChange DEF Moves, Holds
  <1>9. /\ CatalogTypes' /\ Locked'
        /\ change'[c] = w /\ \A e \in Call : e # c => change'[e] = change[e]
    BY <1>1, <1>2, <1>4, <1>5, <1>6, <1>7, <1>8, ChangeGoes DEF CatalogInv, CatalogTypes
  <1>10. \A e \in Call : change'[e].pc = "orphaned" => change'[e].by \in torn'
    BY <1>1, <1>5, <1>7, <1>9, IdleChange DEF CatalogInv
  <1>11. ASSUME NEW o \in fresh' \ torn'  PROVE Explained(o)'
    <2>1. o = m.by /\ m.by \notin torn  BY <1>5, <1>11
    <2>2. m.pc = "writing"  BY <1>1, <2>1 DEF CatalogInv
    <2> QED  BY <1>4, <1>5, <1>7, <1>9, <2>1, <2>2 DEF Explained
  <1> QED  BY <1>9, <1>10, <1>11 DEF CatalogInv

LEMMA CatalogSwapStep ==
    ASSUME CatalogInv, Catalog!Absent \notin Call, NEW c \in Call, Catalog!Swap(c)
    PROVE  CatalogInv'
  <1> DEFINE m == change[c]
  <1>1. m \in Change /\ m.pc = "written" /\ m.by \in Process
    BY DEF CatalogInv, CatalogTypes, ChangeOK, Holds, Catalog!Swap, Catalog!At
  <1>2. PICK l : l = [rev |-> live[m.by].rev + 1, catalog |-> m.catalog]  OBVIOUS
  <1>3. l \in LiveCatalog /\ l.catalog = m.catalog
    BY <1>1, <1>2 DEF Change, CatalogInv, CatalogTypes, LiveCatalog
  <1>4. /\ live' = [live EXCEPT ![m.by] = l] /\ UNCHANGED <<document, torn, fresh>>
        /\ holder' = [holder EXCEPT ![m.by] = Catalog!Absent]
        /\ change' = [change EXCEPT ![c] = Catalog!Over]
    BY <1>2 DEF Catalog!Swap, Catalog!End, Catalog!Leave, Catalog!By
  <1>5. live' \in [Process -> LiveCatalog]  BY <1>3, <1>4 DEF CatalogInv, CatalogTypes
  <1>6. Moves(c, Catalog!Over)  BY <1>1, <1>4, IdleChange DEF Moves, Holds
  <1>7. /\ CatalogTypes' /\ Locked' /\ change'[c] = Catalog!Over
        /\ \A e \in Call : e # c => change'[e] = change[e]
    BY <1>4, <1>5, <1>6, IdleChange, ChangeGoes DEF CatalogInv, CatalogTypes
  <1>8. \A e \in Call : change'[e].pc = "orphaned" => change'[e].by \in torn'
    BY <1>4, <1>7, IdleChange DEF CatalogInv
  <1>9. \A e \in Call : change[e].pc = "written" /\ change[e].by = m.by => e = c
    BY <1>1 DEF CatalogInv, Locked, Holds
  <1>10. ASSUME NEW o \in fresh' \ torn'  PROVE Explained(o)'
    <2>1. Explained(o) /\ o \in Process  BY <1>4, <1>10 DEF CatalogInv, CatalogTypes
    <2>2. CASE o = m.by
      <3>1. document.catalog = m.catalog  BY <1>1, <1>9, <2>1, <2>2 DEF Explained
      <3>2. live'[o].catalog = m.catalog  BY <1>3, <1>4, <2>1, <2>2 DEF CatalogInv, CatalogTypes
      <3>3. \A e \in Call : change'[e].pc = "written" => change'[e].by # o
        BY <1>7, <1>9, <2>2, IdleChange
      <3> QED  BY <1>4, <3>1, <3>2, <3>3 DEF Explained
    <2>3. CASE o # m.by
      <3>1. live'[o] = live[o]  BY <1>4, <2>1, <2>3 DEF CatalogInv, CatalogTypes
      <3> QED  BY <1>4, <1>7, <2>1, <2>3, <3>1, IdleChange DEF Explained
    <2> QED  BY <2>2, <2>3
  <1> QED  BY <1>7, <1>8, <1>10 DEF CatalogInv

LEMMA CatalogCancelStep ==
    ASSUME CatalogInv, Catalog!Absent \notin Call, NEW c \in Call, Catalog!Cancel(c)
    PROVE  CatalogInv'
  <1> DEFINE m == change[c]
  <1>1. /\ m.pc \in {"queued"} \cup Holds /\ ChangeOK(m) /\ m \in Change /\ m.by \in Process
        /\ torn \subseteq Process /\ holder \in [Process -> Call \cup {Catalog!Absent}]
    BY DEF CatalogInv, CatalogTypes, ChangeOK, Catalog!Cancel, Holds
  <1>2. /\ UNCHANGED <<live, document, fresh>>
        /\ holder' = [holder EXCEPT ![m.by] = IF holder[m.by] = c THEN Catalog!Absent
                                              ELSE holder[m.by]]
        /\ torn' = IF m.pc \in {"writing", "written"} THEN torn \cup {m.by} ELSE torn
    BY DEF Catalog!Cancel, Catalog!By, Catalog!At
  <1>3. holder[m.by] = c <=> m.pc \in Holds  BY <1>1 DEF CatalogInv, Locked
  <1>4. PICK w : /\ change' = [change EXCEPT ![c] = w]
                 /\ w = IF m.pc = "writing" THEN [m EXCEPT !.pc = "orphaned"] ELSE Catalog!Over
    <2>1. CASE Catalog!At(c, "writing")
      <3>1. change' = [change EXCEPT ![c] = [m EXCEPT !.pc = "orphaned"]]
        BY <2>1 DEF Catalog!Cancel, Catalog!Go, CatalogInv, CatalogTypes
      <3> QED  BY <2>1, <3>1 DEF Catalog!At
    <2>2. CASE ~Catalog!At(c, "writing")
      BY <2>2 DEF Catalog!At, Catalog!Leave, Catalog!Cancel
    <2> QED  BY <2>1, <2>2
  <1>5. /\ ChangeOK(w) /\ w.pc \in {"over", "orphaned"}
        /\ w.pc = "orphaned" => m.pc = "writing" /\ w.by = m.by
    <2>1. CASE m.pc # "writing"  BY <1>4, <2>1, IdleChange
    <2>2. CASE m.pc = "writing"
      <3>1. w = [m EXCEPT !.pc = "orphaned"]  BY <1>4, <2>2
      <3>2. w \in Change /\ w.pc = "orphaned" /\ w.by = m.by  BY <1>1, <3>1 DEF Change
      <3> QED  BY <1>1, <2>2, <3>2 DEF ChangeOK
    <2> QED  BY <2>1, <2>2
  <1>6. Moves(c, w)
    <2>1. CASE m.pc \in Holds
      <3>1. holder' = [holder EXCEPT ![m.by] = Catalog!Absent]  BY <1>2, <1>3, <2>1
      <3> QED  BY <1>5, <2>1, <3>1 DEF Moves, Holds
    <2>2. CASE m.pc \notin Holds
      <3>1. holder' = holder  BY <1>1, <1>2, <1>3, <2>2
      <3> QED  BY <1>5, <2>2, <3>1 DEF Moves, Holds
    <2> QED  BY <2>1, <2>2
  <1>7. torn \subseteq torn' /\ torn' \subseteq Process  BY <1>1, <1>2
  <1>8. /\ m.pc = "written" => m.by \in torn'
        /\ w.pc # "written" /\ (w.pc = "orphaned" => w.by \in torn')
    BY <1>2, <1>5
  <1> QED  BY <1>2, <1>4, <1>5, <1>6, <1>7, <1>8, KeepsCatalog

(* A process that starts anew takes the catalog that is in the document.   *)
LEMMA CatalogRestartStep ==
    ASSUME CatalogInv, Catalog!Absent \notin Call, NEW o \in Process, Catalog!Restart(o)
    PROVE  CatalogInv'
  <1>1. /\ live' = [live EXCEPT ![o] = [rev |-> 0, catalog |-> document.catalog]]
        /\ holder' = [holder EXCEPT ![o] = Catalog!Absent]
        /\ change' = [c \in Call |-> IF change[c].by = o THEN Catalog!Over ELSE change[c]]
        /\ torn' = torn \ {o} /\ fresh' = fresh \cup {o} /\ UNCHANGED document
    BY DEF Catalog!Restart, Catalog!By
  <1>2. /\ live \in [Process -> LiveCatalog] /\ document \in CatalogFile
        /\ holder \in [Process -> Call \cup {Catalog!Absent}]
        /\ change \in [Call -> Change] /\ torn \subseteq Process /\ fresh \subseteq Process
    BY DEF CatalogInv, CatalogTypes
  <1>3. \A c \in Call : ChangeOK(change'[c]) /\ change'[c] \in Change
    BY <1>1, IdleChange DEF CatalogInv, CatalogTypes, ChangeOK
  <1>4. PICK l : l = [rev |-> 0, catalog |-> document.catalog]  OBVIOUS
  <1>5. l \in LiveCatalog /\ l.catalog = document.catalog  BY <1>2, <1>4 DEF LiveCatalog, CatalogFile
  <1>6. live' \in [Process -> LiveCatalog] /\ live'[o].catalog = document.catalog
    BY <1>1, <1>2, <1>4, <1>5
  <1>7. holder' \in [Process -> Call \cup {Catalog!Absent}]  BY <1>1, <1>2
  <1>8. change' \in [Call -> Change]  BY <1>1, <1>3
  <1>9. CatalogTypes'
    BY <1>1, <1>2, <1>3, <1>6, <1>7, <1>8
       DEF CatalogTypes, ChangeOK, Change, LiveCatalog, CatalogFile, ValidCatalog, Catalog!Absent,
           Holds
  <1>10. \A c \in Call : change'[c] = IF change[c].by = o THEN Catalog!Over ELSE change[c]
    BY <1>1
  <1>11. Catalog!Over.pc \notin Holds \cup {"orphaned", "written"}  BY IdleChange DEF Holds
  <1>12. ASSUME NEW p \in Process, NEW c \in Call
         PROVE  holder'[p] = c <=> change'[c].by = p /\ change'[c].pc \in Holds
    <2>1. holder[p] = c <=> change[c].by = p /\ change[c].pc \in Holds  BY DEF CatalogInv, Locked
    <2>2. holder'[p] = IF p = o THEN Catalog!Absent ELSE holder[p]  BY <1>1, <1>2
    <2> QED  BY <1>10, <1>11, <2>1, <2>2
  <1>13. \A c \in Call : change'[c].pc = "orphaned" => change'[c].by \in torn'
    BY <1>1, <1>10, <1>11 DEF CatalogInv
  <1>14. ASSUME NEW p \in fresh' \ torn'  PROVE Explained(p)'
    <2>1. CASE p = o
      BY <1>1, <1>6, <1>10, <1>11, <2>1 DEF Explained
    <2>2. CASE p # o
      <3>1. p \in fresh \ torn /\ Explained(p) /\ p \in Process
        BY <1>1, <1>2, <1>14, <2>2 DEF CatalogInv
      <3>2. live'[p] = live[p]  BY <1>1, <1>2, <2>2, <3>1
      <3>3. \A c \in Call : change[c].by = p => change'[c] = change[c]  BY <1>10, <2>2
      <3>4. \A c \in Call : change'[c].pc = "written" => change'[c] = change[c]
        BY <1>10, <1>11
      <3> QED  BY <1>1, <3>1, <3>2, <3>3, <3>4 DEF Explained
    <2> QED  BY <2>1, <2>2
  <1> QED  BY <1>9, <1>12, <1>13, <1>14 DEF CatalogInv, Locked

LEMMA CatalogStutters ==
    ASSUME CatalogInv, UNCHANGED <<live, document, holder, change, torn, fresh>>
    PROVE  CatalogInv'
  BY DEF CatalogInv, CatalogTypes, Locked, Explained, ChangeOK, Change, LiveCatalog, CatalogFile,
         ValidCatalog, Catalog!Absent, Holds

LEMMA CatalogEnterStep ==
    ASSUME CatalogInv, Catalog!Absent \notin Call, NEW c \in Call, Catalog!Enter(c)
    PROVE  CatalogInv'
  <1>1. /\ UNCHANGED <<live, document, holder, torn, fresh>> /\ change[c].pc = "idle"
        /\ torn \subseteq Process
    <2>1. torn \subseteq Process  BY DEF CatalogInv, CatalogTypes
    <2> QED  BY <2>1 DEF Catalog!Enter, Catalog!At
  <1>2. CASE Catalog!Leave(c)
    <2>1. Moves(c, Catalog!Over)  BY <1>1, IdleChange DEF Moves, Holds
    <2> QED  BY <1>1, <1>2, <2>1, IdleChange, KeepsCatalog DEF Catalog!Leave
  <1>3. CASE ~Catalog!Leave(c)
    <2>1. PICK k \in {"create", "update", "delete", "map", "unmap", "configure"},
               o \in Process, p \in Profile, s \in Secret \cup {Catalog!Absent} :
             change' = [change EXCEPT ![c] = [Catalog!Idle EXCEPT
                   !.pc = "queued", !.by = o, !.kind = k, !.profile = p, !.secret = s,
                   !.expected = live[o].rev]]
      BY <1>3, Zenon DEF Catalog!Enter
    <2>2. PICK w : w = [Catalog!Idle EXCEPT !.pc = "queued", !.by = o, !.kind = k, !.profile = p,
                                            !.secret = s, !.expected = live[o].rev]
      OBVIOUS
    <2>3. live[o].rev \in Nat  BY DEF CatalogInv, CatalogTypes, LiveCatalog
    <2>4. Catalog!Idle \in Change  BY IdleChange DEF ChangeOK
    <2>5. w \in Change /\ w.pc = "queued" /\ w.by = o /\ w.profile = p
      BY <2>2, <2>3, <2>4 DEF Change
    <2>6. ChangeOK(w)  BY <2>5 DEF ChangeOK
    <2>7. Moves(c, w)  BY <1>1, <2>5 DEF Moves, Holds
    <2> QED  BY <1>1, <2>1, <2>2, <2>5, <2>6, <2>7, KeepsCatalog
  <1> QED  BY <1>2, <1>3

LEMMA CatalogInvStep ==
    ASSUME Catalog!Absent \notin Call
    PROVE  CatalogInv /\ [Catalog!Next]_(Catalog!vars) => CatalogInv'
  <1> SUFFICES ASSUME CatalogInv, [Catalog!Next]_(Catalog!vars)  PROVE CatalogInv'  OBVIOUS
  <1>1. CASE UNCHANGED Catalog!vars  BY <1>1, CatalogStutters DEF Catalog!vars
  <1>2. ASSUME NEW s \in Secret, Catalog!StoreSecret(s)  PROVE CatalogInv'
    BY <1>2, CatalogStutters DEF Catalog!StoreSecret
  <1>3. ASSUME NEW o \in Process, NEW s \in Secret, Catalog!DeleteSecret(o, s)  PROVE CatalogInv'
    BY <1>3, CatalogStutters DEF Catalog!DeleteSecret
  <1> QED
    BY <1>1, <1>2, <1>3, CatalogRestartStep, CatalogEnterStep, CatalogBeginStep, CatalogSaveStep,
       CatalogWriteStep, CatalogSwapStep, CatalogCancelStep DEF Catalog!Next

(* With no mutation inside, the live catalog of a process is the persisted *)
(* one, unless a caller was cancelled in the middle of its write or        *)
(* another kernel has written the document since: through failed saves,    *)
(* raced saves of several kernels and restarts, for any number of kernels, *)
(* calls, profiles and secrets (ProviderService._save and configure).      *)
THEOREM LiveCatalogIsPersisted ==
    ASSUME Catalog!Absent \notin Call
    PROVE  Catalog!Spec => []LiveIsPersisted
  <1>1. ASSUME CatalogInv, NEW o \in fresh \ torn, holder[o] = Catalog!Absent
        PROVE  live[o].catalog = document.catalog
    <2>1. Explained(o) /\ o \in Process  BY <1>1 DEF CatalogInv, CatalogTypes
    <2>2. \A c \in Call : ~(change[c].pc = "written" /\ change[c].by = o)
      BY <1>1, <2>1 DEF CatalogInv, Locked, Holds
    <2> QED  BY <2>1, <2>2 DEF Explained
  <1>2. CatalogInv => Catalog!LiveIsPersisted  BY <1>1 DEF Catalog!LiveIsPersisted
  <1> QED  BY <1>2, CatalogInvInit, CatalogInvStep, PTL DEF Catalog!Spec, LiveIsPersisted

(* The role of the live catalogs and of the document's always names a      *)
(* profile that is there: no order of deletes, mappings and restarts of    *)
(* several kernels, whose saves replace each other's catalogs whole,       *)
(* leaves it dangling (delete_profile and map_role of ProviderService,     *)
(* load_from_repository for a start).                                      *)
THEOREM RoleNamesAProfile ==
    ASSUME Catalog!Absent \notin Call
    PROVE  Catalog!Spec => [](/\ document.catalog \in ValidCatalog
                              /\ \A o \in Process : live[o].catalog \in ValidCatalog)
  <1>1. CatalogInv => /\ document.catalog \in ValidCatalog
                      /\ \A o \in Process : live[o].catalog \in ValidCatalog
    BY DEF CatalogInv, CatalogTypes, LiveCatalog, CatalogFile
  <1> QED  BY <1>1, CatalogInvInit, CatalogInvStep, PTL DEF Catalog!Spec

----------------------------------------------------------------------------
(* The revisioned services: what is true of the participants and the       *)
(* repository at each step of the transaction that is inside.              *)
Inside == {"check", "fetch", "unfetch", "save", "apply", "undo"}
Mutation == [pc : {"idle", "queued"} \cup Inside \cup Services!Over,
             kind : {"none", "move", "bookmark", "mutate", "restore", "backup"},
             to : Value, expected : Nat, reached : 0..Participants, broken : BOOLEAN]

ServiceTypes ==
    /\ service \in {"workspace", "configuration"}
    /\ snap \in [value : Value, rev : Nat]
    /\ stored \in UNION {[D -> Value] : D \in SUBSET Nat}
    /\ runtime \in [1..Participants -> Value]
    /\ mutation \in [Mutator -> Mutation]

Matches(q) ==   \* what the call q was made for is still so
    /\ q.pc \notin {"idle"} \cup Services!Over =>
          /\ q.expected <= snap.rev
          /\ q.kind = "bookmark" /\ q.expected = snap.rev => q.to = snap.value
    /\ q.pc \in {"fetch", "unfetch", "save", "apply", "undo"} => q.expected = snap.rev
    /\ q.pc \in {"idle", "queued", "check", "fetch", "unfetch", "save"} =>
          q.reached = 0 /\ ~q.broken
    /\ q.pc = "apply" => ~q.broken
    /\ q.kind = "bookmark" => q.reached = 0
    /\ q.pc \in {"fetch", "unfetch"} => q.kind = "restore"

Back == \/ current = Services!Unset /\ snap.rev = 0
        \/ current = snap.rev /\ snap.rev \in DOMAIN stored
From(k) == \A p \in 1..Participants : p > k => runtime[p] = snap.value

Reached(q) ==   \* what the call q that is inside has done so far
    /\ q.pc = "apply" =>
          /\ current = snap.rev + 1 /\ current \in DOMAIN stored /\ stored[current] = q.to
          /\ \A p \in 1..q.reached : runtime[p] = q.to
    /\ ~degraded /\ ~cutShort =>
          /\ q.pc \in {"check", "fetch"} => Back
          /\ q.pc # "undo" \/ ~q.broken => From(q.reached)

ServiceInv ==
    /\ ServiceTypes
    /\ \A m \in Mutator : inside = m <=> mutation[m].pc \in Inside
    /\ \A m \in Mutator : Matches(mutation[m])
    /\ snap.rev \in DOMAIN stored => stored[snap.rev] = snap.value
    /\ \A m \in Mutator : inside = m => Reached(mutation[m])
    /\ inside = Services!Nobody /\ ~degraded /\ ~cutShort => Back /\ From(0)
LEMMA ServiceInvInit ==
    ASSUME Participants \in Nat, First \in Value, Services!Nobody \notin Mutator
    PROVE  Services!Init => ServiceInv
  <1> SUFFICES ASSUME Services!Init  PROVE ServiceInv  OBVIOUS
  <1>1. stored \in [{} -> Value] /\ {} \in SUBSET Nat /\ DOMAIN stored = {}
    BY DEF Services!Init
  <1>2. stored \in UNION {[D -> Value] : D \in SUBSET Nat}  BY <1>1
  <1>3. \A m \in Mutator : mutation[m] = [pc |-> "idle", kind |-> "none", to |-> First,
                                          expected |-> 0, reached |-> 0, broken |-> FALSE]
    BY DEF Services!Init
  <1>4. ServiceTypes  BY <1>2 DEF Services!Init, ServiceTypes, Mutation
  <1>5. \A m \in Mutator : Matches(mutation[m])  BY <1>3 DEF Matches, Services!Over
  <1>6. \A m \in Mutator : inside # m /\ mutation[m].pc \notin Inside
    BY <1>3 DEF Services!Init, Inside
  <1>7. Back /\ From(0)  BY DEF Back, From, Services!Init
  <1> QED  BY <1>1, <1>4, <1>5, <1>6, <1>7 DEF ServiceInv

(* Saving a revision: what is stored under the others stays.               *)
LEMMA StoreKeeps ==
    ASSUME ServiceTypes, NEW r \in Nat, NEW v \in Value, Services!Store(r, v)
    PROVE  /\ stored' \in UNION {[D -> Value] : D \in SUBSET Nat}
           /\ DOMAIN stored' = DOMAIN stored \cup {r} /\ stored'[r] = v
           /\ \A k \in DOMAIN stored : k # r => stored'[k] = stored[k]
  <1>1. PICK D \in SUBSET Nat : stored \in [D -> Value]  BY DEF ServiceTypes
  <1>2. D \cup {r} \in SUBSET Nat /\ stored' \in [D \cup {r} -> Value]
    BY <1>1 DEF Services!Store
  <1> QED  BY <1>1, <1>2 DEF Services!Store

LEMMA StoredType ==
    ASSUME ServiceTypes, NEW r \in DOMAIN stored
    PROVE  r \in Nat /\ stored[r] \in Value
  <1>1. PICK D \in SUBSET Nat : stored \in [D -> Value]  BY DEF ServiceTypes
  <1> QED  BY <1>1

(* One call goes on to w: what that leaves to show.                        *)
LEMMA ServiceGoes ==
    ASSUME ServiceInv, Services!Nobody \notin Mutator, NEW m \in Mutator, NEW w \in Mutation,
           mutation' = [mutation EXCEPT ![m] = w], service' = service,
           snap' \in [value : Value, rev : Nat],
           snap' = snap \/ snap'.rev = snap.rev + 1,
           stored' \in UNION {[D -> Value] : D \in SUBSET Nat},
           runtime' \in [1..Participants -> Value],
           Matches(w)',
           inside = m \/ snap' = snap,
           inside' = IF w.pc \in Inside THEN m ELSE IF inside = m THEN Services!Nobody ELSE inside,
           w.pc \in Inside => inside \in {m, Services!Nobody},
           snap'.rev \in DOMAIN stored' => stored'[snap'.rev] = snap'.value
    PROVE  /\ ServiceTypes' /\ mutation'[m] = w
           /\ \A n \in Mutator : inside' = n <=> mutation'[n].pc \in Inside
           /\ \A n \in Mutator : Matches(mutation[n])'
  <1>1. ServiceTypes' /\ mutation'[m] = w
        /\ \A n \in Mutator : n # m => mutation'[n] = mutation[n]
    BY DEF ServiceInv, ServiceTypes
  <1>2. \A n \in Mutator : inside' = n <=> mutation'[n].pc \in Inside
    <2> TAKE n \in Mutator
    <2>1. CASE n = m  BY <1>1, <2>1 DEF ServiceInv
    <2>2. CASE n # m  BY <1>1, <2>2 DEF ServiceInv
    <2> QED  BY <2>1, <2>2
  <1>3. \A n \in Mutator : Matches(mutation[n])'
    <2> TAKE n \in Mutator
    <2>1. CASE n = m  BY <1>1, <2>1
    <2>2. CASE n # m
      <3>1. mutation'[n] = mutation[n] /\ Matches(mutation[n])  BY <1>1, <2>2 DEF ServiceInv
      <3>2. PICK q : q = mutation[n]  OBVIOUS
      <3>3. q \in Mutation /\ Matches(q)  BY <3>1, <3>2 DEF ServiceInv, ServiceTypes
      <3>4. CASE snap' = snap
        <4>1. Matches(q)'  BY <3>3, <3>4 DEF Matches
        <4> QED  BY <3>1, <3>2, <4>1
      <3>5. CASE snap'.rev = snap.rev + 1 /\ inside = m
        <4>1. q.pc \notin Inside  BY <2>2, <3>2, <3>5 DEF ServiceInv
        <4>2. q.expected \in Nat /\ snap.rev \in Nat  BY <3>3 DEF Mutation, ServiceInv, ServiceTypes
        <4>3. Matches(q)'  BY <3>3, <3>5, <4>1, <4>2 DEF Matches, Inside
        <4> QED  BY <3>1, <3>2, <4>3
      <3> QED  BY <3>4, <3>5
    <2> QED  BY <2>1, <2>2
  <1> QED  BY <1>1, <1>2, <1>3 DEF ServiceInv
(* A call that is inside, or the only one that may go inside, goes on.     *)
LEMMA ServiceMoves ==
    ASSUME ServiceInv, Services!Nobody \notin Mutator, NEW m \in Mutator, NEW w \in Mutation,
           mutation' = [mutation EXCEPT ![m] = w], service' = service,
           snap' \in [value : Value, rev : Nat],
           snap' = snap \/ (inside = m /\ snap'.rev = snap.rev + 1),
           stored' \in UNION {[D -> Value] : D \in SUBSET Nat},
           runtime' \in [1..Participants -> Value],
           Matches(w)', inside \in {m, Services!Nobody},
           inside' = IF w.pc \in Inside THEN m ELSE Services!Nobody,
           snap'.rev \in DOMAIN stored' => stored'[snap'.rev] = snap'.value,
           w.pc \in Inside => Reached(w)',
           w.pc \notin Inside => (~degraded /\ ~cutShort => Back /\ From(0))'
    PROVE  ServiceInv'
  <1>1. /\ ServiceTypes' /\ mutation'[m] = w
        /\ \A n \in Mutator : inside' = n <=> mutation'[n].pc \in Inside
        /\ \A n \in Mutator : Matches(mutation[n])'
    BY ServiceGoes
  <1>2. \A n \in Mutator : inside' = n => Reached(mutation[n])'
    <2> SUFFICES ASSUME NEW n \in Mutator, inside' = n  PROVE Reached(mutation[n])'
      OBVIOUS
    <2>1. n = m /\ w.pc \in Inside  OBVIOUS
    <2> QED  BY <1>1, <2>1
  <1>3. (inside = Services!Nobody /\ ~degraded /\ ~cutShort => Back /\ From(0))'  OBVIOUS
  <1> QED  BY <1>1, <1>2, <1>3 DEF ServiceInv

(* A call outside of the lock stays outside.                               *)
LEMMA ServiceAside ==
    ASSUME ServiceInv, Services!Nobody \notin Mutator, NEW m \in Mutator, NEW w \in Mutation,
           mutation' = [mutation EXCEPT ![m] = w],
           UNCHANGED <<service, snap, stored, current, runtime, degraded, inside>>,
           cutShort' <=> cutShort, Matches(w), mutation[m].pc \notin Inside, w.pc \notin Inside
    PROVE  ServiceInv'
  <1>1. Matches(w)'  BY DEF Matches
  <1>2. inside # m  BY DEF ServiceInv
  <1>3. /\ ServiceTypes' /\ mutation'[m] = w
        /\ \A n \in Mutator : inside' = n <=> mutation'[n].pc \in Inside
        /\ \A n \in Mutator : Matches(mutation[n])'
    <2>1. /\ snap' \in [value : Value, rev : Nat] /\ snap' = snap
          /\ stored' \in UNION {[D -> Value] : D \in SUBSET Nat}
          /\ runtime' \in [1..Participants -> Value]
          /\ inside' = IF w.pc \in Inside THEN m ELSE IF inside = m THEN Services!Nobody ELSE inside
          /\ (snap'.rev \in DOMAIN stored' => stored'[snap'.rev] = snap'.value)
      BY <1>2 DEF ServiceInv, ServiceTypes
    <2> QED  BY <1>1, <2>1, ServiceGoes
  <1>4. \A n \in Mutator : inside' = n => Reached(mutation[n])'
    <2> SUFFICES ASSUME NEW n \in Mutator, inside' = n  PROVE Reached(mutation[n])'
      OBVIOUS
    <2>1. inside = n /\ mutation'[n] = mutation[n]  BY <1>2 DEF ServiceInv, ServiceTypes
    <2>2. Reached(mutation[n])  BY <2>1 DEF ServiceInv
    <2> QED  BY <2>1, <2>2 DEF Reached, Back, From
  <1>5. (inside = Services!Nobody /\ ~degraded /\ ~cutShort => Back /\ From(0))'
    BY DEF ServiceInv, Back, From
  <1>6. snap'.rev \in DOMAIN stored' => stored'[snap'.rev] = snap'.value  BY DEF ServiceInv
  <1> QED  BY <1>3, <1>4, <1>5, <1>6 DEF ServiceInv

LEMMA InsideFacts ==
    ASSUME ServiceInv, NEW m \in Mutator, mutation[m].pc \in Inside
    PROVE  /\ inside = m /\ ServiceTypes /\ mutation[m] \in Mutation
           /\ Matches(mutation[m]) /\ Reached(mutation[m])
           /\ snap \in [value : Value, rev : Nat]
           /\ stored \in UNION {[D -> Value] : D \in SUBSET Nat}
           /\ runtime \in [1..Participants -> Value]
           /\ snap.rev \in DOMAIN stored => stored[snap.rev] = snap.value
  BY DEF ServiceInv, ServiceTypes

(* Steps of the call inside that leave snapshot, revisions and            *)
(* participants alone.                                                     *)
LEMMA ServiceWaits ==
    ASSUME ServiceInv, Services!Nobody \notin Mutator, NEW m \in Mutator, NEW w \in Mutation,
           inside \in {m, Services!Nobody}, mutation' = [mutation EXCEPT ![m] = w],
           UNCHANGED <<service, snap, stored, runtime>>, Matches(w),
           inside' = IF w.pc \in Inside THEN m ELSE Services!Nobody,
           w.pc \in Inside => Reached(w)',
           w.pc \notin Inside => (~degraded /\ ~cutShort => Back /\ From(0))'
    PROVE  ServiceInv'
  <1>1. Matches(w)'  BY DEF Matches
  <1>2. /\ snap' \in [value : Value, rev : Nat] /\ snap' = snap
        /\ stored' \in UNION {[D -> Value] : D \in SUBSET Nat}
        /\ runtime' \in [1..Participants -> Value]
        /\ (snap'.rev \in DOMAIN stored' => stored'[snap'.rev] = snap'.value)
    BY DEF ServiceInv, ServiceTypes
  <1> QED  BY <1>1, <1>2, ServiceMoves

LEMMA ServiceEnterStep ==
    ASSUME ServiceInv, Services!Nobody \notin Mutator, NEW m \in Mutator, Services!Enter(m)
    PROVE  ServiceInv'
  <1> DEFINE q == mutation[m]
  <1>1. q \in Mutation /\ q.pc = "idle" /\ Matches(q)
    BY DEF Services!Enter, Services!At, ServiceInv, ServiceTypes
  <1>20. PICK k \in Services!Kinds \ {"backup"} :
            \E v \in IF k = "bookmark" THEN {snap.value} ELSE Value :
               mutation' = [mutation EXCEPT ![m] =
                   [mutation[m] EXCEPT !.pc = IF degraded THEN "refused" ELSE "queued",
                                       !.kind = k, !.to = v, !.expected = snap.rev]]
    BY Zenon DEF Services!Enter
  <1>2. PICK v \in IF k = "bookmark" THEN {snap.value} ELSE Value :
           mutation' = [mutation EXCEPT ![m] =
               [mutation[m] EXCEPT !.pc = IF degraded THEN "refused" ELSE "queued",
                                   !.kind = k, !.to = v, !.expected = snap.rev]]
    BY <1>20
  <1>3. PICK w : w = [q EXCEPT !.pc = IF degraded THEN "refused" ELSE "queued",
                               !.kind = k, !.to = v, !.expected = snap.rev]
    OBVIOUS
  <1>4. mutation' = [mutation EXCEPT ![m] = w]  BY <1>2, <1>3
  <1>5. k \in {"move", "bookmark", "mutate", "restore"}  BY <1>20 DEF Services!Kinds
  <1>6. snap.rev \in Nat /\ snap.value \in Value /\ v \in Value
        /\ (k = "bookmark" => v = snap.value)
    BY <1>2 DEF ServiceInv, ServiceTypes
  <1> HIDE DEF q
  <1>7. w \in Mutation  BY <1>1, <1>3, <1>5, <1>6 DEF Mutation, Services!Over
  <1>8. /\ w.pc \in {"refused", "queued"} /\ w.kind = k /\ w.to = v /\ w.expected = snap.rev
        /\ w.reached = q.reached /\ w.broken = q.broken
    BY <1>1, <1>3 DEF Mutation
  <1>9. q.reached = 0 /\ ~q.broken  BY <1>1 DEF Matches
  <1>10. Matches(w)  BY <1>6, <1>8, <1>9 DEF Matches, Services!Over
  <1>11. UNCHANGED <<service, snap, stored, current, runtime, degraded, inside, cutShort>>
    BY DEF Services!Enter, Services!Rest
  <1> QED  BY <1>1, <1>4, <1>7, <1>8, <1>10, <1>11, ServiceAside DEF Inside, q

LEMMA ServiceAcquireStep ==
    ASSUME ServiceInv, Services!Nobody \notin Mutator, NEW m \in Mutator, Services!Acquire(m)
    PROVE  ServiceInv'
  <1> DEFINE q == mutation[m]
  <1>1. q \in Mutation /\ q.pc = "queued" /\ Matches(q) /\ inside = Services!Nobody
    BY DEF Services!Acquire, Services!At, ServiceInv, ServiceTypes
  <1>2. PICK w : w = [q EXCEPT !.pc = "check"]  OBVIOUS
  <1>3. /\ w \in Mutation /\ w.pc = "check" /\ w.kind = q.kind /\ w.to = q.to
        /\ w.expected = q.expected /\ w.reached = q.reached /\ w.broken = q.broken
    BY <1>1, <1>2 DEF Mutation, Inside
  <1>4. /\ mutation' = [mutation EXCEPT ![m] = w] /\ inside' = m
        /\ UNCHANGED <<service, snap, stored, current, runtime, degraded, cutShort>>
    BY <1>2 DEF Services!Acquire, Services!Go, Services!Rest
  <1>5. Matches(w) /\ w.reached = 0  BY <1>1, <1>3 DEF Matches, Services!Over
  <1>6. Reached(w)'  BY <1>1, <1>3, <1>4, <1>5 DEF ServiceInv, Reached, Back, From
  <1> QED  BY <1>1, <1>3, <1>4, <1>5, <1>6, ServiceWaits DEF Inside

LEMMA ServiceCheckStep ==
    ASSUME ServiceInv, Services!Nobody \notin Mutator, NEW m \in Mutator, Services!Check(m)
    PROVE  ServiceInv'
  <1> DEFINE q == mutation[m]
  <1>1. q.pc = "check" /\ q.pc \in Inside  BY DEF Services!Check, Services!At, Inside
  <1>2. q \in Mutation /\ Matches(q) /\ Reached(q) /\ inside = m /\ ServiceTypes
    BY <1>1, InsideFacts
  <1>3. PICK pc \in {"refused", "fetch", "save"} :
           /\ Services!Go(m, pc) /\ inside' = IF pc = "refused" THEN Services!Nobody ELSE inside
           /\ pc \in {"fetch", "save"} => q.expected = snap.rev
           /\ pc = "fetch" => q.kind = "restore"
    BY DEF Services!Check, Services!End
  <1>4. PICK w : w = [q EXCEPT !.pc = pc]  OBVIOUS
  <1>5. /\ w \in Mutation /\ w.pc = pc /\ w.kind = q.kind /\ w.to = q.to
        /\ w.expected = q.expected /\ w.reached = q.reached /\ w.broken = q.broken
    BY <1>2, <1>4 DEF Mutation, Inside, Services!Over
  <1>6. /\ mutation' = [mutation EXCEPT ![m] = w]
        /\ UNCHANGED <<service, snap, stored, current, runtime, degraded, cutShort>>
    BY <1>3, <1>4 DEF Services!Check, Services!Go, Services!Rest
  <1>7. Matches(w) /\ w.reached = 0
    BY <1>1, <1>2, <1>3, <1>5 DEF Matches, Services!Over
  <1>8. pc # "refused" => Reached(w)'
    BY <1>1, <1>2, <1>3, <1>5, <1>6 DEF Matches, Reached, Back, From
  <1>9. (~degraded /\ ~cutShort => Back /\ From(0))'
    BY <1>1, <1>2, <1>5, <1>6, <1>7 DEF Matches, Reached, Back, From
  <1>10. w.pc \in Inside <=> pc # "refused"  BY <1>3, <1>5 DEF Inside
  <1> QED  BY <1>2, <1>3, <1>5, <1>6, <1>7, <1>8, <1>9, <1>10, ServiceWaits
LEMMA ServiceFetchStep ==
    ASSUME ServiceInv, Services!Nobody \notin Mutator, NEW m \in Mutator, Services!Fetch(m)
    PROVE  ServiceInv'
  <1> DEFINE q == mutation[m]
  <1>1. q.pc = "fetch" /\ q.pc \in Inside  BY DEF Services!Fetch, Services!At, Inside
  <1>2. q \in Mutation /\ Matches(q) /\ Reached(q) /\ inside = m /\ ServiceTypes
    BY <1>1, InsideFacts
  <1>3. UNCHANGED <<service, snap, stored, runtime, degraded, cutShort>>  BY DEF Services!Fetch, Services!Rest
  <1>4. q.reached = 0 /\ ~q.broken /\ q.expected = snap.rev  BY <1>1, <1>2 DEF Matches
  <1>5. CASE Services!End(m, "refused") /\ UNCHANGED current
    <2>1. PICK w : w = [q EXCEPT !.pc = "refused"]  OBVIOUS
    <2>2. /\ w \in Mutation /\ w.pc = "refused" /\ w.kind = q.kind /\ w.to = q.to
          /\ w.expected = q.expected /\ w.reached = q.reached /\ w.broken = q.broken
      BY <1>2, <2>1 DEF Mutation, Services!Over
    <2>3. mutation' = [mutation EXCEPT ![m] = w] /\ inside' = Services!Nobody
      BY <1>5, <2>1 DEF Services!End, Services!Go
    <2>4. Matches(w) /\ w.pc \notin Inside  BY <1>2, <2>2 DEF Matches, Services!Over, Inside
    <2>5. (~degraded /\ ~cutShort => Back /\ From(0))'
      BY <1>1, <1>2, <1>3, <1>4, <1>5 DEF Reached, Back, From
    <2> QED  BY <1>2, <1>3, <2>2, <2>3, <2>4, <2>5, ServiceWaits
  <1>6. CASE \E r \in DOMAIN stored :
               /\ current' = r /\ UNCHANGED inside
               /\ \E pc \in {"save", "unfetch"} :
                     mutation' = [mutation EXCEPT ![m].pc = pc, ![m].to = stored[r]]
    <2>1. PICK r \in DOMAIN stored, pc \in {"save", "unfetch"} :
               /\ UNCHANGED inside
               /\ mutation' = [mutation EXCEPT ![m].pc = pc, ![m].to = stored[r]]
      BY <1>6
    <2>2. stored[r] \in Value  BY <1>2, StoredType
    <2>3. PICK w : w = [q EXCEPT !.pc = pc, !.to = stored[r]]  OBVIOUS
    <2>4. /\ w \in Mutation /\ w.pc = pc /\ w.kind = q.kind
          /\ w.expected = q.expected /\ w.reached = q.reached /\ w.broken = q.broken
      BY <1>2, <2>2, <2>3 DEF Mutation, Inside
    <2>5. mutation' = [mutation EXCEPT ![m] = w]  BY <1>2, <2>1, <2>3 DEF ServiceTypes, Mutation
    <2>6. q.kind = "restore"  BY <1>1, <1>2 DEF Matches
    <2>7. Matches(w)  BY <1>2, <1>4, <2>4, <2>6 DEF Matches, Services!Over, ServiceTypes
    <2>8. Reached(w)'  BY <1>1, <1>2, <1>3, <1>4, <2>4 DEF Reached, From
    <2>9. w.pc \in Inside  BY <2>1, <2>4 DEF Inside
    <2> QED  BY <1>2, <1>3, <2>1, <2>4, <2>5, <2>7, <2>8, <2>9, ServiceWaits
  <1> QED  BY <1>5, <1>6 DEF Services!Fetch

LEMMA ServiceUnfetchStep ==
    ASSUME ServiceInv, Services!Nobody \notin Mutator, NEW m \in Mutator, Services!Unfetch(m)
    PROVE  ServiceInv'
  <1> DEFINE q == mutation[m]
  <1>1. q.pc = "unfetch" /\ q.pc \in Inside  BY DEF Services!Unfetch, Services!At, Inside
  <1>2. q \in Mutation /\ Matches(q) /\ Reached(q) /\ inside = m
    BY <1>1, InsideFacts
  <1>3. PICK pc \in {"refused", "degraded"} :
           /\ Services!End(m, pc)
           /\ pc = "degraded" => degraded'
           /\ pc = "refused" => snap.rev \in DOMAIN stored /\ current' = snap.rev
                                /\ UNCHANGED degraded
    BY DEF Services!Unfetch
  <1>4. UNCHANGED <<service, snap, stored, runtime, cutShort>>  BY DEF Services!Unfetch
  <1>5. PICK w : w = [q EXCEPT !.pc = pc]  OBVIOUS
  <1>6. /\ w \in Mutation /\ w.pc = pc /\ w.kind = q.kind /\ w.to = q.to
        /\ w.expected = q.expected /\ w.reached = q.reached /\ w.broken = q.broken
    BY <1>2, <1>5 DEF Mutation, Services!Over
  <1>7. mutation' = [mutation EXCEPT ![m] = w] /\ inside' = Services!Nobody
    BY <1>3, <1>5 DEF Services!End, Services!Go
  <1>8. Matches(w) /\ w.pc \notin Inside
    BY <1>2, <1>3, <1>6 DEF Matches, Services!Over, Inside
  <1>9. (~degraded /\ ~cutShort => Back /\ From(0))'
    BY <1>1, <1>2, <1>3, <1>4 DEF Matches, Reached, Back, From
  <1> QED  BY <1>2, <1>4, <1>6, <1>7, <1>8, <1>9, ServiceWaits

LEMMA ServiceSaveStep ==
    ASSUME ServiceInv, Services!Nobody \notin Mutator, NEW m \in Mutator, Services!Save(m)
    PROVE  ServiceInv'
  <1> DEFINE q == mutation[m]
  <1>1. q.pc = "save" /\ q.pc \in Inside  BY DEF Services!Save, Services!At, Inside
  <1>2. q \in Mutation /\ Matches(q) /\ Reached(q) /\ inside = m /\ ServiceTypes
    BY <1>1, InsideFacts
  <1>3. UNCHANGED <<service, snap, runtime, degraded, cutShort, inside>>  BY DEF Services!Save, Services!Rest
  <1>4. q.reached = 0 /\ ~q.broken /\ q.expected = snap.rev  BY <1>1, <1>2 DEF Matches
  <1>5. PICK pc \in {"apply", "undo"} :
           /\ Services!Go(m, pc)
           /\ pc = "apply" => Services!Store(snap.rev + 1, q.to) /\ current' = snap.rev + 1
           /\ pc = "undo" => UNCHANGED <<stored, current>>
    BY DEF Services!Save
  <1>6. PICK w : w = [q EXCEPT !.pc = pc]  OBVIOUS
  <1>7. /\ w \in Mutation /\ w.pc = pc /\ w.kind = q.kind /\ w.to = q.to
        /\ w.expected = q.expected /\ w.reached = q.reached /\ w.broken = q.broken
    BY <1>2, <1>6 DEF Mutation, Inside
  <1>8. mutation' = [mutation EXCEPT ![m] = w]  BY <1>5, <1>6 DEF Services!Go
  <1>9. Matches(w)'  BY <1>1, <1>2, <1>3, <1>4, <1>5, <1>7 DEF Matches, Services!Over
  <1>10. snap.rev \in Nat /\ q.to \in Value  BY <1>2 DEF ServiceTypes, Mutation
  <1>11. /\ snap' = snap /\ snap' \in [value : Value, rev : Nat]
         /\ runtime' \in [1..Participants -> Value]
    BY <1>2, <1>3 DEF ServiceTypes
  <1>12. CASE pc = "apply"
    <2>1. /\ stored' \in UNION {[D -> Value] : D \in SUBSET Nat}
          /\ DOMAIN stored' = DOMAIN stored \cup {snap.rev + 1} /\ stored'[snap.rev + 1] = q.to
          /\ \A k \in DOMAIN stored : k # snap.rev + 1 => stored'[k] = stored[k]
      <3>1. PICK r \in Nat, v \in Value : r = snap.rev + 1 /\ v = q.to  BY <1>10
      <3>2. Services!Store(r, v)  BY <1>5, <1>12, <3>1
      <3> QED  BY <1>2, <3>1, <3>2, StoreKeeps
    <2>2. snap.rev # snap.rev + 1  BY <1>10
    <2>3. snap'.rev \in DOMAIN stored' => stored'[snap'.rev] = snap'.value
      BY <1>3, <2>1, <2>2 DEF ServiceInv
    <2>4. Reached(w)'
      BY <1>1, <1>2, <1>3, <1>4, <1>5, <1>7, <1>12, <2>1 DEF Reached, From
    <2> QED
      BY <1>2, <1>3, <1>5, <1>7, <1>8, <1>9, <1>11, <1>12, <2>1, <2>3, <2>4, ServiceMoves
      DEF Inside
  <1>13. CASE pc = "undo"
    <2>1. /\ stored' \in UNION {[D -> Value] : D \in SUBSET Nat}
          /\ (snap'.rev \in DOMAIN stored' => stored'[snap'.rev] = snap'.value)
      BY <1>3, <1>5, <1>13 DEF ServiceInv, ServiceTypes
    <2>2. Reached(w)'
      BY <1>1, <1>2, <1>3, <1>4, <1>5, <1>7, <1>13 DEF Reached, From
    <2> QED
      BY <1>2, <1>3, <1>7, <1>8, <1>9, <1>11, <1>13, <2>1, <2>2, ServiceMoves DEF Inside
  <1> QED  BY <1>5, <1>12, <1>13

LEMMA ServiceApplyStep ==
    ASSUME ServiceInv, Services!Nobody \notin Mutator, Participants \in Nat,
           NEW m \in Mutator, Services!Apply(m)
    PROVE  ServiceInv'
  <1> DEFINE q == mutation[m]
  <1>1. q.pc = "apply" /\ q.pc \in Inside  BY DEF Services!Apply, Services!At, Inside
  <1>2. q \in Mutation /\ Matches(q) /\ Reached(q) /\ inside = m /\ ServiceTypes
    BY <1>1, InsideFacts
  <1>3. UNCHANGED <<service, snap, stored, current, degraded, cutShort, inside>>
    BY DEF Services!Apply, Services!Rest
  <1>4. ~q.broken /\ q.expected = snap.rev /\ q.reached \in 0..Participants
    BY <1>1, <1>2 DEF Matches, Mutation
  <1>5. q.reached < Participants /\ q.kind # "bookmark"
    BY <1>4 DEF Services!Apply, Services!Touched
  <1> DEFINE p == q.reached + 1
  <1>6. p \in 1..Participants  BY <1>4, <1>5
  <1>7. PICK v \in {runtime[p], q.to}, pc \in {"apply", "undo"} :
           /\ pc = "apply" => v = q.to
           /\ runtime' = [runtime EXCEPT ![p] = v]
           /\ mutation' = [mutation EXCEPT ![m].pc = pc, ![m].reached = p]
    BY DEF Services!Apply
  <1>8. PICK w : w = [q EXCEPT !.pc = pc, !.reached = p]  OBVIOUS
  <1>9. /\ w \in Mutation /\ w.pc = pc /\ w.kind = q.kind /\ w.to = q.to
        /\ w.expected = q.expected /\ w.reached = p /\ w.broken = q.broken
    <2>1. p \in 0..Participants  BY <1>6
    <2>2. q \in Mutation  BY <1>2
    <2> HIDE DEF p, q
    <2> QED  BY <1>8, <2>1, <2>2 DEF Mutation, Inside
  <1>10. mutation' = [mutation EXCEPT ![m] = w]  BY <1>2, <1>7, <1>8 DEF ServiceTypes, Mutation
  <1>11. Matches(w)'  BY <1>1, <1>2, <1>3, <1>4, <1>5, <1>7, <1>9 DEF Matches, Services!Over
  <1>12. q.to \in Value /\ runtime[p] \in Value
    BY <1>2, <1>6 DEF ServiceTypes, Mutation
  <1>13. /\ runtime' \in [1..Participants -> Value] /\ runtime'[p] = v
         /\ \A i \in 1..Participants : i # p => runtime'[i] = runtime[i]
    BY <1>2, <1>6, <1>7, <1>12 DEF ServiceTypes
  <1>14. /\ snap' = snap /\ snap' \in [value : Value, rev : Nat]
         /\ stored' \in UNION {[D -> Value] : D \in SUBSET Nat}
         /\ (snap'.rev \in DOMAIN stored' => stored'[snap'.rev] = snap'.value)
    BY <1>2, <1>3 DEF ServiceTypes, ServiceInv
  <1>15. Reached(w)'
    <2>1. (w.pc = "apply" =>
             /\ current = snap.rev + 1 /\ current \in DOMAIN stored /\ stored[current] = w.to
             /\ \A i \in 1..w.reached : runtime[i] = w.to)'
      <3> SUFFICES ASSUME pc = "apply"
                   PROVE  /\ current = snap.rev + 1 /\ current \in DOMAIN stored
                          /\ stored[current] = q.to
                          /\ \A i \in 1..p : runtime'[i] = q.to
        BY <1>3, <1>9
      <3>1. \A i \in 1..p : i # p => i \in 1..q.reached /\ i \in 1..Participants
        BY <1>4, <1>5
      <3> QED  BY <1>1, <1>2, <1>7, <1>13, <3>1 DEF Reached
    <2>2. (~degraded /\ ~cutShort => From(w.reached))'
      <3>1. \A i \in 1..Participants : i > p => i # p /\ i > q.reached  BY <1>4
      <3> QED  BY <1>1, <1>2, <1>3, <1>4, <1>9, <1>13, <3>1 DEF Reached, From
    <2> QED  BY <1>7, <1>9, <2>1, <2>2 DEF Reached
  <1> QED
    BY <1>2, <1>3, <1>7, <1>9, <1>10, <1>11, <1>13, <1>14, <1>15, ServiceMoves DEF Inside
LEMMA ServiceFinishStep ==
    ASSUME ServiceInv, Services!Nobody \notin Mutator, Participants \in Nat,
           NEW m \in Mutator, Services!Finish(m)
    PROVE  ServiceInv'
  <1> DEFINE q == mutation[m]
  <1>1. q.pc = "apply" /\ q.pc \in Inside  BY DEF Services!Finish, Services!At, Inside
  <1>2. q \in Mutation /\ Matches(q) /\ Reached(q) /\ inside = m /\ ServiceTypes
    BY <1>1, InsideFacts
  <1>3. UNCHANGED <<service, stored, current, runtime, degraded>>  BY DEF Services!Finish
  <1>4. /\ ~q.broken /\ q.expected = snap.rev /\ q.to \in Value /\ snap.rev \in Nat
        /\ q.reached = IF q.kind = "bookmark" THEN 0 ELSE Participants
    BY <1>1, <1>2 DEF Matches, Mutation, ServiceTypes, Services!Finish, Services!Touched
  <1>5. PICK pc \in {"ok", "undo"} :
           /\ Services!Go(m, pc)
           /\ pc = "ok" => /\ snap' = [value |-> q.to, rev |-> snap.rev + 1]
                           /\ cutShort' = (cutShort /\ q.kind = "bookmark")
                           /\ inside' = Services!Nobody
           /\ pc = "undo" => UNCHANGED <<snap, cutShort, inside>>
    BY DEF Services!Finish, Services!End
  <1>6. PICK w : w = [q EXCEPT !.pc = pc]  OBVIOUS
  <1>7. /\ w \in Mutation /\ w.pc = pc /\ w.kind = q.kind /\ w.to = q.to
        /\ w.expected = q.expected /\ w.reached = q.reached /\ w.broken = q.broken
    BY <1>2, <1>6 DEF Mutation, Inside, Services!Over
  <1>8. mutation' = [mutation EXCEPT ![m] = w]  BY <1>5, <1>6 DEF Services!Go
  <1>9. /\ stored' \in UNION {[D -> Value] : D \in SUBSET Nat}
        /\ runtime' \in [1..Participants -> Value]
    BY <1>2, <1>3 DEF ServiceTypes
  <1>10. CASE pc = "ok"
    <2>1. /\ snap' \in [value : Value, rev : Nat] /\ snap'.rev = snap.rev + 1
          /\ snap'.value = q.to
      BY <1>4, <1>5, <1>10
    <2>2. Matches(w)' /\ w.pc \notin Inside
      BY <1>2, <1>7, <1>10 DEF Matches, Services!Over, Inside
    <2>3. /\ current' = snap'.rev /\ snap'.rev \in DOMAIN stored'
          /\ stored'[snap'.rev] = snap'.value
      BY <1>1, <1>2, <1>3, <2>1 DEF Reached
    <2>4. (~degraded /\ ~cutShort => From(0))'
      <3>1. CASE q.kind = "bookmark"
        <4>1. q.to = snap.value  BY <1>1, <1>2, <1>4, <3>1 DEF Matches, Services!Over
        <4>2. ~degraded /\ ~cutShort => From(0)  BY <1>1, <1>2, <1>4, <3>1 DEF Reached
        <4> QED  BY <1>3, <1>5, <1>10, <2>1, <3>1, <4>1, <4>2 DEF From
      <3>2. CASE q.kind # "bookmark"
        <4>1. \A i \in 1..Participants : runtime[i] = q.to  BY <1>1, <1>2, <1>4, <3>2 DEF Reached
        <4> QED  BY <1>3, <2>1, <4>1 DEF From
      <3> QED  BY <3>1, <3>2
    <2>5. (~degraded /\ ~cutShort => Back /\ From(0))'  BY <2>3, <2>4 DEF Back
    <2> QED
      BY <1>2, <1>3, <1>5, <1>7, <1>8, <1>9, <1>10, <2>1, <2>2, <2>3, <2>5, ServiceMoves
  <1>11. CASE pc = "undo"
    <2>1. /\ snap' = snap /\ snap' \in [value : Value, rev : Nat]
          /\ (snap'.rev \in DOMAIN stored' => stored'[snap'.rev] = snap'.value)
      BY <1>2, <1>3, <1>5, <1>11 DEF ServiceTypes, ServiceInv
    <2>2. Matches(w)'  BY <1>1, <1>2, <1>4, <1>7, <1>11, <2>1 DEF Matches, Services!Over
    <2>3. Reached(w)'
      BY <1>1, <1>2, <1>3, <1>4, <1>5, <1>7, <1>11, <2>1 DEF Reached, From
    <2> QED
      BY <1>2, <1>3, <1>5, <1>7, <1>8, <1>9, <1>11, <2>1, <2>2, <2>3, ServiceMoves DEF Inside
  <1> QED  BY <1>5, <1>10, <1>11

LEMMA ServiceUndoStep ==
    ASSUME ServiceInv, Services!Nobody \notin Mutator, Participants \in Nat,
           NEW m \in Mutator, Services!Undo(m)
    PROVE  ServiceInv'
  <1> DEFINE q == mutation[m]
  <1> DEFINE p == q.reached
  <1>1. q.pc = "undo" /\ q.pc \in Inside /\ p > 0  BY DEF Services!Undo, Services!At, Inside
  <1>2. q \in Mutation /\ Matches(q) /\ Reached(q) /\ inside = m /\ ServiceTypes
    BY <1>1, InsideFacts
  <1>3. UNCHANGED <<service, snap, stored, current, degraded, cutShort, inside>>
    BY DEF Services!Undo, Services!Rest
  <1>4. p \in 1..Participants /\ q.expected = snap.rev /\ p - 1 \in 0..Participants
        /\ q.kind # "bookmark"
    BY <1>1, <1>2 DEF Matches, Mutation
  <1>5. PICK ok \in BOOLEAN, v \in {runtime[p], snap.value} :
           /\ ok => v = snap.value
           /\ runtime' = [runtime EXCEPT ![p] = v]
           /\ mutation' = [mutation EXCEPT ![m].reached = p - 1,
                                           ![m].broken = q.broken \/ ~ok]
    BY DEF Services!Undo
  <1>6. PICK w : w = [q EXCEPT !.reached = p - 1, !.broken = q.broken \/ ~ok]  OBVIOUS
  <1>7. /\ w \in Mutation /\ w.pc = "undo" /\ w.kind = q.kind /\ w.to = q.to
        /\ w.expected = q.expected /\ w.reached = p - 1 /\ w.broken = (q.broken \/ ~ok)
    <2> DEFINE k == p - 1
    <2> DEFINE b == q.broken \/ ~ok
    <2>1. q \in Mutation /\ q.pc = "undo" /\ k \in 0..Participants /\ b \in BOOLEAN
      BY <1>1, <1>2, <1>4
    <2>2. w = [q EXCEPT !.reached = k, !.broken = b]  BY <1>6
    <2> HIDE DEF k, b, q
    <2>3. /\ w \in Mutation /\ w.pc = "undo" /\ w.kind = q.kind /\ w.to = q.to
          /\ w.expected = q.expected /\ w.reached = k /\ w.broken = b
      BY <2>1, <2>2 DEF Mutation, Inside
    <2> QED  BY <2>3 DEF k, b
  <1>8. mutation' = [mutation EXCEPT ![m] = w]
    BY <1>2, <1>5, <1>6 DEF ServiceTypes, Mutation
  <1>9. snap.value \in Value /\ runtime[p] \in Value  BY <1>2, <1>4 DEF ServiceTypes
  <1>10. /\ runtime' \in [1..Participants -> Value] /\ runtime'[p] = v
         /\ \A i \in 1..Participants : i # p => runtime'[i] = runtime[i]
    BY <1>2, <1>4, <1>5, <1>9 DEF ServiceTypes
  <1>11. /\ snap' = snap /\ snap' \in [value : Value, rev : Nat]
         /\ stored' \in UNION {[D -> Value] : D \in SUBSET Nat}
         /\ (snap'.rev \in DOMAIN stored' => stored'[snap'.rev] = snap'.value)
    BY <1>2, <1>3 DEF ServiceTypes, ServiceInv
  <1>12. Matches(w)'  BY <1>1, <1>2, <1>3, <1>4, <1>7 DEF Matches, Services!Over
  <1>13. Reached(w)'
    <2>1. \A i \in 1..Participants : i > p - 1 => i = p \/ i > p  BY <1>4
    <2>2. ~degraded /\ ~cutShort /\ ~w.broken => \A i \in 1..Participants :
             i > p - 1 => runtime'[i] = snap.value
      BY <1>2, <1>5, <1>7, <1>10, <2>1 DEF Reached, From
    <2> QED  BY <1>3, <1>7, <2>2 DEF Reached, From
  <1> QED
    BY <1>2, <1>3, <1>7, <1>8, <1>10, <1>11, <1>12, <1>13, ServiceMoves DEF Inside

LEMMA ServiceUndoSaveStep ==
    ASSUME ServiceInv, Services!Nobody \notin Mutator, NEW m \in Mutator, Services!UndoSave(m)
    PROVE  ServiceInv'
  <1> DEFINE q == mutation[m]
  <1>1. q.pc = "undo" /\ q.pc \in Inside /\ q.reached = 0  BY DEF Services!UndoSave, Services!At, Inside
  <1>2. q \in Mutation /\ Matches(q) /\ Reached(q) /\ inside = m /\ ServiceTypes
    BY <1>1, InsideFacts
  <1>3. UNCHANGED <<service, snap, runtime, cutShort>>  BY DEF Services!UndoSave
  <1>4. PICK ok \in BOOLEAN :
          /\ ok /\ service = "configuration" => snap.rev \in DOMAIN stored
          /\ IF ok THEN current' = snap.rev ELSE UNCHANGED current
          /\ IF ok /\ service = "workspace" THEN Services!Store(snap.rev, snap.value)
             ELSE UNCHANGED stored
          /\ degraded' = (degraded \/ ~ok \/ q.broken)
          /\ Services!End(m, IF ok /\ ~q.broken THEN "refused" ELSE "degraded")
    BY DEF Services!UndoSave
  <1>5. PICK pc : pc = IF ok /\ ~q.broken THEN "refused" ELSE "degraded"  OBVIOUS
  <1>6. PICK w : w = [q EXCEPT !.pc = pc]  OBVIOUS
  <1>7. /\ w \in Mutation /\ w.pc = pc /\ w.kind = q.kind /\ w.to = q.to
        /\ w.expected = q.expected /\ w.reached = q.reached /\ w.broken = q.broken
    BY <1>2, <1>5, <1>6 DEF Mutation, Services!Over
  <1>8. mutation' = [mutation EXCEPT ![m] = w] /\ inside' = Services!Nobody
    BY <1>4, <1>5, <1>6 DEF Services!End, Services!Go
  <1>9. Matches(w)' /\ w.pc \notin Inside
    BY <1>2, <1>5, <1>7 DEF Matches, Services!Over, Inside
  <1>10. /\ stored' \in UNION {[D -> Value] : D \in SUBSET Nat}
         /\ (snap.rev \in DOMAIN stored' => stored'[snap.rev] = snap.value)
         /\ (snap.rev \in DOMAIN stored => snap.rev \in DOMAIN stored')
         /\ (ok /\ service = "workspace" => snap.rev \in DOMAIN stored')
    <2>1. CASE ok /\ service = "workspace"
      <3>1. PICK r \in Nat, v \in Value : r = snap.rev /\ v = snap.value
        BY <1>2 DEF ServiceTypes
      <3>2. Services!Store(r, v)  BY <1>4, <2>1, <3>1
      <3> QED  BY ZenonT(40), <1>2, <3>1, <3>2, StoreKeeps
    <2>2. CASE ~(ok /\ service = "workspace")
      BY <1>2, <1>4, <2>2 DEF ServiceInv, ServiceTypes
    <2> QED  BY <2>1, <2>2
  <1>11. service \in {"workspace", "configuration"} => (ok => snap.rev \in DOMAIN stored')
    BY <1>4, <1>10
  <1>12. /\ snap' = snap /\ snap' \in [value : Value, rev : Nat]
         /\ runtime' \in [1..Participants -> Value]
    BY <1>2, <1>3 DEF ServiceTypes
  <1>13. (~degraded /\ ~cutShort => Back /\ From(0))'
    <2>1. SUFFICES ASSUME ~degraded', ~cutShort'  PROVE Back' /\ From(0)'  OBVIOUS
    <2>2. ok /\ ~q.broken /\ ~degraded /\ ~cutShort  BY <1>3, <1>4, <2>1
    <2>3. From(0)  BY <1>1, <1>2, <2>2 DEF Reached
    <2>4. From(0)'  BY <1>3, <2>3 DEF From
    <2>5. current' = snap.rev /\ snap.rev \in DOMAIN stored'
      BY <1>4, <1>11, <2>2 DEF ServiceInv, ServiceTypes
    <2> QED  BY <1>3, <2>4, <2>5 DEF Back
  <1> QED  BY <1>2, <1>3, <1>7, <1>8, <1>9, <1>10, <1>12, <1>13, ServiceMoves
LEMMA ServiceBackupStep ==
    ASSUME ServiceInv, Services!Nobody \notin Mutator, NEW m \in Mutator, Services!Backup(m)
    PROVE  ServiceInv'
  <1> DEFINE q == mutation[m]
  <1>1. q \in Mutation /\ q.pc = "idle" /\ Matches(q) /\ inside = Services!Nobody /\ ServiceTypes
    BY DEF Services!Backup, Services!At, ServiceInv, ServiceTypes
  <1>2. PICK w : w = [q EXCEPT !.pc = "ok", !.kind = "backup"]  OBVIOUS
  <1>3. /\ w \in Mutation /\ w.pc = "ok" /\ w.kind = "backup" /\ w.to = q.to
        /\ w.expected = q.expected /\ w.reached = q.reached /\ w.broken = q.broken
    BY <1>1, <1>2 DEF Mutation, Services!Over
  <1>4. /\ mutation' = [mutation EXCEPT ![m] = w] /\ current' = snap.rev
        /\ UNCHANGED <<service, snap, runtime, degraded, cutShort, inside>>
    BY <1>1, <1>2 DEF Services!Backup, Services!Rest, ServiceTypes, Mutation
  <1>5. PICK r \in Nat, v \in Value : r = snap.rev /\ v = snap.value
    BY <1>1 DEF ServiceTypes
  <1>6. Services!Store(r, v)  BY <1>5 DEF Services!Backup
  <1>7. /\ stored' \in UNION {[D -> Value] : D \in SUBSET Nat}
        /\ snap.rev \in DOMAIN stored' /\ stored'[snap.rev] = snap.value
    BY <1>1, <1>5, <1>6, StoreKeeps
  <1>8. Matches(w)' /\ w.pc \notin Inside  BY <1>1, <1>3 DEF Matches, Services!Over, Inside
  <1>9. (~degraded /\ ~cutShort => Back /\ From(0))'
    BY <1>1, <1>4, <1>7 DEF ServiceInv, Back, From
  <1>10. /\ snap' = snap /\ snap' \in [value : Value, rev : Nat]
         /\ runtime' \in [1..Participants -> Value]
    BY <1>1, <1>4 DEF ServiceTypes
  <1> QED  BY <1>1, <1>3, <1>4, <1>7, <1>8, <1>9, <1>10, ServiceMoves

LEMMA ServiceCancelStep ==
    ASSUME ServiceInv, Services!Nobody \notin Mutator, NEW m \in Mutator, Services!Cancel(m)
    PROVE  ServiceInv'
  <1> DEFINE q == mutation[m]
  <1>1. q \in Mutation /\ Matches(q) /\ q.pc \in {"queued"} \cup Inside
    BY DEF ServiceInv, ServiceTypes, Services!Cancel, Mutation
  <1>2. PICK w : w = [q EXCEPT !.pc = "cancelled"]  OBVIOUS
  <1>3. /\ w \in Mutation /\ w.pc = "cancelled" /\ w.kind = q.kind /\ w.to = q.to
        /\ w.expected = q.expected /\ w.reached = q.reached /\ w.broken = q.broken
    BY <1>1, <1>2 DEF Mutation, Services!Over
  <1>4. /\ mutation' = [mutation EXCEPT ![m] = w]
        /\ UNCHANGED <<service, snap, stored, current, runtime, degraded>>
        /\ inside' = IF inside = m THEN Services!Nobody ELSE inside
        /\ cutShort' = (cutShort \/ ~(q.pc = "queued" \/ q.pc = "check"))
    BY <1>2 DEF Services!Cancel, Services!Go, Services!At
  <1>5. Matches(w) /\ w.pc \notin Inside  BY <1>1, <1>3 DEF Matches, Services!Over, Inside
  <1>6. CASE q.pc = "queued"
    <2>1. q.pc \notin Inside  BY <1>6 DEF Inside
    <2>2. inside # m  BY <2>1 DEF ServiceInv
    <2>3. inside' = inside /\ (cutShort' <=> cutShort)  BY <1>4, <1>6, <2>2
    <2> QED  BY <1>3, <1>4, <1>5, <2>1, <2>3, ServiceAside
  <1>7. CASE q.pc \in Inside
    <2>1. inside = m /\ Reached(q)  BY <1>7, InsideFacts
    <2>2. (~degraded /\ ~cutShort => Back /\ From(0))'
      <3>1. SUFFICES ASSUME ~degraded', ~cutShort'  PROVE Back' /\ From(0)'  OBVIOUS
      <3>2. q.pc = "check" /\ ~cutShort /\ ~degraded
        BY <1>4, <1>7, <3>1 DEF Inside
      <3>3. q.reached = 0  BY <1>1, <3>2 DEF Matches
      <3> QED  BY <1>4, <2>1, <3>2, <3>3 DEF Reached, Back, From
    <2> QED  BY <1>3, <1>4, <1>5, <2>1, <2>2, ServiceWaits
  <1> QED  BY <1>1, <1>6, <1>7

LEMMA ServiceInvStep ==
    ASSUME Participants \in Nat, Services!Nobody \notin Mutator
    PROVE  ServiceInv /\ [Services!Next]_(Services!vars) => ServiceInv'
  <1> SUFFICES ASSUME ServiceInv, [Services!Next]_(Services!vars)  PROVE ServiceInv'  OBVIOUS
  <1>1. ASSUME UNCHANGED <<service, snap, stored, current, runtime, degraded, inside, cutShort,
                           mutation>>
        PROVE  ServiceInv'
    BY <1>1 DEF ServiceInv, ServiceTypes, Matches, Reached, Back, From
  <1>2. CASE UNCHANGED Services!vars  BY <1>1, <1>2 DEF Services!vars
  <1>3. CASE Services!TurnsChange  BY <1>1, <1>3 DEF Services!TurnsChange
  <1>4. ASSUME NEW m \in Mutator, Services!Work(m)  PROVE ServiceInv'
    BY <1>4, ServiceAcquireStep, ServiceCheckStep, ServiceFetchStep, ServiceUnfetchStep,
       ServiceSaveStep, ServiceApplyStep, ServiceFinishStep, ServiceUndoStep,
       ServiceUndoSaveStep DEF Services!Work
  <1> QED
    BY <1>2, <1>3, <1>4, ServiceEnterStep, ServiceBackupStep, ServiceCancelStep DEF Services!Next

(* All or nothing, for any number of callers, values and participants: a   *)
(* transaction that fails anywhere leaves the participants, the repository *)
(* and the snapshot agreeing, unless the service says it is degraded or a  *)
(* caller was cancelled inside (services/workspaces.py:move,               *)
(* services/configuration.py:_commit_locked).                              *)
THEOREM TransactionsAreAllOrNothing ==
    ASSUME Participants \in Nat, First \in Value, Services!Nobody \notin Mutator
    PROVE  Services!Spec => []AllOrNothing
  <1>1. ServiceInv => Services!AllOrNothing
    <2> SUFFICES ASSUME ServiceInv, inside = Services!Nobody, ~degraded, ~cutShort
                 PROVE  /\ \A p \in 1..Participants : runtime[p] = snap.value
                        /\ IF current = Services!Unset THEN snap.rev = 0
                           ELSE current = snap.rev /\ stored[current] = snap.value
      BY DEF Services!AllOrNothing
    <2>1. Back /\ From(0) /\ snap.rev \in Nat  BY DEF ServiceInv, ServiceTypes
    <2>2. \A p \in 1..Participants : runtime[p] = snap.value  BY <2>1 DEF From
    <2>3. Services!Unset \notin Nat  BY DEF Services!Unset
    <2> QED  BY <2>1, <2>2, <2>3 DEF Back, ServiceInv
  <1> QED  BY <1>1, ServiceInvInit, ServiceInvStep, PTL DEF Services!Spec, AllOrNothing

----------------------------------------------------------------------------
(* The legacy configuration: whoever is past drafted has the mutex, so the  *)
(* live Config moves under nobody; what has been applied is in the file;   *)
(* and a bookmark leaves the root alone.                                   *)
CallRecord == [at : Config!Stage, draft : Config!Config \cup {None}, kept : Config!Config \cup {None},
               syncs : BOOLEAN, ok : BOOLEAN]
Agree == settings = disk /\ context = settings.root

ConfigInv ==
    /\ settings \in Config!Config /\ disk \in Config!Config
    /\ call \in [Api -> CallRecord]
    /\ \A a \in Api :
          /\ call[a].at \in {"begun", "applied", "undone"} <=> mutex = a
          /\ call[a].at # "idle" => call[a].draft \in Config!Config
          /\ call[a].at \in {"applied", "undone"} => settings = disk
          /\ call[a].at = "applied" => call[a].kept \in Config!Config
          /\ call[a].at = "begun" /\ ~marked /\ ~raised => Agree
          /\ call[a].at = "begun" /\ ~call[a].syncs => call[a].draft.root = settings.root
          /\ call[a].at \in {"idle", "drafted"} => call[a].syncs
    /\ Config!AgreeOrDegraded

(* Thread a goes on to w, and the others stay as they are.                 *)
LEMMA ConfigGoes ==
    ASSUME ConfigInv, NEW a \in Api, NEW w \in CallRecord,
           call' = [call EXCEPT ![a] = w], None \notin Api,
           mutex \in {None, a}, mutex' \in {None, a},
           w.at \in {"begun", "applied", "undone"} <=> mutex' = a,
           w.at # "idle" => w.draft \in Config!Config,
           w.at = "applied" => w.kept \in Config!Config,
           w.at \in {"applied", "undone"} => settings' = disk',
           w.at = "begun" /\ ~marked' /\ ~raised' => Agree',
           w.at = "begun" /\ ~w.syncs => w.draft.root = settings'.root,
           w.at \in {"idle", "drafted"} => w.syncs,
           mutex' = None /\ ~marked' /\ ~raised' => Agree',
           settings' \in Config!Config, disk' \in Config!Config
    PROVE  ConfigInv'
  <1>1. call' \in [Api -> CallRecord] /\ call'[a] = w
        /\ \A b \in Api : b # a => call'[b] = call[b]
    BY DEF ConfigInv
  <1>2. \A b \in Api : b # a => call[b].at \notin {"begun", "applied", "undone"}
    BY DEF ConfigInv
  <1>3. Config!AgreeOrDegraded'  BY DEF Config!AgreeOrDegraded, Agree
  <1>4. ASSUME NEW b \in Api
        PROVE  /\ call'[b].at \in {"begun", "applied", "undone"} <=> mutex' = b
               /\ call'[b].at # "idle" => call'[b].draft \in Config!Config
               /\ call'[b].at \in {"applied", "undone"} => settings' = disk'
               /\ call'[b].at = "applied" => call'[b].kept \in Config!Config
               /\ call'[b].at = "begun" /\ ~marked' /\ ~raised' => Agree'
               /\ call'[b].at = "begun" /\ ~call'[b].syncs
                     => call'[b].draft.root = settings'.root
               /\ call'[b].at \in {"idle", "drafted"} => call'[b].syncs
    <2>1. CASE b = a  BY <1>1, <2>1
    <2>2. CASE b # a  BY <1>1, <1>2, <2>2 DEF ConfigInv
    <2> QED  BY <2>1, <2>2
  <1> QED  BY <1>1, <1>3, <1>4 DEF ConfigInv, Config!Config

LEMMA IdleIs ==
    Config!Idle \in CallRecord /\ Config!Idle.at = "idle" /\ Config!Idle.syncs
  BY DEF Config!Idle, CallRecord, Config!Stage

(* a gives the mutex back: the settings agree, or somebody is told.        *)
LEMMA ConfigReturns ==
    ASSUME ConfigInv, NEW a \in Api, None \notin Api, mutex = a \/ mutex = None, Config!Return(a),
           ~marked' /\ ~raised' => Agree',
           settings' \in Config!Config, disk' \in Config!Config
    PROVE  ConfigInv'
  <1>1. PICK w : w = Config!Idle  OBVIOUS
  <1>2. w \in CallRecord /\ w.at = "idle" /\ w.syncs  BY <1>1, IdleIs
  <1>3. call' = [call EXCEPT ![a] = w] /\ mutex' = None  BY <1>1 DEF Config!Return
  <1> QED  BY <1>2, <1>3, ConfigGoes

LEMMA DraftsAreConfigs ==
    ASSUME NEW c \in Config!Config  PROVE Config!FromConfig(c) \subseteq Config!Config
  <1>1. Config!Anything(c) \subseteq Config!Config  BY DEF Config!Anything, Config!Config
  <1>2. Config!Settings(c) \subseteq Config!Config  BY DEF Config!Settings, Config!Config
  <1> QED
    BY <1>1, <1>2 DEF Config!FromConfig, Config!Update, Config!UpdateSettings, Config!ProviderEdits,
                      Config!ProfileEdits, Config!ImportConfig

LEMMA ConfigInvInit == ASSUME None \notin Api  PROVE Config!Init => ConfigInv
  <1> SUFFICES ASSUME Config!Init  PROVE ConfigInv  OBVIOUS
  <1>1. \A a \in Api : call[a] = Config!Idle  BY DEF Config!Init
  <1>2. call \in [Api -> CallRecord]  BY <1>1, IdleIs DEF Config!Init
  <1>3. \A a \in Api : mutex # a /\ call[a].at = "idle" /\ call[a].syncs
    BY <1>1, IdleIs DEF Config!Init
  <1> QED  BY <1>2, <1>3 DEF ConfigInv, Config!Init, Config!AgreeOrDegraded, Agree

(* A thread begins with a draft: it has the mutex, and nothing else moves. *)
LEMMA ConfigBegins ==
    ASSUME ConfigInv, NEW a \in Api, None \notin Api, mutex = None, mutex' = a, ~marked,
           NEW w \in CallRecord, w.at = "begun", w.draft \in Config!Config,
           ~w.syncs => w.draft.root = settings.root,
           call' = [call EXCEPT ![a] = w],
           UNCHANGED <<settings, disk, context, marked, raised>>
    PROVE  ConfigInv'
  <1>1. ~marked /\ ~raised => Agree  BY DEF ConfigInv, Config!AgreeOrDegraded, Agree
  <1>2. settings \in Config!Config /\ disk \in Config!Config  BY DEF ConfigInv
  <1> QED  BY <1>1, <1>2, ConfigGoes DEF Agree

LEMMA ConfigStarts ==
    ASSUME ConfigInv, NEW a \in Api, None \notin Api,
           \/ Config!Draft(a) \/ Config!Refused(a) \/ Config!Begin(a) \/ Config!Move(a) \/ Config!Bookmark(a)
    PROVE  ConfigInv'
  <1>0. /\ settings \in Config!Config /\ disk \in Config!Config /\ call[a] \in CallRecord
        /\ call[a].at \in {"idle", "drafted"} => call[a].syncs /\ mutex # a
        /\ mutex = None /\ ~marked /\ ~raised => Agree
    BY DEF ConfigInv, Config!AgreeOrDegraded, Agree
  <1>1. CASE Config!Draft(a)
    <2>1. PICK d \in Config!Config : call' = [call EXCEPT ![a].at = "drafted", ![a].draft = d]
      BY <1>0, <1>1, DraftsAreConfigs DEF Config!Draft
    <2>2. PICK w : w = [call[a] EXCEPT !.at = "drafted", !.draft = d]  OBVIOUS
    <2>3. w \in CallRecord /\ w.at = "drafted" /\ w.draft = d /\ w.syncs = call[a].syncs
      BY <1>0, <2>2 DEF CallRecord, Config!Stage
    <2>4. call' = [call EXCEPT ![a] = w]  BY <2>1, <2>2
    <2>5. call'[a] = w /\ \A b \in Api : b # a => call'[b] = call[b]  BY <2>4 DEF ConfigInv
    <2>6. call' \in [Api -> CallRecord]  BY <2>3, <2>4 DEF ConfigInv
    <2>7. /\ call[a].syncs /\ mutex # a
          /\ UNCHANGED <<settings, disk, context, marked, mutex, raised>>
      BY <1>0, <1>1 DEF Config!Draft
    <2>8. Config!AgreeOrDegraded'  BY <2>7 DEF ConfigInv, Config!AgreeOrDegraded
    <2>9. ASSUME NEW b \in Api
          PROVE  /\ call'[b].at \in {"begun", "applied", "undone"} <=> mutex' = b
                 /\ call'[b].at # "idle" => call'[b].draft \in Config!Config
                 /\ call'[b].at \in {"applied", "undone"} => settings' = disk'
                 /\ call'[b].at = "applied" => call'[b].kept \in Config!Config
                 /\ call'[b].at = "begun" /\ ~marked' /\ ~raised' => Agree'
                 /\ call'[b].at = "begun" /\ ~call'[b].syncs
                       => call'[b].draft.root = settings'.root
                 /\ call'[b].at \in {"idle", "drafted"} => call'[b].syncs
      <3>1. CASE b = a  BY <2>3, <2>5, <2>7, <3>1
      <3>2. CASE b # a  BY <2>5, <2>7, <3>2 DEF ConfigInv, Agree
      <3> QED  BY <3>1, <3>2
    <2> QED  BY <1>0, <2>6, <2>7, <2>8, <2>9 DEF ConfigInv, Config!Config
  <1>2. CASE Config!Refused(a)
    <2>1. mutex = None /\ mutex' = None /\ call' = [call EXCEPT ![a] = Config!Idle]
      BY <1>2 DEF Config!Refused
    <2> QED  BY <1>0, <1>2, <2>1, ConfigReturns DEF Config!Refused, Config!Return, Agree
  <1>3. CASE Config!Begin(a)
    <2>1. call[a].draft \in Config!Config /\ call[a].syncs
      BY <1>3 DEF ConfigInv, Config!Begin
    <2>2. PICK w : w = [call[a] EXCEPT !.at = "begun"]  OBVIOUS
    <2>3. /\ w \in CallRecord /\ w.at = "begun" /\ w.draft = call[a].draft
          /\ w.syncs = call[a].syncs
      BY <1>0, <2>2 DEF CallRecord, Config!Stage
    <2>4. call' = [call EXCEPT ![a] = w]  BY <1>3, <2>2 DEF Config!Begin
    <2> QED  BY <1>3, <2>1, <2>3, <2>4, ConfigBegins DEF Config!Begin
  <1>4. CASE Config!Move(a)
    <2>1. PICK r \in Root : call' = [call EXCEPT ![a].at = "begun",
                                                ![a].draft = [settings EXCEPT !.root = r]]
      BY <1>4 DEF Config!Move
    <2>2. PICK d : d = [settings EXCEPT !.root = r]  OBVIOUS
    <2>3. d \in Config!Config /\ call[a].syncs  BY <1>0, <1>4, <2>2 DEF Config!Config, Config!Move
    <2>4. PICK w : w = [call[a] EXCEPT !.at = "begun", !.draft = d]  OBVIOUS
    <2>5. w \in CallRecord /\ w.at = "begun" /\ w.draft = d /\ w.syncs = call[a].syncs
      BY <1>0, <2>3, <2>4 DEF CallRecord, Config!Stage
    <2>6. call' = [call EXCEPT ![a] = w]  BY <2>1, <2>2, <2>4
    <2> QED  BY <1>4, <2>3, <2>5, <2>6, ConfigBegins DEF Config!Move
  <1>5. CASE Config!Bookmark(a)
    <2>1. PICK v \in Value : call' = [call EXCEPT ![a].at = "begun", ![a].syncs = FALSE,
                                                 ![a].draft = [settings EXCEPT !.rest = v]]
      BY <1>5 DEF Config!Bookmark
    <2>2. PICK d : d = [settings EXCEPT !.rest = v]  OBVIOUS
    <2>3. d \in Config!Config /\ d.root = settings.root  BY <1>0, <2>2 DEF Config!Config
    <2>4. PICK w : w = [call[a] EXCEPT !.at = "begun", !.syncs = FALSE, !.draft = d]
      OBVIOUS
    <2>5. w \in CallRecord /\ w.at = "begun" /\ w.draft = d
      BY <1>0, <2>3, <2>4 DEF CallRecord, Config!Stage
    <2>6. call' = [call EXCEPT ![a] = w]  BY <2>1, <2>2, <2>4
    <2> QED  BY <1>5, <2>3, <2>5, <2>6, ConfigBegins DEF Config!Bookmark
  <1> QED  BY <1>1, <1>2, <1>3, <1>4, <1>5

LEMMA ConfigWorks ==
    ASSUME ConfigInv, NEW a \in Api, None \notin Api,
           \/ Config!Apply(a) \/ Config!ApplyFails(a) \/ Config!Sync(a) \/ Config!SyncFails(a) \/ Config!Resync(a)
           \/ Config!SyncRaises(a)
    PROVE  ConfigInv'
  <1>0. /\ settings \in Config!Config /\ disk \in Config!Config /\ call[a] \in CallRecord
        /\ call[a].at \in {"begun", "applied", "undone"} => mutex = a
        /\ call[a].at # "idle" => call[a].draft \in Config!Config
        /\ call[a].at = "applied" => call[a].kept \in Config!Config
        /\ call[a].at \in {"applied", "undone"} => settings = disk
        /\ call[a].at = "begun" /\ ~marked /\ ~raised => Agree
        /\ call[a].at = "begun" /\ ~call[a].syncs => call[a].draft.root = settings.root
        /\ mutex = None /\ ~marked /\ ~raised => Agree
    BY DEF ConfigInv, Config!AgreeOrDegraded, Agree
  <1>1. CASE Config!Apply(a)
    <2>1. CASE call[a].syncs
      <3>1. PICK w : w = [call[a] EXCEPT !.at = "applied", !.kept = settings]  OBVIOUS
      <3>2. /\ w \in CallRecord /\ w.at = "applied" /\ w.kept = settings
            /\ w.draft = call[a].draft
        BY <1>0, <3>1 DEF CallRecord, Config!Stage
      <3>3. call' = [call EXCEPT ![a] = w] /\ mutex' = mutex
        BY <1>1, <2>1, <3>1 DEF Config!Apply
      <3> QED  BY <1>0, <1>1, <3>2, <3>3, ConfigGoes DEF Config!Apply
    <2>2. CASE ~call[a].syncs
      <3>1. Config!Return(a) /\ mutex = a  BY <1>0, <1>1, <2>2 DEF Config!Apply
      <3>2. ~marked /\ ~raised => Agree'  BY <1>0, <1>1, <2>2 DEF Config!Apply, Agree
      <3> QED  BY <1>0, <1>1, <3>1, <3>2, ConfigReturns DEF Config!Apply
    <2> QED  BY <2>1, <2>2
  <1>2. CASE Config!ApplyFails(a)
    <2>1. ~marked /\ ~raised => Agree'  BY <1>0, <1>2 DEF Config!ApplyFails, Agree
    <2> QED  BY <1>0, <1>2, <2>1, ConfigReturns DEF Config!ApplyFails
  <1>3. CASE Config!Sync(a)
    <2>1. Agree'  BY <1>0, <1>3 DEF Config!Sync, Config!Synced, Agree
    <2> QED  BY <1>0, <1>3, <2>1, ConfigReturns DEF Config!Sync
  <1>4. CASE Config!SyncFails(a)
    <2>1. PICK saved \in BOOLEAN :
            /\ call' = [call EXCEPT ![a].at = "undone", ![a].ok = saved]
            /\ disk' = IF saved THEN call[a].kept ELSE disk
            /\ settings' = IF saved THEN call[a].kept ELSE disk
      BY <1>4 DEF Config!SyncFails
    <2>2. PICK w : w = [call[a] EXCEPT !.at = "undone", !.ok = saved]  OBVIOUS
    <2>3. w \in CallRecord /\ w.at = "undone" /\ w.draft = call[a].draft
      BY <1>0, <2>2 DEF CallRecord, Config!Stage
    <2>4. call' = [call EXCEPT ![a] = w]  BY <2>1, <2>2
    <2>8. call[a].at = "applied"  BY <1>4 DEF Config!SyncFails
    <2>5. w.draft \in Config!Config  BY <1>0, <2>3, <2>8
    <2>6. settings' = disk' /\ settings' \in Config!Config  BY <1>0, <1>4, <2>1 DEF Config!SyncFails
    <2>7. mutex = a /\ mutex' = a /\ None # a  BY <1>0, <1>4 DEF Config!SyncFails
    <2> QED  BY <1>4, <2>3, <2>4, <2>5, <2>6, <2>7, ConfigGoes
  <1>5. CASE Config!Resync(a)
    <2>1. ~marked' /\ ~raised' => Agree'
      BY <1>0, <1>5 DEF Config!Resync, Config!Synced, Agree
    <2> QED  BY <1>0, <1>5, <2>1, ConfigReturns DEF Config!Resync
  <1>6. CASE Config!SyncRaises(a)
    <2>1. mutex = a /\ raised'  BY <1>0, <1>6 DEF Config!SyncRaises
    <2> QED  BY <1>0, <1>6, <2>1, ConfigReturns DEF Config!SyncRaises
  <1> QED  BY <1>1, <1>2, <1>3, <1>4, <1>5, <1>6

LEMMA ConfigSavedLast ==
    ASSUME ConfigInv, Config!SavedLast, None \notin Api
    PROVE  ConfigInv'
  <1>1. PICK v \in Value : settings' = [settings EXCEPT !.rest = v]  BY DEF Config!SavedLast
  <1>2. settings' \in Config!Config /\ settings'.root = settings.root
    BY <1>1 DEF ConfigInv, Config!Config
  <1>3. /\ mutex = None /\ UNCHANGED <<context, marked, mutex, call>>
        /\ \/ disk' = settings' /\ raised' = raised
           \/ disk' = disk /\ raised'
    BY DEF Config!SavedLast
  <1>4. disk' \in Config!Config  BY <1>2, <1>3 DEF ConfigInv
  <1>5. \A a \in Api : call[a].at \notin {"begun", "applied", "undone"} /\ mutex # a
    BY <1>3 DEF ConfigInv
  <1>6. Config!AgreeOrDegraded'
    BY <1>2, <1>3 DEF ConfigInv, Config!AgreeOrDegraded
  <1> QED  BY <1>2, <1>3, <1>4, <1>5, <1>6 DEF ConfigInv

(* Between mutations, unless the runtime is degraded or an exception got   *)
(* out, the file holds the live configuration and the agent works in its   *)
(* root, for any number of threads (agent/runtime.py:_commit_draft_locked). *)
THEOREM ConfigurationsAgree ==
    ASSUME None \notin Api
    PROVE  Config!Spec => []AgreeOrDegraded
  <1>1. ConfigInv /\ [Config!Next]_(Config!configVars) => ConfigInv'
    <2> SUFFICES ASSUME ConfigInv, [Config!Next]_(Config!configVars)  PROVE ConfigInv'  OBVIOUS
    <2>1. CASE UNCHANGED Config!configVars
      BY <2>1 DEF Config!configVars, ConfigInv, Config!AgreeOrDegraded, Agree
    <2>2. CASE Config!Next
      BY <2>2, ConfigStarts, ConfigWorks, ConfigSavedLast
         DEF Config!Next, Config!SwitchProfile, Config!WorkerRaises
    <2> QED  BY <2>1, <2>2
  <1>2. ConfigInv => Config!AgreeOrDegraded  BY DEF ConfigInv
  <1> QED  BY <1>1, <1>2, ConfigInvInit, PTL DEF Config!Spec, AgreeOrDegraded

----------------------------------------------------------------------------
(* The application.  While every screen popped was the one meant, a flag   *)
(* tells whether a dialog of its kind is on the stack, where there is one  *)
(* at most.  A turn seen running was accepted, and its end is on the way   *)
(* until it is folded or lost; a stop the app shows is also in the copy of *)
(* the event loop, though not the other way round.                         *)
AppScreen == AppTurn \cup {"connect", "picker"}
Screens == [overlay : BOOLEAN, connectOpen : BOOLEAN, interactionOpen : BOOLEAN,
            screens : Seq(AppScreen), astray : BOOLEAN]
OfKind(s, K) == {i \in DOMAIN s : s[i] \in K}
Flags(flag, s, K) == /\ flag <=> OfKind(s, K) # {}
                     /\ \A i, j \in OfKind(s, K) : i = j
Modal(u) == /\ u \in Screens
            /\ u.astray \/ /\ Flags(u.interactionOpen, u.screens, AppTurn)
                           /\ Flags(u.connectOpen, u.screens, {"connect"})
KindsDiffer == {"connect", "picker", None} \cap AppTurn = {} /\ None \notin {"connect", "picker"}

Event == {"running", "requested", "resolved", "terminal"} \X AppTurn
OnTheWay(kind, t) == <<kind, t>> \in App!ToSet(feed)

AppTypes ==
    /\ running \subseteq AppTurn /\ ended \subseteq AppTurn
    /\ feed \in Seq(Event) /\ lost \in Nat /\ revived \in BOOLEAN
    /\ view \in [AppTurn -> {"none", "running", "terminal"}]
    /\ stopping \in AppTurn \cup {None} /\ held \in AppTurn \cup {None}
    /\ pending \in Seq(AppTurn)

TurnsInv ==
    /\ \A t \in AppTurn : view[t] = "running" \/ OnTheWay("running", t) => t \in running \cup ended
    /\ lost > 0 \/ \A t \in ended : view[t] = "terminal" \/ OnTheWay("terminal", t)
    /\ running \cap ended = {}
    /\ stopping # None => stopping = held
    /\ stopping # None => view[stopping] = "running" \/ lost > 0 \/ revived

AppInv == AppTypes /\ TurnsInv /\ Modal(ui)

(* The members of a sequence that grows at its end and shrinks at its head. *)
LEMMA Members ==
    ASSUME NEW S, NEW s \in Seq(S), NEW x \in S
    PROVE  /\ Append(s, x) \in Seq(S) /\ App!ToSet(Append(s, x)) = App!ToSet(s) \cup {x}
           /\ s # <<>> => /\ Tail(s) \in Seq(S) /\ Head(s) \in S
                          /\ App!ToSet(s) = {Head(s)} \cup App!ToSet(Tail(s))
  <1>1. Append(s, x) \in Seq(S) /\ App!ToSet(Append(s, x)) = App!ToSet(s) \cup {x}
    <2>1. /\ Append(s, x) \in Seq(S) /\ DOMAIN Append(s, x) = 1..Len(s) + 1
          /\ \A i \in 1..Len(s) : Append(s, x)[i] = s[i]
          /\ Append(s, x)[Len(s) + 1] = x /\ DOMAIN s = 1..Len(s) /\ Len(s) \in Nat
      BY AppendProperties
    <2> QED  BY <2>1 DEF App!ToSet
  <1>2. ASSUME s # <<>>
        PROVE  /\ Tail(s) \in Seq(S) /\ Head(s) \in S
               /\ App!ToSet(s) = {Head(s)} \cup App!ToSet(Tail(s))
    <2>1. /\ Tail(s) \in Seq(S) /\ Head(s) = s[1] /\ Len(Tail(s)) = Len(s) - 1
          /\ \A i \in 1..Len(Tail(s)) : Tail(s)[i] = s[i + 1]
          /\ DOMAIN s = 1..Len(s) /\ DOMAIN Tail(s) = 1..Len(Tail(s)) /\ Len(s) \in Nat \ {0}
      BY <1>2, HeadTailProperties
    <2>2. \A i \in 2..Len(s) : i - 1 \in 1..Len(Tail(s)) /\ s[i] = Tail(s)[i - 1]
      BY <2>1
    <2>3. 1 \in 1..Len(s) /\ \A i \in 1..Len(Tail(s)) : i + 1 \in 1..Len(s)
      BY <2>1
    <2>4. \A i \in 1..Len(s) : i = 1 \/ i \in 2..Len(s)  BY <2>1
    <2>5. App!ToSet(s) \subseteq {Head(s)} \cup App!ToSet(Tail(s))
      <3> SUFFICES ASSUME NEW i \in 1..Len(s)  PROVE s[i] \in {Head(s)} \cup App!ToSet(Tail(s))
        BY <2>1 DEF App!ToSet
      <3>1. CASE i = 1  BY <2>1, <3>1
      <3>2. CASE i \in 2..Len(s)  BY <2>1, <2>2, <3>2 DEF App!ToSet
      <3> QED  BY <2>4, <3>1, <3>2
    <2>6. {Head(s)} \cup App!ToSet(Tail(s)) \subseteq App!ToSet(s)
      BY <2>1, <2>3 DEF App!ToSet
    <2>7. Head(s) \in S  BY <2>1, <2>3
    <2> QED  BY <2>1, <2>5, <2>6, <2>7
  <1> QED  BY <1>1, <1>2

(* What pushing a screen does to the flag of a kind, and popping one.      *)
LEMMA Pushing ==
    ASSUME NEW s \in Seq(AppScreen), NEW x \in AppScreen, NEW K, NEW flag \in BOOLEAN
    PROVE  /\ Append(s, x) \in Seq(AppScreen)
           /\ x \notin K /\ Flags(flag, s, K) => Flags(flag, Append(s, x), K)
           /\ x \in K /\ Flags(FALSE, s, K) => Flags(TRUE, Append(s, x), K)
  <1>1. /\ Append(s, x) \in Seq(AppScreen) /\ DOMAIN Append(s, x) = 1..Len(s) + 1
        /\ \A i \in 1..Len(s) : Append(s, x)[i] = s[i]
        /\ Append(s, x)[Len(s) + 1] = x /\ DOMAIN s = 1..Len(s) /\ Len(s) \in Nat
    BY AppendProperties
  <1>2. OfKind(Append(s, x), K) = OfKind(s, K) \cup (IF x \in K THEN {Len(s) + 1} ELSE {})
    BY <1>1 DEF OfKind
  <1> QED  BY <1>1, <1>2 DEF Flags

LEMMA Popping ==
    ASSUME NEW s \in Seq(AppScreen), s # <<>>, NEW K, NEW flag \in BOOLEAN
    PROVE  /\ App!Front(s) \in Seq(AppScreen)
           /\ App!Last(s) \notin K /\ Flags(flag, s, K) => Flags(flag, App!Front(s), K)
           /\ App!Last(s) \in K /\ Flags(TRUE, s, K) => Flags(FALSE, App!Front(s), K)
  <1>1. DOMAIN s = 1..Len(s) /\ Len(s) \in Nat \ {0}  BY EmptySeq, LenProperties
  <1>2. PICK f : f = SubSeq(s, 1, Len(s) - 1)  OBVIOUS
  <1>3. /\ f \in Seq(AppScreen) /\ DOMAIN f = 1..Len(s) - 1
        /\ \A i \in 1..Len(s) - 1 : f[i] = s[i]
    BY <1>1, <1>2, SubSeqProperties
  <1>4. f = App!Front(s) /\ App!Last(s) = s[Len(s)]  BY <1>2 DEF App!Front, App!Last
  <1>5. OfKind(s, K) = OfKind(f, K) \cup (IF s[Len(s)] \in K THEN {Len(s)} ELSE {})
    BY <1>1, <1>3 DEF OfKind
  <1>6. Len(s) \notin OfKind(f, K)  BY <1>1, <1>3 DEF OfKind
  <1> QED  BY <1>3, <1>4, <1>5, <1>6 DEF Flags

LEMMA PoppedFields ==
    ASSUME NEW u \in Screens, NEW M
    PROVE  /\ App!Popped(u, M) \in Screens
           /\ App!Popped(u, M).screens = IF u.screens = <<>> THEN <<>> ELSE App!Front(u.screens)
           /\ App!Popped(u, M).connectOpen = u.connectOpen
           /\ App!Popped(u, M).interactionOpen = u.interactionOpen
           /\ App!Popped(u, M).astray = (u.astray \/ App!Top(u) \notin M)
           /\ App!Popped(u, M).overlay = u.overlay
  <1>1. PICK s : s = IF u.screens = <<>> THEN <<>> ELSE App!Front(u.screens)  OBVIOUS
  <1>2. s \in Seq(AppScreen)  BY <1>1, Popping DEF Screens
  <1>3. PICK b \in BOOLEAN : b = (u.astray \/ App!Top(u) \notin M)  OBVIOUS
  <1>4. App!Popped(u, M) = [u EXCEPT !.screens = s, !.astray = b]
    BY <1>1, <1>3 DEF App!Popped, Screens
  <1>5. PICK w : w = [u EXCEPT !.screens = s, !.astray = b]  OBVIOUS
  <1>6. /\ w \in Screens /\ w.screens = s /\ w.connectOpen = u.connectOpen
        /\ w.interactionOpen = u.interactionOpen /\ w.astray = b /\ w.overlay = u.overlay
    BY <1>2, <1>5 DEF Screens
  <1> QED  BY <1>1, <1>3, <1>4, <1>5, <1>6

(* A request, the connect dialog or a picker is taken down.                *)
LEMMA TakenDown ==
    ASSUME KindsDiffer, NEW u, Modal(u), NEW M
    PROVE  /\ M \subseteq AppTurn /\ u.interactionOpen
                => Modal(App!Popped([u EXCEPT !.interactionOpen = FALSE], M))
           /\ Modal(App!CloseConnect(u))
           /\ Modal(App!Popped(u, {"picker"}))
  <1>0. u \in Screens  BY DEF Modal
  <1>1. ASSUME M \subseteq AppTurn, u.interactionOpen
        PROVE  Modal(App!Popped([u EXCEPT !.interactionOpen = FALSE], M))
    <2>1. PICK v : v = [u EXCEPT !.interactionOpen = FALSE]  OBVIOUS
    <2>2. /\ v \in Screens /\ v.screens = u.screens /\ v.connectOpen = u.connectOpen
          /\ v.interactionOpen = FALSE /\ v.astray = u.astray
      BY <1>0, <2>1 DEF Screens
    <2>3. PICK w : w = App!Popped(v, M)  OBVIOUS
    <2>4. /\ w \in Screens /\ w.connectOpen = v.connectOpen /\ w.interactionOpen = FALSE
          /\ w.screens = IF v.screens = <<>> THEN <<>> ELSE App!Front(v.screens)
          /\ w.astray = (v.astray \/ App!Top(v) \notin M)
      BY <2>2, <2>3, PoppedFields
    <2>5. CASE w.astray  BY <2>1, <2>3, <2>4, <2>5 DEF Modal
    <2>6. CASE ~w.astray
      <3>1. App!Top(v) \in M /\ ~u.astray  BY <2>2, <2>4, <2>6
      <3>2. v.screens # <<>> /\ App!Last(v.screens) \in AppTurn
        BY <1>1, <3>1 DEF App!Top, KindsDiffer
      <3>3. App!Last(v.screens) \notin {"connect"}  BY <3>2 DEF KindsDiffer
      <3>4. /\ Flags(TRUE, v.screens, AppTurn) /\ Flags(v.connectOpen, v.screens, {"connect"})
            /\ v.screens \in Seq(AppScreen) /\ v.connectOpen \in BOOLEAN
        BY <1>1, <2>2, <3>1 DEF Modal, Screens, Flags
      <3>5. /\ Flags(FALSE, App!Front(v.screens), AppTurn)
            /\ Flags(v.connectOpen, App!Front(v.screens), {"connect"})
        BY <3>2, <3>3, <3>4, Popping
      <3> QED  BY <2>1, <2>3, <2>4, <3>2, <3>5 DEF Modal
    <2> QED  BY <2>5, <2>6
  <1>2. Modal(App!CloseConnect(u))
    <2>0. CASE ~u.connectOpen  BY <2>0 DEF App!CloseConnect
    <2> SUFFICES ASSUME u.connectOpen  PROVE Modal(App!CloseConnect(u))  BY <2>0
    <2>1. PICK v : v = [u EXCEPT !.connectOpen = FALSE, !.interactionOpen = FALSE,
                                 !.astray = u.astray \/ u.interactionOpen]
      OBVIOUS
    <2>2. /\ v \in Screens /\ v.screens = u.screens /\ v.connectOpen = FALSE
          /\ v.interactionOpen = FALSE /\ v.astray = (u.astray \/ u.interactionOpen)
      BY <1>0, <2>1 DEF Screens
    <2>3. PICK w : w = App!Popped(v, {"connect"})  OBVIOUS
    <2>4. App!CloseConnect(u) = w  BY <1>0, <2>1, <2>3 DEF App!CloseConnect, Screens
    <2>5. /\ w \in Screens /\ w.connectOpen = FALSE /\ w.interactionOpen = FALSE
          /\ w.screens = IF v.screens = <<>> THEN <<>> ELSE App!Front(v.screens)
          /\ w.astray = (v.astray \/ App!Top(v) \notin {"connect"})
      BY <2>2, <2>3, PoppedFields
    <2>6. CASE w.astray  BY <2>4, <2>5, <2>6 DEF Modal
    <2>7. CASE ~w.astray
      <3>1. App!Top(v) = "connect" /\ ~u.astray /\ u.interactionOpen = FALSE
        BY <1>0, <2>2, <2>5, <2>7 DEF Screens
      <3>2. v.screens # <<>> /\ App!Last(v.screens) = "connect"
        BY <3>1 DEF App!Top, KindsDiffer
      <3>3. App!Last(v.screens) \notin AppTurn  BY <3>2 DEF KindsDiffer
      <3>4. /\ Flags(FALSE, v.screens, AppTurn) /\ Flags(TRUE, v.screens, {"connect"})
            /\ v.screens \in Seq(AppScreen)
        BY <2>2, <3>1 DEF Modal, Screens, Flags
      <3>5. /\ Flags(FALSE, App!Front(v.screens), AppTurn)
            /\ Flags(FALSE, App!Front(v.screens), {"connect"})
        BY <3>2, <3>3, <3>4, Popping
      <3> QED  BY <2>4, <2>5, <3>2, <3>5 DEF Modal
    <2> QED  BY <2>6, <2>7
  <1>3. Modal(App!Popped(u, {"picker"}))
    <2>1. PICK w : w = App!Popped(u, {"picker"})  OBVIOUS
    <2>2. /\ w \in Screens /\ w.connectOpen = u.connectOpen
          /\ w.interactionOpen = u.interactionOpen
          /\ w.screens = IF u.screens = <<>> THEN <<>> ELSE App!Front(u.screens)
          /\ w.astray = (u.astray \/ App!Top(u) \notin {"picker"})
      BY <1>0, <2>1, PoppedFields
    <2>3. CASE w.astray  BY <2>1, <2>2, <2>3 DEF Modal
    <2>4. CASE ~w.astray
      <3>1. App!Top(u) = "picker" /\ ~u.astray  BY <2>2, <2>4
      <3>2. u.screens # <<>> /\ App!Last(u.screens) = "picker"
        BY <3>1 DEF App!Top, KindsDiffer
      <3>3. App!Last(u.screens) \notin AppTurn /\ App!Last(u.screens) \notin {"connect"}
        BY <3>2 DEF KindsDiffer
      <3>4. /\ Flags(u.interactionOpen, u.screens, AppTurn)
            /\ Flags(u.connectOpen, u.screens, {"connect"})
            /\ u.screens \in Seq(AppScreen) /\ u.interactionOpen \in BOOLEAN
            /\ u.connectOpen \in BOOLEAN
        BY <3>1 DEF Modal, Screens
      <3>5. /\ Flags(u.interactionOpen, App!Front(u.screens), AppTurn)
            /\ Flags(u.connectOpen, App!Front(u.screens), {"connect"})
        BY <3>2, <3>3, <3>4, Popping
      <3> QED  BY <2>1, <2>2, <3>2, <3>5 DEF Modal
    <2> QED  BY <2>3, <2>4
  <1> QED  BY <1>1, <1>2, <1>3

(* A screen is put on top: a picker, or a dialog whose flag was down.      *)
LEMMA PutOnTop ==
    ASSUME KindsDiffer, NEW u, Modal(u)
    PROVE  /\ Modal(App!Pushed(u, "picker"))
           /\ Modal(App!OpenConnect(u))
           /\ ~u.interactionOpen =>
                \A t \in AppTurn : Modal(App!Pushed([u EXCEPT !.interactionOpen = TRUE], t))
  <1>0. u \in Screens /\ u.screens \in Seq(AppScreen)  BY DEF Modal, Screens
  <1>1. ASSUME NEW x \in AppScreen, NEW c \in BOOLEAN, NEW i \in BOOLEAN, NEW w,
               w = [u EXCEPT !.screens = Append(u.screens, x), !.connectOpen = c,
                             !.interactionOpen = i],
               IF x \in AppTurn THEN ~u.interactionOpen /\ i ELSE i = u.interactionOpen,
               IF x = "connect" THEN ~u.connectOpen /\ c ELSE c = u.connectOpen
        PROVE  Modal(w)
    <2>1. Append(u.screens, x) \in Seq(AppScreen)  BY <1>0, Pushing
    <2>2. /\ w \in Screens /\ w.screens = Append(u.screens, x) /\ w.connectOpen = c
          /\ w.interactionOpen = i /\ w.astray = u.astray
      BY <1>0, <1>1, <2>1 DEF Screens
    <2>3. CASE u.astray  BY <2>2, <2>3 DEF Modal
    <2>4. CASE ~u.astray
      <3>1. /\ Flags(u.interactionOpen, u.screens, AppTurn)
            /\ Flags(u.connectOpen, u.screens, {"connect"})
            /\ u.interactionOpen \in BOOLEAN /\ u.connectOpen \in BOOLEAN
        BY <1>0, <2>4 DEF Modal, Screens
      <3>2. Flags(i, Append(u.screens, x), AppTurn)
        <4>1. CASE x \in AppTurn
          <5>1. Flags(FALSE, u.screens, AppTurn) /\ i = TRUE  BY <1>1, <3>1, <4>1
          <5> QED  BY <1>0, <4>1, <5>1, Pushing
        <4>2. CASE x \notin AppTurn  BY <1>0, <1>1, <3>1, <4>2, Pushing
        <4> QED  BY <4>1, <4>2
      <3>3. Flags(c, Append(u.screens, x), {"connect"})
        <4>1. CASE x = "connect"
          <5>1. Flags(FALSE, u.screens, {"connect"}) /\ c = TRUE  BY <1>1, <3>1, <4>1
          <5> QED  BY <1>0, <4>1, <5>1, Pushing
        <4>2. CASE x # "connect"
          <5>1. x \notin {"connect"} /\ c = u.connectOpen  BY <1>1, <4>2
          <5> QED  BY <1>0, <3>1, <5>1, Pushing
        <4> QED  BY <4>1, <4>2
      <3> QED  BY <2>2, <3>2, <3>3 DEF Modal
    <2> QED  BY <2>3, <2>4
  <1>2. Modal(App!Pushed(u, "picker"))
    <2>1. PICK w : w = App!Pushed(u, "picker")  OBVIOUS
    <2>2. w = [u EXCEPT !.screens = Append(u.screens, "picker"), !.connectOpen = u.connectOpen,
                        !.interactionOpen = u.interactionOpen]
      BY <1>0, <2>1 DEF App!Pushed, Screens
    <2>3. /\ u.connectOpen \in BOOLEAN /\ u.interactionOpen \in BOOLEAN /\ "picker" \in AppScreen
          /\ "picker" \notin AppTurn /\ "picker" # "connect"
      BY <1>0 DEF Screens, AppScreen, KindsDiffer
    <2> QED  BY <1>1, <2>1, <2>2, <2>3
  <1>3. Modal(App!OpenConnect(u))
    <2>1. CASE u.connectOpen  BY <2>1 DEF App!OpenConnect
    <2>2. CASE ~u.connectOpen
      <3>1. PICK w : w = App!OpenConnect(u)  OBVIOUS
      <3>2. w = [u EXCEPT !.screens = Append(u.screens, "connect"), !.connectOpen = TRUE,
                          !.interactionOpen = u.interactionOpen]
        BY <1>0, <2>2, <3>1 DEF App!OpenConnect, App!Pushed, Screens
      <3>3. /\ u.interactionOpen \in BOOLEAN /\ "connect" \in AppScreen
            /\ "connect" \notin AppTurn
        BY <1>0 DEF Screens, AppScreen, KindsDiffer
      <3> QED  BY <1>1, <2>2, <3>1, <3>2, <3>3
    <2> QED  BY <2>1, <2>2
  <1>4. ASSUME ~u.interactionOpen, NEW t \in AppTurn
        PROVE  Modal(App!Pushed([u EXCEPT !.interactionOpen = TRUE], t))
    <2>1. PICK w : w = App!Pushed([u EXCEPT !.interactionOpen = TRUE], t)  OBVIOUS
    <2>2. w = [u EXCEPT !.screens = Append(u.screens, t), !.connectOpen = u.connectOpen,
                        !.interactionOpen = TRUE]
      BY <1>0, <2>1 DEF App!Pushed, Screens
    <2>3. u.connectOpen \in BOOLEAN /\ t \in AppScreen /\ t # "connect"
      BY <1>0 DEF Screens, AppScreen, KindsDiffer
    <2> QED  BY <1>1, <1>4, <2>1, <2>2, <2>3
  <1> QED  BY <1>2, <1>3, <1>4

(* A refresh keeps the flags right. *)
LEMMA RefreshIsModal ==
    ASSUME KindsDiffer, NEW u, Modal(u), NEW q \in Seq(AppTurn)
    PROVE  Modal(App!Refreshed(u, q))
  <1>1. PICK v : v = IF u.overlay THEN App!OpenConnect(u) ELSE App!CloseConnect(u)  OBVIOUS
  <1>2. Modal(v)
    <2>1. CASE u.overlay  BY <1>1, <2>1, PutOnTop
    <2>2. CASE ~u.overlay  BY <1>1, <2>2, TakenDown
    <2> QED  BY <2>1, <2>2
  <1>3. App!Refreshed(u, q) = App!SyncInteraction(v, q)  BY <1>1 DEF App!Refreshed
  <1>4. CASE q = <<>> /\ v.interactionOpen
    <2>1. App!SyncInteraction(v, q) = App!Popped([v EXCEPT !.interactionOpen = FALSE], AppTurn)
      BY <1>4 DEF App!SyncInteraction
    <2>2. Modal(App!Popped([v EXCEPT !.interactionOpen = FALSE], AppTurn))
      BY <1>2, <1>4, TakenDown
    <2> QED  BY <1>3, <2>1, <2>2
  <1>5. CASE q # <<>> /\ ~v.interactionOpen
    <2>1. PICK t \in AppTurn : t = Head(q)  BY <1>5, HeadTailProperties
    <2>2. App!SyncInteraction(v, q) = App!Pushed([v EXCEPT !.interactionOpen = TRUE], t)
      BY <1>5, <2>1 DEF App!SyncInteraction
    <2> QED  BY <1>2, <1>3, <1>5, <2>2, PutOnTop
  <1>6. CASE ~(q = <<>> /\ v.interactionOpen) /\ ~(q # <<>> /\ ~v.interactionOpen)
    BY <1>2, <1>3, <1>6 DEF App!SyncInteraction
  <1> QED  BY <1>4, <1>5, <1>6

LEMMA AppInvInit ==
    App!Init => AppInv
  <1> SUFFICES ASSUME App!Init  PROVE AppInv  OBVIOUS
  <1>1. AppTypes
    <2>1. /\ running = {} /\ ended = {} /\ lost = 0 /\ revived = FALSE
          /\ stopping = None /\ held = None
      BY DEF App!Init
    <2>2. view \in [AppTurn -> {"none", "running", "terminal"}]  BY DEF App!Init
    <2>3. feed \in Seq(Event) /\ pending \in Seq(AppTurn)  BY DEF App!Init
    <2> QED  BY <2>1, <2>2, <2>3 DEF AppTypes
  <1>2. \A kind, t : ~OnTheWay(kind, t)
    <2>1. feed = <<>> /\ DOMAIN <<>> = {}  BY DEF App!Init
    <2>2. App!ToSet(feed) = {}  BY <2>1 DEF App!ToSet
    <2> QED  BY <2>2 DEF OnTheWay
  <1>3. TurnsInv  BY <1>2 DEF App!Init, TurnsInv
  <1>4. /\ ui \in Screens /\ ui.screens = <<>> /\ ui.connectOpen = FALSE
        /\ ui.interactionOpen = FALSE
    BY DEF App!Init, Screens
  <1>5. \A K : OfKind(ui.screens, K) = {}
    <2>1. DOMAIN <<>> = {}  OBVIOUS
    <2> QED  BY <1>4, <2>1 DEF OfKind
  <1>6. Modal(ui)  BY <1>4, <1>5 DEF Modal, Flags
  <1> QED  BY <1>1, <1>3, <1>6 DEF AppInv

(* A step that dispatches: it ends in a refresh of the screens u, and the  *)
(* loop takes the app's state over.                                        *)
LEMMA Dispatching ==
    ASSUME KindsDiffer, AppInv, NEW u, Modal(u), App!Dispatch(u),
           UNCHANGED <<running, ended, feed, lost, view, stopping, pending, revived>>
    PROVE  AppInv'
  <1>1. held' = stopping /\ ui' = App!Refreshed(u, pending)  BY DEF App!Dispatch
  <1>2. AppTypes' /\ TurnsInv'  BY <1>1 DEF AppInv, AppTypes, TurnsInv, OnTheWay
  <1>3. pending \in Seq(AppTurn)  BY DEF AppInv, AppTypes
  <1>4. PICK w : w = App!Refreshed(u, pending)  OBVIOUS
  <1>5. Modal(w)  BY <1>3, <1>4, RefreshIsModal
  <1>6. Modal(ui)'  BY <1>1, <1>4, <1>5 DEF Modal, Flags, OfKind, Screens, AppScreen
  <1> QED  BY <1>2, <1>6 DEF AppInv

(* A step that leaves what the two copies of the state say.                *)
LEMMA LeavesTurns ==
    ASSUME AppInv, NEW w, Modal(w), ui' = w,
           UNCHANGED <<running, ended, feed, lost, view, stopping, held, pending, revived>>
    PROVE  AppInv'
  <1>1. AppTypes' /\ TurnsInv'  BY DEF AppInv, AppTypes, TurnsInv, OnTheWay
  <1>2. Modal(ui)'  BY DEF Modal, Flags, OfKind, Screens, AppScreen
  <1> QED  BY <1>1, <1>2 DEF AppInv

LEMMA ConnectCloses ==
    ASSUME KindsDiffer, NEW u, Modal(u), NEW b \in BOOLEAN
    PROVE  /\ Modal([App!CloseConnect(u) EXCEPT !.overlay = b])
           /\ Modal([u EXCEPT !.overlay = b])
  <1>1. ASSUME NEW v, Modal(v)  PROVE Modal([v EXCEPT !.overlay = b])
    <2>1. PICK w : w = [v EXCEPT !.overlay = b]  OBVIOUS
    <2>2. /\ w \in Screens /\ w.screens = v.screens /\ w.connectOpen = v.connectOpen
          /\ w.interactionOpen = v.interactionOpen /\ w.astray = v.astray
      BY <1>1, <2>1 DEF Modal, Screens
    <2> QED  BY <1>1, <2>1, <2>2 DEF Modal
  <1>2. PICK v : v = App!CloseConnect(u)  OBVIOUS
  <1>3. Modal(v)  BY <1>2, TakenDown
  <1> QED  BY <1>1, <1>2, <1>3

(* The same for what a step makes of the screens that are up.              *)
LEMMA DispatchesNow ==
    ASSUME KindsDiffer, AppInv, App!Dispatch(ui),
           UNCHANGED <<running, ended, feed, lost, view, stopping, pending, revived>>
    PROVE  AppInv'
  <1>1. PICK u : u = ui  OBVIOUS
  <1>2. App!Dispatch(u) /\ Modal(u)  BY <1>1 DEF AppInv
  <1> QED  BY <1>2, Dispatching

LEMMA DispatchesConnect ==
    ASSUME KindsDiffer, AppInv,
           \/ App!Dispatch([ui EXCEPT !.overlay = TRUE])
           \/ App!Dispatch([App!CloseConnect(ui) EXCEPT !.overlay = FALSE]),
           UNCHANGED <<running, ended, feed, lost, view, stopping, pending, revived>>
    PROVE  AppInv'
  <1>1. PICK v : v = ui  OBVIOUS
  <1>2. Modal(v)  BY <1>1 DEF AppInv
  <1>3. PICK u : u = [v EXCEPT !.overlay = TRUE]  OBVIOUS
  <1>4. PICK w : w = [App!CloseConnect(v) EXCEPT !.overlay = FALSE]  OBVIOUS
  <1>5. Modal(u) /\ Modal(w)  BY <1>2, <1>3, <1>4, ConnectCloses
  <1>6. App!Dispatch(u) \/ App!Dispatch(w)  BY <1>1, <1>3, <1>4
  <1> QED  BY <1>5, <1>6, Dispatching

LEMMA TakesDown ==
    ASSUME KindsDiffer, AppInv
    PROVE  Modal(App!Popped(ui, {"picker"}))
  <1>1. PICK u : u = ui  OBVIOUS
  <1>2. Modal(u)  BY <1>1 DEF AppInv
  <1> QED  BY <1>1, <1>2, TakenDown

LEMMA TakesOver ==
    ASSUME KindsDiffer, AppInv,
           ui' = App!Pushed(ui, "picker") \/ ui' = App!Popped(ui, {"picker"}),
           UNCHANGED <<running, ended, feed, lost, view, stopping, held, pending, revived>>
    PROVE  AppInv'
  <1>1. PICK u : u = ui  OBVIOUS
  <1>2. Modal(u)  BY <1>1 DEF AppInv
  <1>3. PICK v : v = App!Pushed(u, "picker")  OBVIOUS
  <1>4. PICK w : w = App!Popped(u, {"picker"})  OBVIOUS
  <1>5. Modal(v) /\ Modal(w)  BY <1>2, <1>3, <1>4, PutOnTop, TakenDown
  <1>6. ui' = v \/ ui' = w  BY <1>1, <1>3, <1>4
  <1> QED  BY <1>5, <1>6, LeavesTurns

LEMMA StaysAsItIs ==
    ASSUME AppInv,
           UNCHANGED <<running, ended, feed, lost, view, stopping, held, pending, revived, ui>>
    PROVE  AppInv'
  <1>1. PICK u : u = ui  OBVIOUS
  <1>2. Modal(u) /\ ui' = u  BY <1>1 DEF AppInv
  <1> QED  BY <1>2, LeavesTurns

(* The screens after a refresh, whatever else the step does.               *)
LEMMA Refreshing ==
    ASSUME KindsDiffer, Modal(ui), pending' \in Seq(AppTurn), ui' = App!Refreshed(ui, pending')
    PROVE  Modal(ui)'
  <1>1. PICK u : u = ui  OBVIOUS
  <1>2. PICK q \in Seq(AppTurn) : q = pending'  OBVIOUS
  <1>3. PICK w : w = App!Refreshed(u, q)  OBVIOUS
  <1>4. Modal(u)  BY <1>1
  <1>5. Modal(w)  BY <1>3, <1>4, RefreshIsModal
  <1>6. ui' = w  BY <1>1, <1>2, <1>3
  <1> QED  BY <1>5, <1>6 DEF Modal, Flags, OfKind, Screens, AppScreen

LEMMA UserStep ==
    ASSUME KindsDiffer, AppInv, App!User
    PROVE  AppInv'
  <1>0. Modal(ui)  BY DEF AppInv
  <1>1. CASE App!Enter
    <2>1. /\ UNCHANGED <<running, ended, feed, lost, view, stopping, pending, revived>>
          /\ App!Dispatch(ui)
      BY <1>1 DEF App!Enter, App!kernelVars, App!pastVars
    <2> QED  BY <1>0, <2>1, DispatchesNow
  <1>2. CASE App!OpenPicker
    <2>1. /\ UNCHANGED <<running, ended, feed, lost, view, stopping, held, pending, revived>>
          /\ ui' = App!Pushed(ui, "picker")
      BY <1>2 DEF App!OpenPicker, App!kernelVars
    <2> QED  BY <1>0, <2>1, TakesOver
  <1>3. CASE App!ClosePicker
    <2>1. /\ UNCHANGED <<running, ended, feed, lost, view, stopping, held, pending, revived>>
          /\ ui' = App!Popped(ui, {"picker"})
      BY <1>3 DEF App!ClosePicker, App!kernelVars, App!pastVars
    <2> QED  BY <1>0, <2>1, TakesOver
  <1>4. CASE \/ \E message \in {"cancel", "choice"} : App!Click(message)
             \/ \E send \in BOOLEAN : App!SavePressed(send)
    <2>1. UNCHANGED <<running, ended, feed, lost, view, stopping, held, pending, revived, ui>>
      BY <1>4 DEF App!Click, App!SavePressed, App!kernelVars, App!stateVars, App!pastVars
    <2> QED  BY <2>1, StaysAsItIs
  <1>5. ASSUME NEW t \in AppTurn, App!StopPressed(t)  PROVE AppInv'
    <2>1. /\ UNCHANGED <<running, ended, feed, lost, view, pending, revived>>
          /\ stopping' = t /\ held' = t /\ view[t] = "running"
          /\ ui' = App!Refreshed(ui, pending)
      BY <1>5 DEF App!StopPressed, App!Dispatch, App!kernelVars, App!pastVars
    <2>2. AppTypes' /\ TurnsInv'  BY <2>1 DEF AppInv, AppTypes, TurnsInv, OnTheWay
    <2>3. Modal(ui)'  BY <2>1, Refreshing DEF AppInv, AppTypes
    <2> QED  BY <2>2, <2>3 DEF AppInv
  <1> QED  BY <1>1, <1>2, <1>3, <1>4, <1>5 DEF App!User

LEMMA Publishes ==
    ASSUME AppInv, NEW kind \in {"running", "requested", "resolved", "terminal"},
           NEW t \in AppTurn, App!Publish(kind, t)
    PROVE  feed' \in Seq(Event) /\ App!ToSet(feed') = App!ToSet(feed) \cup {<<kind, t>>}
  <1>1. PICK e \in Event : e = <<kind, t>>  BY DEF Event
  <1>2. feed \in Seq(Event)  BY DEF AppInv, AppTypes
  <1>3. /\ Append(feed, e) \in Seq(Event)
        /\ App!ToSet(Append(feed, e)) = App!ToSet(feed) \cup {e}
    BY <1>2, Members
  <1>4. feed' = Append(feed, e)  BY <1>1 DEF App!Publish
  <1> QED  BY <1>1, <1>3, <1>4

LEMMA JobStep ==
    ASSUME KindsDiffer, AppInv, App!Job
    PROVE  AppInv'
  <1>0. Modal(ui)  BY DEF AppInv
  <1>1. CASE App!Rejected
    <2>1. /\ UNCHANGED <<running, ended, feed, lost, view, stopping, pending, revived>>
          /\ App!Dispatch(ui)
      BY <1>1 DEF App!Rejected, App!kernelVars, App!pastVars
    <2> QED  BY <1>0, <2>1, DispatchesNow
  <1>2. CASE App!NeedsProfile
    <2>1. /\ UNCHANGED <<running, ended, feed, lost, view, stopping, pending, revived>>
          /\ App!Dispatch([ui EXCEPT !.overlay = TRUE])
      BY <1>2 DEF App!NeedsProfile, App!kernelVars
    <2> QED  BY <1>0, <2>1, DispatchesConnect
  <1>3. ASSUME NEW t \in AppTurn, App!Accepted(t)  PROVE AppInv'
    <2>1. /\ UNCHANGED <<ended, lost, view, stopping, pending, revived>>
          /\ held' = stopping /\ ui' = App!Refreshed(ui, pending)
          /\ running' = running \cup {t} /\ t \notin ended /\ App!Publish("running", t)
      BY <1>3 DEF App!Accepted, App!Dispatch, App!pastVars
    <2>2. feed' \in Seq(Event) /\ App!ToSet(feed') = App!ToSet(feed) \cup {<<"running", t>>}
      BY <2>1, Publishes
    <2>3. AppTypes'  BY <2>1, <2>2 DEF AppInv, AppTypes
    <2>4. TurnsInv'  BY <2>1, <2>2 DEF AppInv, TurnsInv, OnTheWay
    <2>5. Modal(ui)'  BY <2>1, Refreshing DEF AppInv, AppTypes
    <2> QED  BY <2>3, <2>4, <2>5 DEF AppInv
  <1>4. CASE App!Saved \/ App!ConnectCancelled
    <2>1. /\ UNCHANGED <<running, ended, feed, lost, view, stopping, pending, revived>>
          /\ App!Dispatch([App!CloseConnect(ui) EXCEPT !.overlay = FALSE])
      BY <1>4 DEF App!Saved, App!ConnectCancelled, App!kernelVars, App!pastVars
    <2> QED  BY <1>0, <2>1, DispatchesConnect
  <1>5. CASE App!SaveFails
    <2>1. UNCHANGED <<running, ended, feed, lost, view, stopping, held, pending, revived, ui>>
      BY <1>5 DEF App!SaveFails, App!kernelVars, App!stateVars, App!pastVars
    <2> QED  BY <2>1, StaysAsItIs
  <1>6. CASE App!Reload
    <2>1. /\ UNCHANGED <<running, ended, feed, lost, stopping, pending, revived>>
          /\ held' = stopping /\ ui' = App!Refreshed(ui, pending)
          /\ view' = [t \in AppTurn |-> IF t \in running THEN "running" ELSE view[t]]
      BY <1>6 DEF App!Reload, App!Dispatch, App!kernelVars, App!pastVars
    <2>2. AppTypes'  BY <2>1 DEF AppInv, AppTypes
    <2>3. TurnsInv'
      <3>1. \A t \in AppTurn : view'[t] = IF t \in running THEN "running" ELSE view[t]  BY <2>1
      <3>2. \A t \in AppTurn : (view[t] = "running" \/ OnTheWay("running", t))'
                               => t \in running \cup ended
        BY <2>1, <3>1 DEF AppInv, TurnsInv, OnTheWay
      <3>3. lost > 0 \/ \A t \in ended : (view[t] = "terminal" \/ OnTheWay("terminal", t))'
        <4> SUFFICES ASSUME ~(lost > 0), NEW t \in ended
                     PROVE  (view[t] = "terminal" \/ OnTheWay("terminal", t))'
          OBVIOUS
        <4>1. t \in AppTurn /\ (view[t] = "terminal" \/ OnTheWay("terminal", t)) /\ t \notin running
          BY DEF AppInv, AppTypes, TurnsInv
        <4> QED  BY <2>1, <3>1, <4>1 DEF OnTheWay
      <3>4. stopping # None => view'[stopping] = "running" \/ lost > 0 \/ revived
        BY <3>1 DEF AppInv, AppTypes, TurnsInv
      <3> QED  BY <2>1, <3>2, <3>3, <3>4 DEF AppInv, TurnsInv
    <2>4. Modal(ui)'  BY <2>1, Refreshing DEF AppInv, AppTypes
    <2> QED  BY <2>2, <2>3, <2>4 DEF AppInv
  <1>7. CASE App!Chosen
    <2>1. UNCHANGED <<running, ended, feed, lost, view, stopping, pending, revived>>
      BY <1>7 DEF App!Chosen, App!kernelVars, App!pastVars
    <2>2. PICK u : u = App!Popped(ui, {"picker"})  OBVIOUS
    <2>3. Modal(u)  BY <1>0, <2>2, TakesDown
    <2>4. CASE ui' = u /\ UNCHANGED held  BY <2>1, <2>3, <2>4, LeavesTurns
    <2>5. CASE App!Dispatch(u)  BY <2>1, <2>3, <2>5, Dispatching
    <2>6. CASE App!Dispatch([u EXCEPT !.overlay = TRUE])
      <3>1. PICK w : w = [u EXCEPT !.overlay = TRUE]  OBVIOUS
      <3>2. Modal(w)  BY <2>3, <3>1, ConnectCloses
      <3>3. App!Dispatch(w)  BY <2>6, <3>1
      <3> QED  BY <2>1, <3>2, <3>3, Dispatching
    <2> QED  BY <1>7, <2>2, <2>4, <2>5, <2>6 DEF App!Chosen
  <1> QED  BY <1>1, <1>2, <1>3, <1>4, <1>5, <1>6, <1>7 DEF App!Job

LEMMA ScreensStay ==
    ASSUME AppInv, UNCHANGED ui
    PROVE  Modal(ui)'
  BY DEF AppInv, Modal, Flags, OfKind, Screens, AppScreen

LEMMA KernelStep ==
    ASSUME AppInv, App!Kernel
    PROVE  AppInv'
  <1> USE DEF App!stateVars, App!pastVars
  <1>1. ASSUME NEW t \in AppTurn, App!KernelAsks(t)  PROVE AppInv'
    <2>1. /\ UNCHANGED <<running, ended, lost, view, stopping, held, pending, revived, ui>>
          /\ feed' \in Seq(Event) /\ App!ToSet(feed') = App!ToSet(feed) \cup {<<"requested", t>>}
      BY <1>1, Publishes DEF App!KernelAsks
    <2>2. AppTypes'  BY <2>1 DEF AppInv, AppTypes
    <2>3. TurnsInv'  BY <2>1 DEF AppInv, TurnsInv, OnTheWay
    <2> QED  BY <2>1, <2>2, <2>3, ScreensStay DEF AppInv
  <1>2. ASSUME NEW t \in AppTurn, App!KernelSettles(t)  PROVE AppInv'
    <2>1. /\ UNCHANGED <<running, ended, lost, view, stopping, held, pending, revived, ui>>
          /\ feed' \in Seq(Event) /\ App!ToSet(feed') = App!ToSet(feed) \cup {<<"resolved", t>>}
      BY <1>2, Publishes DEF App!KernelSettles
    <2>2. AppTypes'  BY <2>1 DEF AppInv, AppTypes
    <2>3. TurnsInv'  BY <2>1 DEF AppInv, TurnsInv, OnTheWay
    <2> QED  BY <2>1, <2>2, <2>3, ScreensStay DEF AppInv
  <1>3. ASSUME NEW t \in AppTurn, App!KernelEnds(t)  PROVE AppInv'
    <2>1. /\ UNCHANGED <<lost, view, stopping, held, pending, revived, ui>>
          /\ running' = running \ {t} /\ ended' = ended \cup {t} /\ t \in running
          /\ feed' \in Seq(Event) /\ App!ToSet(feed') = App!ToSet(feed) \cup {<<"terminal", t>>}
      BY <1>3, Publishes DEF App!KernelEnds
    <2>2. AppTypes'  BY <2>1 DEF AppInv, AppTypes
    <2>3. TurnsInv'  BY <2>1 DEF AppInv, TurnsInv, OnTheWay
    <2> QED  BY <2>1, <2>2, <2>3, ScreensStay DEF AppInv
  <1> QED  BY <1>1, <1>2, <1>3 DEF App!Kernel

(* The requests that are left after one is settled. *)
LEMMA Dismissing ==
    ASSUME NEW q \in Seq(AppTurn), NEW t
    PROVE  App!Dismissed(q, t) \in Seq(AppTurn)
  <1>1. ASSUME NEW i \in DOMAIN q  PROVE App!RemoveAt(q, i) \in Seq(AppTurn)
    <2>1. i \in 1..Len(q) /\ Len(q) \in Nat  BY <1>1
    <2>2. SubSeq(q, 1, i - 1) \in Seq(AppTurn) /\ SubSeq(q, i + 1, Len(q)) \in Seq(AppTurn)
      BY <2>1, SubSeqProperties
    <2> QED  BY <2>2, ConcatProperties DEF App!RemoveAt
  <1>2. CASE t \notin App!ToSet(q)  BY <1>2 DEF App!Dismissed
  <1>3. CASE t \in App!ToSet(q)
    <2>1. \E i \in DOMAIN q : q[i] = t  BY <1>3 DEF App!ToSet
    <2>2. (CHOOSE i \in DOMAIN q : q[i] = t) \in DOMAIN q  BY <2>1
    <2> QED  BY <1>1, <1>3, <2>2 DEF App!Dismissed
  <1> QED  BY <1>2, <1>3

(* What the loop hands over, once it is known what of it has ended.        *)
LEMMA Emitting ==
    ASSUME AppInv, NEW over, App!Emit(over)
    PROVE  /\ held' = held /\ stopping' = IF held \in over THEN None ELSE held
           /\ ui' = App!Refreshed(ui, pending') /\ revived' \in BOOLEAN
           /\ stopping' # None => revived' \/ (stopping' = stopping /\ stopping \notin over)
           /\ revived => revived'
  BY DEF App!Emit, AppInv, TurnsInv, AppTypes

LEMMA FoldStep ==
    ASSUME KindsDiffer, AppInv, App!Fold
    PROVE  AppInv'
  <1>1. PICK kind \in {"running", "requested", "resolved", "terminal"}, t \in AppTurn :
           Head(feed) = <<kind, t>>
    <2>1. Head(feed) \in Event
      BY HeadTailProperties DEF AppInv, AppTypes, App!Fold
    <2> QED  BY <2>1 DEF Event
  <1>2. PICK over : over = IF kind = "terminal" /\ view[t] # "terminal" THEN {t} ELSE {}  OBVIOUS
  <1>3. /\ view' = CASE kind = "terminal"                        -> [view EXCEPT ![t] = "terminal"]
                     [] kind = "running" /\ view[t] # "terminal" -> [view EXCEPT ![t] = "running"]
                     [] OTHER                                    -> view
        /\ pending' = CASE kind = "requested" -> Append(pending, t)
                        [] kind = "resolved"  -> App!Dismissed(pending, t)
                        [] OTHER              -> pending
        /\ App!Emit(over) /\ UNCHANGED <<running, ended, lost>>
    <2>1. PICK k, u : k = Head(feed)[1] /\ u = Head(feed)[2]  OBVIOUS
    <2>2. k = kind /\ u = t  BY <1>1, <2>1
    <2> QED  BY <1>2, <2>1, <2>2 DEF App!Fold
  <1>4. feed' \in Seq(Event) /\ App!ToSet(feed) = {<<kind, t>>} \cup App!ToSet(feed')
    <2>1. PICK e \in Event : e = <<kind, t>>  BY DEF Event
    <2>2. feed \in Seq(Event) /\ feed # <<>> /\ feed' = Tail(feed)
      BY DEF App!Fold, AppInv, AppTypes
    <2>3. Tail(feed) \in Seq(Event) /\ App!ToSet(feed) = {Head(feed)} \cup App!ToSet(Tail(feed))
      BY <2>1, <2>2, Members
    <2> QED  BY <1>1, <2>2, <2>3
  <1>5. pending' \in Seq(AppTurn)
    BY <1>3, Dismissing, AppendProperties DEF AppInv, AppTypes
  <1>6. /\ held' = held /\ stopping' = IF held \in over THEN None ELSE held
        /\ ui' = App!Refreshed(ui, pending') /\ revived' \in BOOLEAN
        /\ stopping' # None => revived' \/ (stopping' = stopping /\ stopping \notin over)
        /\ revived => revived'
    BY <1>3, Emitting
  <1>7. view' \in [AppTurn -> {"none", "running", "terminal"}]
    BY <1>3 DEF AppInv, AppTypes
  <1>8. AppTypes'  BY <1>3, <1>4, <1>5, <1>6, <1>7 DEF AppInv, AppTypes
  <1>9. /\ \A s \in AppTurn : s # t => view'[s] = view[s]
        /\ kind = "terminal" => view'[t] = "terminal"
        /\ kind = "running" => view'[t] \in {"running", "terminal"}
        /\ view[t] = "terminal" => view'[t] = "terminal"
        /\ kind # "terminal" => view'[t] \in {view[t], "running"}
        /\ kind \in {"requested", "resolved"} => view'[t] = view[t]
    BY <1>3 DEF AppInv, AppTypes
  <1>10. \A s \in AppTurn : /\ view'[s] = "running" => view[s] = "running" \/ OnTheWay("running", s)
                            /\ OnTheWay("running", s)' => OnTheWay("running", s)
                            /\ view[s] = "terminal" \/ OnTheWay("terminal", s)
                                 => view'[s] = "terminal" \/ OnTheWay("terminal", s)'
    BY <1>4, <1>9 DEF OnTheWay, AppInv, AppTypes
  <1>11. stopping' # None => view'[stopping'] = "running" \/ lost' > 0 \/ revived'
    <2> SUFFICES ASSUME stopping' # None, ~revived', ~(lost' > 0)
                 PROVE  view'[stopping'] = "running"
      OBVIOUS
    <2>1. stopping' = stopping /\ stopping \notin over  BY <1>6
    <2>2. stopping \in AppTurn /\ view[stopping] = "running"
      BY <1>3, <1>6, <2>1 DEF AppInv, AppTypes, TurnsInv
    <2>3. CASE stopping = t
      <3>1. kind # "terminal"  BY <1>2, <2>1, <2>2, <2>3
      <3> QED  BY <1>9, <2>1, <2>2, <2>3, <3>1
    <2>4. CASE stopping # t  BY <1>9, <2>1, <2>2, <2>4
    <2> QED  BY <2>3, <2>4
  <1>12. TurnsInv'
    <2>1. \A s \in AppTurn : (view[s] = "running" \/ OnTheWay("running", s))'
                             => s \in running \cup ended
      BY <1>10 DEF AppInv, TurnsInv
    <2>2. lost > 0 \/ \A s \in ended : (view[s] = "terminal" \/ OnTheWay("terminal", s))'
      BY <1>10 DEF AppInv, AppTypes, TurnsInv
    <2>3. stopping' # None => stopping' = held'  BY <1>6
    <2>4. running \cap ended = {}  BY DEF AppInv, TurnsInv
    <2> QED  BY <1>3, <1>11, <2>1, <2>2, <2>3, <2>4 DEF TurnsInv
  <1>13. Modal(ui)'  BY <1>5, <1>6, Refreshing DEF AppInv
  <1> QED  BY <1>8, <1>12, <1>13 DEF AppInv

(* Any other event, and a gap: the event at the head is lost.              *)
LEMMA OtherStep ==
    ASSUME KindsDiffer, AppInv, App!OtherEvent \/ App!Gap
    PROVE  AppInv'
  <1>1. /\ UNCHANGED <<running, ended, view, pending>>
        /\ held' = held /\ stopping' = held
        /\ ui' = App!Refreshed(ui, pending') /\ revived' \in BOOLEAN
        /\ stopping' # None => revived' \/ stopping' = stopping
        /\ revived => revived'
    BY Emitting DEF App!OtherEvent, App!Gap, App!kernelVars
  <1>2. pending' \in Seq(AppTurn)  BY <1>1 DEF AppInv, AppTypes
  <1>3. Modal(ui)'  BY <1>1, <1>2, Refreshing DEF AppInv
  <1>4. CASE App!OtherEvent
    <2>1. UNCHANGED <<feed, lost>>  BY <1>4 DEF App!OtherEvent, App!kernelVars
    <2>2. AppTypes'  BY <1>1, <2>1 DEF AppInv, AppTypes
    <2>3. TurnsInv'  BY <1>1, <2>1 DEF AppInv, AppTypes, TurnsInv, OnTheWay
    <2> QED  BY <1>3, <2>2, <2>3 DEF AppInv
  <1>5. CASE App!Gap
    <2>1. PICK e \in Event : e = Head(feed)
      BY <1>5, HeadTailProperties DEF AppInv, AppTypes, App!Gap
    <2>2. feed' \in Seq(Event) /\ App!ToSet(feed) = {e} \cup App!ToSet(feed')
      BY <1>5, <2>1, Members DEF App!Gap, AppInv, AppTypes
    <2>3. lost' \in Nat /\ lost' > 0  BY <1>5 DEF App!Gap, AppInv, AppTypes
    <2>4. AppTypes'  BY <1>1, <2>2, <2>3 DEF AppInv, AppTypes
    <2>5. TurnsInv'  BY <1>1, <2>2, <2>3 DEF AppInv, AppTypes, TurnsInv, OnTheWay
    <2> QED  BY <1>3, <2>4, <2>5 DEF AppInv
  <1> QED  BY <1>4, <1>5

LEMMA AnswerStep ==
    ASSUME KindsDiffer, AppInv, NEW t \in AppTurn, App!Press(t) \/ App!Respond(t)
    PROVE  AppInv'
  <1>1. UNCHANGED <<running, ended, feed, lost, view, stopping, held, pending, revived>>
    BY DEF App!Press, App!Respond, App!kernelVars, App!stateVars, App!pastVars
  <1>2. PICK u : u = ui  OBVIOUS
  <1>3. PICK w : w = App!Popped([u EXCEPT !.interactionOpen = FALSE], {t})  OBVIOUS
  <1>4. Modal(u) /\ (u.interactionOpen => Modal(w))
    <2>1. Modal(u)  BY <1>2 DEF AppInv
    <2>2. {t} \subseteq AppTurn  OBVIOUS
    <2> QED  BY <1>3, <2>1, <2>2, TakenDown
  <1>5. ui' = u \/ (u.interactionOpen /\ ui' = w)
    BY <1>2, <1>3 DEF App!Press, App!Respond, App!stateVars
  <1> QED  BY <1>1, <1>4, <1>5, LeavesTurns

LEMMA AppInvStep ==
    ASSUME KindsDiffer
    PROVE  AppInv /\ [App!Next]_(App!vars) => AppInv'
  <1> SUFFICES ASSUME AppInv, [App!Next]_(App!vars)  PROVE AppInv'  OBVIOUS
  <1>1. CASE UNCHANGED App!vars
    BY <1>1, StaysAsItIs DEF App!vars, App!kernelVars, App!stateVars, App!pastVars
  <1>2. CASE App!OtherWorker
    <2>1. /\ UNCHANGED <<running, ended, feed, lost, view, stopping, pending, revived>>
          /\ App!Dispatch(ui)
      BY <1>2 DEF App!OtherWorker, App!kernelVars, App!pastVars
    <2> QED  BY <2>1, DispatchesNow
  <1>3. CASE App!Next /\ ~App!OtherWorker
    BY <1>3, UserStep, JobStep, KernelStep, FoldStep, OtherStep, AnswerStep DEF App!Next
  <1> QED  BY <1>1, <1>2, <1>3

(* As long as every screen popped was the one meant, the flags of the app  *)
(* say which dialogs are up, one request and one connect dialog at most,   *)
(* for any turns and however answers, expiries, requests, saves, palettes  *)
(* and pickers interleave (app.py:_sync_interaction_dialog).               *)
THEOREM OneDialogAtATime ==
    ASSUME KindsDiffer
    PROVE  App!Spec => []OneModal
  <1>1. AppInv => App!OneModal
    <2> SUFFICES ASSUME Modal(ui), ~ui.astray  PROVE App!OneModal
      BY DEF AppInv, App!OneModal
    <2>1. App!Requests = OfKind(ui.screens, AppTurn)  BY DEF App!Requests, OfKind
    <2>2. App!Connects = OfKind(ui.screens, {"connect"})  BY DEF App!Connects, OfKind
    <2> QED  BY <2>1, <2>2 DEF Modal, Flags, App!OneModal
  <1> QED  BY <1>1, AppInvInit, AppInvStep, PTL DEF App!Spec, OneModal

(* The stop button comes back: its turn runs, or its end is on the way,    *)
(* unless an event was lost or the loop's copy of the state has put back   *)
(* what the app had cleared (reducer.py:fold_event, app.py:_on_loop_emit   *)
(* and _maybe_clear_stop).                                                 *)
THEOREM StopComesBack ==
    ASSUME KindsDiffer
    PROVE  App!Spec => []StopIsReleased
  <1>1. AppInv => App!StopIsReleased
    BY DEF AppInv, AppTypes, TurnsInv, OnTheWay, App!StopIsReleased
  <1> QED  BY <1>1, AppInvInit, AppInvStep, PTL DEF App!Spec, StopIsReleased

----------------------------------------------------------------------------
(* The sessions of the first generation: an index entry is only written    *)
(* after the file of the same session, and nothing changes the memory in   *)
(* between.                                                                *)
FileWrite(s) == [to |-> "file", of |-> s]
FileOrIndex == [to : {"file", "index"}, of : LegacySession]
Ordered(g) == /\ g # <<>>
              /\ \A i \in 2..Len(g) : g[i].to = "index" => g[i - 1] = FileWrite(g[i].of)
Whole(g) == Ordered(g) /\ g[1].to = "file"

SessionTypes ==
    /\ mem \in [LegacySession -> Nat \cup {None}]
    /\ file \in [LegacySession -> Nat \cup {None}]
    /\ kept \in [LegacySession -> Nat \cup {None}]
    /\ todo \in Seq(Seq(FileOrIndex))
    /\ index.listed \subseteq LegacySession

TodoInv ==
    /\ \A i \in 1..Len(todo) : Ordered(todo[i])
    /\ \A i \in 2..Len(todo) : Whole(todo[i])
    /\ todo # <<>> /\ todo[1][1].to = "index" => file[todo[1][1].of] = mem[todo[1][1].of]

KeptInv ==
    \A s \in LegacySession : kept[s] # None =>
        /\ s \in index.listed /\ file[s] # None /\ file[s] >= kept[s]
        /\ up => mem[s] # None /\ mem[s] >= kept[s]

DroppedInv ==
    /\ dropped \subseteq LegacySession
    /\ \A s \in dropped : mem[s] = None /\ file[s] = None /\ kept[s] = None

ProcessInv ==
    /\ ~up => todo = <<>> /\ doing = None
    /\ up => foreground \in LegacySession /\ mem[foreground] # None
    /\ doing # None => /\ doing \in LegacySession /\ todo = <<>>
                       /\ file[doing] = None /\ kept[doing] = None

SessionInv == SessionTypes /\ TodoInv /\ KeptInv /\ DroppedInv /\ ProcessInv

----------------------------------------------------------------------------
(* The groups of writes the operations ask for. *)
LEMMA SaveIsWhole ==
    ASSUME NEW s \in LegacySession
    PROVE  Legacy!Save(s) \in Seq(FileOrIndex) /\ Whole(Legacy!Save(s))
  <1>1. PICK a, b : a = FileWrite(s) /\ b = [to |-> "index", of |-> s]  OBVIOUS
  <1>2. a \in FileOrIndex /\ b \in FileOrIndex /\ b.of = s /\ a.to = "file"
    BY <1>1 DEF FileOrIndex, FileWrite
  <1>3. Legacy!Save(s) = <<a, b>>  BY <1>1 DEF Legacy!Save, FileWrite
  <1>4. <<a, b>> \in Seq(FileOrIndex)  BY <1>2
  <1>5. Whole(<<a, b>>)  BY <1>1, <1>2 DEF Whole, Ordered
  <1> QED  BY <1>3, <1>4, <1>5

LEMMA TwoSavesAreWhole ==
    ASSUME NEW g \in Seq(FileOrIndex), NEW h \in Seq(FileOrIndex), Whole(g), Whole(h)
    PROVE  g \o h \in Seq(FileOrIndex) /\ Whole(g \o h)
  <1>1. PICK w : w = g \o h  OBVIOUS
  <1>2. /\ w \in Seq(FileOrIndex) /\ Len(w) = Len(g) + Len(h)
        /\ \A i \in 1..Len(w) : w[i] = IF i <= Len(g) THEN g[i] ELSE h[i - Len(g)]
        /\ Len(g) \in Nat \ {0} /\ Len(h) \in Nat \ {0}
    BY <1>1, ConcatProperties DEF Whole, Ordered
  <1>3. ASSUME NEW i \in 2..Len(w), w[i].to = "index"
        PROVE  w[i - 1] = FileWrite(w[i].of)
    <2>1. i \in 1..Len(w) /\ i - 1 \in 1..Len(w) /\ i \in Int  BY <1>2, <1>3
    <2>0. /\ w[i] = IF i <= Len(g) THEN g[i] ELSE h[i - Len(g)]
          /\ w[i - 1] = IF i - 1 <= Len(g) THEN g[i - 1] ELSE h[(i - 1) - Len(g)]
      BY <1>2, <2>1
    <2>2. CASE i <= Len(g)
      <3>1. i \in 2..Len(g) /\ w[i] = g[i] /\ w[i - 1] = g[i - 1]  BY <1>2, <2>1, <2>2
      <3> QED  BY <1>3, <3>1 DEF Whole, Ordered
    <2>3. CASE i > Len(g)
      <3>1. w[i] = h[i - Len(g)]  BY <1>2, <2>0, <2>1, <2>3
      <3>2. i - Len(g) # 1  BY <1>3, <3>1 DEF Whole
      <3>3. i - Len(g) \in 2..Len(h) /\ ~(i - 1 <= Len(g)) /\ (i - 1) - Len(g) = (i - Len(g)) - 1
        BY <1>2, <2>1, <2>3, <3>2
      <3>4. w[i - 1] = h[(i - Len(g)) - 1]  BY <2>0, <3>3
      <3> QED  BY <1>3, <3>1, <3>3, <3>4 DEF Whole, Ordered
    <2> QED  BY <1>2, <2>1, <2>2, <2>3
  <1>4. w # <<>> /\ w[1] = g[1]  BY <1>2
  <1> QED  BY <1>1, <1>2, <1>3, <1>4 DEF Whole, Ordered

LEMMA SavesAreWhole ==
    ASSUME IsFiniteSet(LegacySession), NEW T \in SUBSET LegacySession
    PROVE  /\ Legacy!SaveEach(T) \in Seq(Seq(FileOrIndex))
           /\ \A i \in 1..Len(Legacy!SaveEach(T)) : Whole(Legacy!SaveEach(T)[i])
  <1>1. IsFiniteSet(T)  BY FS_Subset
  <1>2. PICK n \in Nat : ExistsBijection(1..n, T)  BY <1>1, FS_NatBijection
  <1>3. Cardinality(T) = n  BY <1>2, FS_CountingElements
  <1>4. Legacy!Cardinality(T) = n  BY <1>3 DEF Legacy!Cardinality, Cardinality
  <1>5. PICK f \in [1..n -> T] : Legacy!IsInjective(f)
    BY <1>2 DEF ExistsBijection, Bijection, Injection, IsInjective, Legacy!IsInjective
  <1>6. PICK order : order = Legacy!SetToSeq(T)  OBVIOUS
  <1>7. order \in [1..n -> T]  BY <1>4, <1>5, <1>6 DEF Legacy!SetToSeq
  <1>8. Len(order) = n  BY <1>7
  <1>9. Legacy!SaveEach(T) = [i \in 1..n |-> Legacy!Save(order[i])]
    BY <1>6, <1>8 DEF Legacy!SaveEach
  <1>10. \A i \in 1..n : Legacy!Save(order[i]) \in Seq(FileOrIndex) /\ Whole(Legacy!Save(order[i]))
    BY <1>7, SaveIsWhole
  <1>11. Legacy!SaveEach(T) \in Seq(Seq(FileOrIndex)) /\ Len(Legacy!SaveEach(T)) = n
    BY <1>9, <1>10
  <1> QED  BY <1>9, <1>10, <1>11

(* New work starts with the write of a file. *)
LEMMA NewTodo ==
    ASSUME NEW q \in Seq(Seq(FileOrIndex)), \A i \in 1..Len(q) : Whole(q[i]), todo' = q
    PROVE  TodoInv' /\ todo' \in Seq(Seq(FileOrIndex))
  <1>1. \A i \in 1..Len(todo') : Whole(todo'[i])  OBVIOUS
  <1>2. todo' # <<>> => 1 \in 1..Len(todo')  OBVIOUS
  <1>3. todo' # <<>> => todo'[1][1].to = "file"  BY <1>1, <1>2 DEF Whole
  <1>4. \A i \in 2..Len(todo') : i \in 1..Len(todo')  OBVIOUS
  <1> QED  BY <1>1, <1>3, <1>4 DEF TodoInv, Whole, Ordered, FileWrite

LEMMA OneGroup ==
    ASSUME NEW g \in Seq(FileOrIndex), Whole(g)
    PROVE  <<g>> \in Seq(Seq(FileOrIndex)) /\ \A i \in 1..Len(<<g>>) : Whole(<<g>>[i])
  OBVIOUS

LEMMA SessionInvInit ==
    ASSUME None \notin Nat
    PROVE  Legacy!Init => SessionInv
  <1> SUFFICES ASSUME Legacy!Init  PROVE SessionInv  OBVIOUS
  <1>1. todo = <<>> /\ todo \in Seq(Seq(FileOrIndex))  BY DEF Legacy!Init
  <1>2. TodoInv  BY <1>1 DEF TodoInv
  <1>3. SessionTypes  BY <1>1 DEF Legacy!Init, SessionTypes
  <1>4. KeptInv /\ DroppedInv /\ ProcessInv
    BY DEF Legacy!Init, KeptInv, DroppedInv, ProcessInv
  <1> QED  BY <1>2, <1>3, <1>4 DEF SessionInv

(* The head of the queue, and what is left when a write is done or fails. *)
LEMMA Heads ==
    ASSUME SessionInv, todo # <<>>
    PROVE  /\ todo[1][1] \in FileOrIndex /\ todo[1] \in Seq(FileOrIndex) /\ todo[1] # <<>>
           /\ \A i \in 1..Len(Tail(todo)) : Whole(Tail(todo)[i])
           /\ Tail(todo) \in Seq(Seq(FileOrIndex))
  <1>1. todo \in Seq(Seq(FileOrIndex))  BY DEF SessionInv, SessionTypes
  <1>2. 1 \in 1..Len(todo) /\ todo[1] \in Seq(FileOrIndex)  BY <1>1
  <1>3. todo[1] # <<>>  BY <1>2 DEF SessionInv, TodoInv, Ordered
  <1>4. todo[1][1] \in FileOrIndex  BY <1>2, <1>3
  <1>5. /\ Tail(todo) \in Seq(Seq(FileOrIndex)) /\ Len(Tail(todo)) = Len(todo) - 1
        /\ \A i \in 1..Len(Tail(todo)) : Tail(todo)[i] = todo[i + 1]
    BY <1>1, HeadTailProperties
  <1>6. \A i \in 1..Len(Tail(todo)) : i + 1 \in 2..Len(todo)  BY <1>1, <1>5
  <1> QED  BY <1>2, <1>3, <1>4, <1>5, <1>6 DEF SessionInv, TodoInv

(* After a write the file its index entry speaks of is as the memory is. *)
LEMMA NextGroupsInv ==
    ASSUME SessionInv, todo # <<>>, todo' = Legacy!NextGroups, UNCHANGED mem,
           todo[1][1].to = "file" => file'[todo[1][1].of] = mem[todo[1][1].of]
    PROVE  TodoInv' /\ todo' \in Seq(Seq(FileOrIndex))
  <1>1. CASE Len(todo[1]) = 1
    <2>1. PICK q : q = Tail(todo)  OBVIOUS
    <2>2. q \in Seq(Seq(FileOrIndex)) /\ (\A i \in 1..Len(q) : Whole(q[i])) /\ todo' = q
      BY <1>1, <2>1, Heads DEF Legacy!NextGroups
    <2> QED  BY <2>2, NewTodo
  <1>2. CASE Len(todo[1]) # 1
    <2>1. PICK g : g = todo[1]  OBVIOUS
    <2>2. g \in Seq(FileOrIndex) /\ g # <<>> /\ Ordered(g)
      BY <2>1, Heads DEF SessionInv, SessionTypes, TodoInv
    <2>0. Len(g) \in Nat /\ Len(g) # 0 /\ Len(g) # 1  BY <1>2, <2>1, <2>2
    <2>3. /\ Tail(g) \in Seq(FileOrIndex) /\ Len(Tail(g)) = Len(g) - 1
          /\ \A i \in 1..Len(Tail(g)) : Tail(g)[i] = g[i + 1]
      BY <2>2, HeadTailProperties
    <2>21. Len(g) > 1 /\ Len(Tail(g)) # 0  BY <2>0, <2>3
    <2>4. Ordered(Tail(g))
      <3>1. ASSUME NEW i \in 2..Len(Tail(g)), Tail(g)[i].to = "index"
            PROVE  Tail(g)[i - 1] = FileWrite(Tail(g)[i].of)
        <4>1. i + 1 \in 2..Len(g) /\ Tail(g)[i] = g[i + 1] /\ Tail(g)[i - 1] = g[i]
          BY <2>0, <2>2, <2>3, <3>1
        <4>2. (i + 1) - 1 = i  OBVIOUS
        <4> QED  BY <2>2, <3>1, <4>1, <4>2 DEF Ordered
      <3>2. Tail(g) # <<>>
        <4>1. PICK h : h = Tail(g)  OBVIOUS
        <4>2. Len(h) # 0  BY <2>21, <4>1
        <4>3. h # <<>>  BY <4>2
        <4> QED  BY <4>1, <4>3
      <3> QED  BY <3>1, <3>2 DEF Ordered
    <2>5. Tail(g)[1] = g[2] /\ 2 \in 2..Len(g)  BY <2>0, <2>2, <2>3, <2>21
    <2>6. Tail(g)[1].to = "index" => file'[Tail(g)[1].of] = mem[Tail(g)[1].of]
      <3> SUFFICES ASSUME g[2].to = "index"  PROVE file'[g[2].of] = mem[g[2].of]
        BY <2>5
      <3>1. g[1] = FileWrite(g[2].of)  BY <2>2, <2>5 DEF Ordered
      <3>2. g[1].to = "file" /\ g[1].of = g[2].of  BY <3>1 DEF FileWrite
      <3> QED  BY <2>1, <3>2
    <2>7. PICK q : q = Tail(todo)  OBVIOUS
    <2>8. q \in Seq(Seq(FileOrIndex)) /\ (\A i \in 1..Len(q) : Whole(q[i]))
      BY <2>7, Heads
    <2>9. todo' = <<Tail(g)>> \o q  BY <1>2, <2>1, <2>7 DEF Legacy!NextGroups
    <2>10. <<Tail(g)>> \in Seq(Seq(FileOrIndex)) /\ Len(<<Tail(g)>>) = 1 /\ <<Tail(g)>>[1] = Tail(g)
      BY <2>3
    <2>11. /\ todo' \in Seq(Seq(FileOrIndex)) /\ Len(todo') = 1 + Len(q) /\ Len(q) \in Nat
           /\ \A i \in 1..Len(todo') :
                 todo'[i] = IF i <= 1 THEN <<Tail(g)>>[i] ELSE q[i - 1]
      BY <2>8, <2>9, <2>10, ConcatProperties
    <2>12. todo'[1] = Tail(g)  BY <2>10, <2>11
    <2>13. \A i \in 2..Len(todo') : Whole(todo'[i])
      <3> TAKE i \in 2..Len(todo')
      <3>1. i \in 1..Len(todo') /\ i - 1 \in 1..Len(q) /\ ~(i <= 1)  BY <2>11
      <3> QED  BY <2>8, <2>11, <3>1
    <2>14. \A i \in 1..Len(todo') : Ordered(todo'[i])
      <3> TAKE i \in 1..Len(todo')
      <3>1. i = 1 \/ i \in 2..Len(todo')  BY <2>11
      <3> QED  BY <2>4, <2>12, <2>13, <3>1 DEF Whole
    <2>15. \A i \in 1..Len(todo') : Ordered(todo[i])'
      BY <2>14 DEF Ordered, FileWrite
    <2> QED  BY <2>6, <2>11, <2>12, <2>13, <2>14 DEF TodoInv, Whole, Ordered, FileWrite
  <1> QED  BY <1>1, <1>2

LEMMA WriteStep ==
    ASSUME None \notin Nat, SessionInv, Legacy!Write
    PROVE  SessionInv'
  <1>1. PICK w : w = todo[1][1]  OBVIOUS
  <1>2. w.of \in LegacySession /\ todo # <<>> /\ up
    BY <1>1, Heads DEF Legacy!Write, FileOrIndex
  <1>3. UNCHANGED <<mem, foreground, doing, up, dropped>> /\ todo' = Legacy!NextGroups
    BY DEF Legacy!Write
  <1>4. doing = None  BY <1>2 DEF SessionInv, ProcessInv
  <1>5. CASE w.to = "file" /\ file' = [file EXCEPT ![w.of] = mem[w.of]] /\ UNCHANGED <<index, kept>>
    <2>1. file'[w.of] = mem[w.of]  BY <1>2, <1>5 DEF SessionInv, SessionTypes
    <2>2. TodoInv' /\ todo' \in Seq(Seq(FileOrIndex))
      BY <1>1, <1>2, <1>3, <2>1, NextGroupsInv
    <2>3. SessionTypes'  BY <1>2, <1>3, <1>5, <2>2 DEF SessionInv, SessionTypes
    <2>4. KeptInv'  BY <1>2, <1>3, <1>5 DEF SessionInv, SessionTypes, KeptInv
    <2>5. DroppedInv'  BY <1>2, <1>3, <1>5 DEF SessionInv, SessionTypes, DroppedInv
    <2>6. ProcessInv'  BY <1>2, <1>3, <1>4 DEF SessionInv, ProcessInv
    <2> QED  BY <2>2, <2>3, <2>4, <2>5, <2>6 DEF SessionInv
  <1>6. CASE /\ w.to = "index" /\ UNCHANGED file
             /\ index' = [listed |-> index.listed \cup {w.of},
                          active |-> IF w.of = foreground THEN w.of ELSE index.active]
             /\ kept' = [kept EXCEPT ![w.of] = mem[w.of]]
    <2>1. file[w.of] = mem[w.of]  BY <1>1, <1>2, <1>6 DEF SessionInv, TodoInv
    <2>2. TodoInv' /\ todo' \in Seq(Seq(FileOrIndex))
      BY <1>1, <1>2, <1>3, <1>6, NextGroupsInv
    <2>4. index'.listed = index.listed \cup {w.of}  BY <1>6
    <2>3. SessionTypes'  BY <1>2, <1>3, <1>6, <2>2, <2>4 DEF SessionInv, SessionTypes
    <2>5. KeptInv'
      BY <1>2, <1>3, <1>6, <2>1, <2>4 DEF SessionInv, SessionTypes, KeptInv
    <2>6. DroppedInv'  BY <1>2, <1>3, <1>6 DEF SessionInv, SessionTypes, DroppedInv
    <2>7. ProcessInv'  BY <1>2, <1>3, <1>4 DEF SessionInv, ProcessInv
    <2> QED  BY <2>2, <2>3, <2>5, <2>6, <2>7 DEF SessionInv
  <1> QED  BY <1>1, <1>5, <1>6 DEF Legacy!Write

(* A step that leaves the files, the memory and the marks, but not todo. *)
LEMMA WorkStep ==
    ASSUME SessionInv, UNCHANGED <<mem, file, index, kept, dropped, up>>,
           up => foreground' \in LegacySession /\ mem[foreground'] # None,
           ~up => todo' = <<>>, doing' = None,
           TodoInv', todo' \in Seq(Seq(FileOrIndex))
    PROVE  SessionInv'
  <1>1. SessionTypes'  BY DEF SessionInv, SessionTypes
  <1>2. KeptInv'  BY DEF SessionInv, KeptInv
  <1>3. DroppedInv'  BY DEF SessionInv, DroppedInv
  <1>4. ProcessInv'  BY DEF SessionInv, ProcessInv
  <1> QED  BY <1>1, <1>2, <1>3, <1>4 DEF SessionInv

(* A session made or changed: its memory only grows, from none or from the *)
(* version it was at.                                                      *)
LEMMA MemoryStep ==
    ASSUME None \notin Nat, SessionInv, NEW s \in LegacySession, NEW n \in Nat,
           mem' = [mem EXCEPT ![s] = n], mem[s] # None => n >= mem[s],
           s \notin dropped, kept[s] # None => mem[s] # None,
           up', foreground' = s, doing' = None,
           UNCHANGED <<file, index, kept, dropped>>, 
           up \/ \A t \in LegacySession : kept[t] = None,
           TodoInv', todo' \in Seq(Seq(FileOrIndex))
    PROVE  SessionInv'
  <1>1. mem' \in [LegacySession -> Nat \cup {None}] /\ mem'[s] = n /\ mem \in [LegacySession -> Nat \cup {None}]
        /\ \A t \in LegacySession : t # s => mem'[t] = mem[t]
    BY DEF SessionInv, SessionTypes
  <1>2. SessionTypes'  BY <1>1 DEF SessionInv, SessionTypes
  <1>3. KeptInv'
    <2> SUFFICES ASSUME NEW t \in LegacySession, kept[t] # None
                 PROVE  /\ t \in index.listed /\ file[t] # None /\ file[t] >= kept[t]
                        /\ mem'[t] # None /\ mem'[t] >= kept[t]
      BY DEF KeptInv
    <2>1. /\ t \in index.listed /\ file[t] # None /\ file[t] >= kept[t]
          /\ mem[t] # None /\ mem[t] >= kept[t] /\ kept[t] \in Nat /\ mem[t] \in Nat
      BY <1>1 DEF SessionInv, KeptInv, SessionTypes
    <2> QED  BY <1>1, <2>1
  <1>4. DroppedInv'  BY <1>1 DEF SessionInv, DroppedInv
  <1>5. ProcessInv'  BY <1>1 DEF SessionInv, ProcessInv
  <1> QED  BY <1>2, <1>3, <1>4, <1>5 DEF SessionInv

LEMMA EmptyTodo ==
    todo' = <<>> => TodoInv' /\ todo' \in Seq(Seq(FileOrIndex))
  BY DEF TodoInv

LEMMA OneTodo ==
    ASSUME NEW g \in Seq(FileOrIndex), Whole(g), todo' = <<g>>
    PROVE  TodoInv' /\ todo' \in Seq(Seq(FileOrIndex))
  <1>1. PICK q : q = <<g>>  OBVIOUS
  <1>2. q \in Seq(Seq(FileOrIndex)) /\ \A i \in 1..Len(q) : Whole(q[i])  BY <1>1, OneGroup
  <1> QED  BY <1>1, <1>2, NewTodo

LEMMA GrowStep ==
    ASSUME None \notin Nat, SessionInv,
           Legacy!Change \/ \E s \in LegacySession : Legacy!Create(s) \/ Legacy!StartAnew(s)
    PROVE  SessionInv'
  <1>1. CASE Legacy!Change
    <2>1. foreground \in LegacySession /\ mem[foreground] \in Nat /\ up
      BY <1>1 DEF Legacy!Change, Legacy!Free, SessionInv, ProcessInv, SessionTypes
    <2>2. PICK n \in Nat : n = mem[foreground] + 1  BY <2>1
    <2>3. /\ mem' = [mem EXCEPT ![foreground] = n] /\ foreground' = foreground /\ doing' = None
          /\ UNCHANGED <<file, index, kept, dropped, up>>
          /\ todo' = <<Legacy!Save(foreground)>> \/ todo' = <<>>
      BY <1>1, <2>1, <2>2 DEF Legacy!Change, Legacy!Free
    <2>4. TodoInv' /\ todo' \in Seq(Seq(FileOrIndex))
      BY <2>1, <2>3, EmptyTodo, OneTodo, SaveIsWhole
    <2>5. foreground \notin dropped  BY <2>1 DEF SessionInv, DroppedInv
    <2>6. n >= mem[foreground] /\ mem[foreground] # None  BY <2>1, <2>2
    <2>7. PICK s \in LegacySession : s = foreground  BY <2>1
    <2> QED  BY <2>1, <2>3, <2>4, <2>5, <2>6, <2>7, MemoryStep
  <1>2. ASSUME NEW s \in LegacySession, Legacy!Create(s)  PROVE SessionInv'
    <2>1. /\ mem' = [mem EXCEPT ![s] = 0] /\ foreground' = s /\ doing' = None /\ up /\ up'
          /\ UNCHANGED <<file, index, kept, dropped>> /\ todo' = <<Legacy!Save(s)>>
          /\ mem[s] = None /\ kept[s] = None /\ s \notin dropped
      BY <1>2 DEF Legacy!Create, Legacy!Free, Legacy!Fresh
    <2>2. TodoInv' /\ todo' \in Seq(Seq(FileOrIndex))  BY <2>1, OneTodo, SaveIsWhole
    <2> QED  BY <2>1, <2>2, MemoryStep
  <1>3. ASSUME NEW s \in LegacySession, Legacy!StartAnew(s)  PROVE SessionInv'
    <2>1. /\ mem' = [mem EXCEPT ![s] = 0] /\ foreground' = s /\ doing' = doing /\ ~up /\ up'
          /\ UNCHANGED <<file, index, kept, dropped>> /\ todo' = <<Legacy!Save(s)>>
          /\ mem[s] = None /\ kept[s] = None /\ s \notin dropped /\ Legacy!Loadable = {}
      BY <1>3 DEF Legacy!StartAnew, Legacy!Fresh
    <2>2. TodoInv' /\ todo' \in Seq(Seq(FileOrIndex))  BY <2>1, OneTodo, SaveIsWhole
    <2>3. doing' = None  BY <2>1 DEF SessionInv, ProcessInv
    <2>4. \A t \in LegacySession : kept[t] = None
      BY <2>1 DEF SessionInv, KeptInv, Legacy!Loadable, Legacy!Candidates
    <2> QED  BY <2>1, <2>2, <2>3, <2>4, MemoryStep
  <1> QED  BY <1>1, <1>2, <1>3

LEMMA SaveStep ==
    ASSUME IsFiniteSet(LegacySession), SessionInv,
           \/ Legacy!RenameActive \/ Legacy!SaveAll \/ Legacy!WriteFails \/ Legacy!UnlistFails
           \/ \E s \in LegacySession : Legacy!Switch(s)
    PROVE  SessionInv'
  <1>1. CASE Legacy!RenameActive
    <2>1. /\ UNCHANGED <<mem, file, index, kept, dropped, up>> /\ foreground' = foreground
          /\ doing' = None /\ todo' = <<Legacy!Save(foreground)>> /\ up
      BY <1>1 DEF Legacy!RenameActive, Legacy!Free
    <2>2. foreground \in LegacySession /\ mem[foreground] # None
      BY <2>1 DEF SessionInv, ProcessInv
    <2>3. TodoInv' /\ todo' \in Seq(Seq(FileOrIndex))  BY <2>1, <2>2, OneTodo, SaveIsWhole
    <2> QED  BY <2>1, <2>2, <2>3, WorkStep
  <1>2. CASE Legacy!SaveAll
    <2>1. /\ UNCHANGED <<mem, file, index, kept, dropped, up>> /\ foreground' = foreground
          /\ doing' = None /\ todo' = Legacy!SaveEach(Legacy!Members) /\ up
      BY <1>2 DEF Legacy!SaveAll, Legacy!Free
    <2>2. foreground \in LegacySession /\ mem[foreground] # None
      BY <2>1 DEF SessionInv, ProcessInv
    <2>3. PICK T \in SUBSET LegacySession : T = Legacy!Members  BY DEF Legacy!Members
    <2>4. TodoInv' /\ todo' \in Seq(Seq(FileOrIndex))
      BY <2>1, <2>3, SavesAreWhole, NewTodo
    <2> QED  BY <2>1, <2>2, <2>4, WorkStep
  <1>3. CASE Legacy!WriteFails
    <2>1. /\ UNCHANGED <<mem, file, index, kept, dropped, up>> /\ foreground' = foreground
          /\ doing' = doing /\ todo' = Tail(todo) /\ up /\ todo # <<>>
      BY <1>3 DEF Legacy!WriteFails
    <2>2. foreground \in LegacySession /\ mem[foreground] # None /\ doing = None
      BY <2>1 DEF SessionInv, ProcessInv
    <2>3. PICK q : q = Tail(todo)  OBVIOUS
    <2>4. q \in Seq(Seq(FileOrIndex)) /\ \A i \in 1..Len(q) : Whole(q[i])
      BY <2>1, <2>3, Heads
    <2>5. TodoInv' /\ todo' \in Seq(Seq(FileOrIndex))  BY <2>1, <2>3, <2>4, NewTodo
    <2> QED  BY <2>1, <2>2, <2>5, WorkStep
  <1>4. CASE Legacy!UnlistFails
    <2>1. /\ UNCHANGED <<mem, file, index, kept, dropped, up>> /\ foreground' = foreground
          /\ doing' = None /\ todo' = todo /\ up /\ doing # None
      BY <1>4 DEF Legacy!UnlistFails
    <2>2. foreground \in LegacySession /\ mem[foreground] # None /\ todo = <<>>
      BY <2>1 DEF SessionInv, ProcessInv
    <2> QED  BY <2>1, <2>2, EmptyTodo, WorkStep
  <1>5. ASSUME NEW s \in LegacySession, Legacy!Switch(s)  PROVE SessionInv'
    <2>1. /\ UNCHANGED <<mem, file, index, kept, dropped, up>> /\ foreground' = s /\ mem[s] # None
          /\ doing' = None /\ todo' = <<Legacy!Save(foreground) \o Legacy!Save(s)>> /\ up
      BY <1>5 DEF Legacy!Switch, Legacy!Free, Legacy!Members
    <2>2. PICK f \in LegacySession : f = foreground  BY <2>1 DEF SessionInv, ProcessInv
    <2>3. PICK g, h : g = Legacy!Save(f) /\ h = Legacy!Save(s)  OBVIOUS
    <2>4. /\ g \in Seq(FileOrIndex) /\ Whole(g) /\ h \in Seq(FileOrIndex) /\ Whole(h)
          /\ todo' = <<g \o h>>
      BY <2>1, <2>2, <2>3, SaveIsWhole
    <2>5. g \o h \in Seq(FileOrIndex) /\ Whole(g \o h)  BY <2>4, TwoSavesAreWhole
    <2>6. TodoInv' /\ todo' \in Seq(Seq(FileOrIndex))  BY <2>4, <2>5, OneTodo
    <2> QED  BY <2>1, <2>6, WorkStep
  <1> QED  BY <1>1, <1>2, <1>3, <1>4, <1>5

LEMMA DeleteStep ==
    ASSUME SessionInv, NEW s \in LegacySession, Legacy!Delete(s)
    PROVE  SessionInv'
  <1>1. /\ UNCHANGED <<mem, foreground, index, todo, up, dropped>> /\ todo = <<>> /\ up
        /\ file' = [file EXCEPT ![s] = None] /\ kept' = [kept EXCEPT ![s] = None] /\ doing' = s
    BY DEF Legacy!Delete, Legacy!Free
  <1>2. SessionTypes'  BY <1>1 DEF SessionInv, SessionTypes
  <1>3. TodoInv'  BY <1>1, EmptyTodo
  <1>4. file'[s] = None /\ kept'[s] = None
        /\ \A t \in LegacySession : t # s => file'[t] = file[t] /\ kept'[t] = kept[t]
    BY <1>1 DEF SessionInv, SessionTypes
  <1>5. KeptInv'  BY <1>1, <1>4 DEF SessionInv, KeptInv
  <1>6. DroppedInv'  BY <1>1, <1>4 DEF SessionInv, DroppedInv
  <1>7. ProcessInv'  BY <1>1, <1>4 DEF SessionInv, ProcessInv
  <1> QED  BY <1>2, <1>3, <1>5, <1>6, <1>7 DEF SessionInv

LEMMA UnlistStep ==
    ASSUME IsFiniteSet(LegacySession), SessionInv, NEW saved,
           saved = Legacy!Members \ {doing} \/ saved = {foreground'}, Legacy!Unlisted(saved)
    PROVE  SessionInv'
  <1>1. /\ up /\ up' /\ doing # None /\ UNCHANGED <<file, kept>>
        /\ index'.listed = index.listed \ {doing} /\ mem' = [mem EXCEPT ![doing] = None]
        /\ foreground' \in IF foreground = doing THEN Legacy!Members \ {doing} ELSE {foreground}
        /\ todo' = Legacy!SaveEach(saved) /\ dropped' = dropped \cup {doing} /\ doing' = None
    BY DEF Legacy!Unlisted
  <1>2. /\ doing \in LegacySession /\ file[doing] = None /\ kept[doing] = None
        /\ foreground \in LegacySession /\ mem[foreground] # None
    BY <1>1 DEF SessionInv, ProcessInv
  <1>3. foreground' \in LegacySession /\ mem[foreground'] # None /\ foreground' # doing
    BY <1>1, <1>2 DEF Legacy!Members
  <1>4. /\ mem' \in [LegacySession -> Nat \cup {None}] /\ mem'[doing] = None
        /\ \A t \in LegacySession : t # doing => mem'[t] = mem[t]
    BY <1>1, <1>2 DEF SessionInv, SessionTypes
  <1>5. saved \in SUBSET LegacySession  BY <1>3 DEF Legacy!Members
  <1>6. TodoInv' /\ todo' \in Seq(Seq(FileOrIndex))  BY <1>1, <1>5, SavesAreWhole, NewTodo
  <1>7. SessionTypes'  BY <1>1, <1>4, <1>6 DEF SessionInv, SessionTypes
  <1>8. KeptInv'  BY <1>1, <1>2, <1>4 DEF SessionInv, KeptInv
  <1>9. DroppedInv'  BY <1>1, <1>2, <1>4 DEF SessionInv, DroppedInv
  <1>10. ProcessInv'  BY <1>1, <1>3, <1>4 DEF ProcessInv
  <1> QED  BY <1>6, <1>7, <1>8, <1>9, <1>10 DEF SessionInv

LEMMA RestartStep ==
    ASSUME SessionInv, Legacy!Crash \/ Legacy!Start
    PROVE  SessionInv'
  <1>1. CASE Legacy!Crash
    <2>1. /\ ~up' /\ mem' = [s \in LegacySession |-> None] /\ todo' = <<>> /\ doing' = None
          /\ UNCHANGED <<file, index, kept, dropped>>
      BY <1>1 DEF Legacy!Crash
    <2>2. TodoInv' /\ todo' \in Seq(Seq(FileOrIndex))  BY <2>1, EmptyTodo
    <2>3. SessionTypes'  BY <2>1, <2>2 DEF SessionInv, SessionTypes
    <2>4. KeptInv'  BY <2>1 DEF SessionInv, KeptInv
    <2>5. DroppedInv'  BY <2>1 DEF SessionInv, DroppedInv
    <2>6. ProcessInv'  BY <2>1 DEF ProcessInv
    <2> QED  BY <2>2, <2>3, <2>4, <2>5, <2>6 DEF SessionInv
  <1>2. CASE Legacy!Start
    <2>1. /\ ~up /\ up' /\ UNCHANGED <<file, index, todo, doing, kept, dropped>>
          /\ mem' = [s \in LegacySession |-> IF s \in Legacy!Loadable THEN file[s] ELSE None]
          /\ foreground' \in IF index.active \in Legacy!Loadable THEN {index.active} ELSE Legacy!Loadable
      BY <1>2 DEF Legacy!Start
    <2>2. \A s \in LegacySession : kept[s] # None => s \in Legacy!Loadable
      BY DEF SessionInv, KeptInv, Legacy!Loadable, Legacy!Candidates
    <2>3. foreground' \in Legacy!Loadable  BY <2>1
    <2>4. /\ mem' \in [LegacySession -> Nat \cup {None}]
          /\ \A s \in LegacySession :
                mem'[s] = IF s \in Legacy!Loadable THEN file[s] ELSE None
      BY <2>1 DEF SessionInv, SessionTypes
    <2>5. Legacy!Loadable \subseteq LegacySession /\ \A s \in Legacy!Loadable : file[s] # None
      BY DEF SessionInv, SessionTypes, Legacy!Loadable, Legacy!Candidates
    <2>6. todo = <<>> /\ doing = None  BY <2>1 DEF SessionInv, ProcessInv
    <2>7. TodoInv' /\ todo' \in Seq(Seq(FileOrIndex))  BY <2>1, <2>6, EmptyTodo
    <2>8. SessionTypes'  BY <2>1, <2>4, <2>7 DEF SessionInv, SessionTypes
    <2>9. KeptInv'  BY <2>1, <2>2, <2>4 DEF SessionInv, KeptInv
    <2>10. DroppedInv'  BY <2>1, <2>4 DEF SessionInv, DroppedInv
    <2>11. ProcessInv'  BY <2>1, <2>3, <2>4, <2>5, <2>6 DEF ProcessInv
    <2> QED  BY <2>7, <2>8, <2>9, <2>10, <2>11 DEF SessionInv
  <1> QED  BY <1>1, <1>2

LEMMA SessionInvStep ==
    ASSUME None \notin Nat, IsFiniteSet(LegacySession)
    PROVE  SessionInv /\ [Legacy!Next]_(Legacy!sessionVars) => SessionInv'
  <1> SUFFICES ASSUME SessionInv, [Legacy!Next]_(Legacy!sessionVars)  PROVE SessionInv'  OBVIOUS
  <1>1. CASE UNCHANGED Legacy!sessionVars
    BY <1>1 DEF Legacy!sessionVars, SessionInv, SessionTypes, TodoInv, KeptInv, DroppedInv,
                ProcessInv, Whole, Ordered, FileWrite
  <1>2. CASE Legacy!Unlist \/ Legacy!ConsoleUnlist
    <2>1. PICK saved : /\ saved = Legacy!Members \ {doing} \/ saved = {foreground'}
                       /\ Legacy!Unlisted(saved)
      BY <1>2 DEF Legacy!Unlist, Legacy!ConsoleUnlist
    <2> QED  BY <2>1, UnlistStep
  <1>3. CASE Legacy!Next /\ ~(Legacy!Unlist \/ Legacy!ConsoleUnlist)
    BY <1>3, WriteStep, GrowStep, SaveStep, DeleteStep, RestartStep DEF Legacy!Next
  <1> QED  BY <1>1, <1>2, <1>3

(* Whenever the process is killed, the next start finds every session      *)
(* whose save succeeded, at that version or a later one, unless its        *)
(* deletion had begun, and none whose deletion was reported done, for any  *)
(* number of sessions and changes (agent/session_store.py:save_session,    *)
(* load_all and delete_session).                                           *)
THEOREM RestartsFindWhatWasSaved ==
    ASSUME None \notin Nat, IsFiniteSet(LegacySession)
    PROVE  Legacy!Spec => []RestartIsFaithful
  <1>1. SessionInv => Legacy!RestartIsFaithful
    <2> SUFFICES ASSUME SessionInv
                 PROVE  /\ \A s \in LegacySession :
                              kept[s] # None => s \in Legacy!Loadable /\ file[s] >= kept[s]
                        /\ dropped \cap Legacy!Loadable = {}
      BY DEF Legacy!RestartIsFaithful
    <2>1. \A s \in LegacySession : kept[s] # None => s \in Legacy!Loadable /\ file[s] >= kept[s]
      BY DEF SessionInv, KeptInv, Legacy!Loadable, Legacy!Candidates
    <2>2. dropped \cap Legacy!Loadable = {}
      BY DEF SessionInv, DroppedInv, Legacy!Loadable
    <2> QED  BY <2>1, <2>2
  <1> QED
    BY <1>1, SessionInvInit, SessionInvStep, PTL DEF Legacy!Spec, RestartIsFaithful
=============================================================================
