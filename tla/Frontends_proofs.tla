-------------------------- MODULE Frontends_proofs --------------------------
(* Proofs about the event bus and the event loop of the TUI that reads it, *)
(* the two components of the suite "frontends" that an event goes through. *)
EXTENDS TuiEventLoop, FrontendParts, Selections_proofs

----------------------------------------------------------------------------
(* The retained events: the last of n, one after the other. *)
Recent(p, n) ==
    /\ p \in Seq(Nat) /\ Len(p) <= n
    /\ \A i \in 1..Len(p) : p[i] = n - Len(p) + i

(* The event bus: what the subscription r holds when n events were emitted.*)
InOrder(r, n) ==
    /\ r.last <= n
    /\ \A i \in 1..Len(r.replay) : r.last < r.replay[i] /\ r.replay[i] <= n
    /\ \A i, j \in 1..Len(r.replay) : i < j => r.replay[i] < r.replay[j]
    /\ \A j \in 1..Len(r.queue) :
          /\ r.queue[j] <= n
          /\ r.queue[j] # Bus!CLOSED =>
                /\ r.last < r.queue[j]
                /\ \A i \in 1..Len(r.replay) : r.replay[i] < r.queue[j]
    /\ \A i, j \in 1..Len(r.queue) : i < j /\ r.queue[j] # Bus!CLOSED => r.queue[i] < r.queue[j]

Accounted(r, n) ==
    r.state = "open" =>
        r.got + Len(r.replay) + Len(r.queue) + r.dropped + r.reported = n - r.since

(* Whoever waits or was woken has been through the replay. *)
WokenWell(r) ==
    /\ r.pc = "woken" => r.queue # <<>>
    /\ r.pc = "waiting" => r.queue = <<>> /\ r.state = "open"
    /\ r.pc \in {"waiting", "woken"} => r.replay = <<>>
    /\ r.listed <=> r.state = "open"

Whole(r, n) == r \in Bus!Subscription /\ InOrder(r, n) /\ Accounted(r, n) /\ WokenWell(r)

BusInv ==
    /\ busSequence \in Nat /\ Recent(busRetained, busSequence)
    /\ DOMAIN subscription = BusSub
    /\ \A s \in BusSub : Whole(subscription[s], busSequence)

(* One more event: the oldest makes room when the deque is full. *)
LEMMA OneMoreIsRecent ==
    ASSUME NEW n \in Nat, NEW size \in Nat \ {0}, NEW p, Recent(p, n), NEW e,
           \/ Len(p) >= size /\ e = Append(Tail(p), n + 1)
           \/ ~(Len(p) >= size) /\ e = Append(p, n + 1)
    PROVE  Recent(e, n + 1)
  <1>1. /\ p \in Seq(Nat) /\ Len(p) \in Nat /\ Len(p) <= n
        /\ \A i \in 1..Len(p) : p[i] = n - Len(p) + i
    BY DEF Recent
  <1>2. PICK m \in Nat : m = n + 1  OBVIOUS
  <1>3. ASSUME NEW q \in Seq(Nat), Len(q) <= n, e = Append(q, m),
               \A i \in 1..Len(q) : q[i] = n - Len(q) + i
        PROVE  e \in Seq(Nat) /\ Len(e) <= m /\ \A i \in 1..Len(e) : e[i] = m - Len(e) + i
    <2>1. /\ e \in Seq(Nat) /\ Len(e) = Len(q) + 1 /\ e[Len(q) + 1] = m
          /\ \A i \in 1..Len(q) : e[i] = q[i]
      BY <1>3, AppendProperties
    <2>2. PICK l \in Nat : l = Len(q)  BY <1>3
    <2>3. ASSUME NEW i \in 1..Len(e)  PROVE e[i] = m - Len(e) + i
      <3>1. CASE i = l + 1  BY <2>1, <2>2, <3>1
      <3>2. CASE i \in 1..l  BY <1>2, <1>3, <2>1, <2>2, <3>2
      <3> QED  BY <2>1, <2>2, <3>1, <3>2
    <2>4. Len(e) <= m  BY <1>2, <1>3, <2>1, <2>2
    <2> QED  BY <2>1, <2>3, <2>4
  <1>4. CASE Len(p) >= size /\ e = Append(Tail(p), m)
    <2>1. PICK t : t = Tail(p)  OBVIOUS
    <2>2. p # <<>>  BY <1>4
    <2>3. /\ t \in Seq(Nat) /\ Len(t) = Len(p) - 1
          /\ \A i \in 1..Len(t) : t[i] = p[i + 1]
      BY <1>1, <2>1, <2>2, HeadTailProperties
    <2>4. PICK l \in Nat : l = Len(p)  BY <1>1
    <2>5. ASSUME NEW i \in 1..Len(t)  PROVE t[i] = n - Len(t) + i
      <3>1. i + 1 \in 1..l  BY <2>3, <2>4
      <3> QED  BY <1>1, <2>3, <2>4, <3>1
    <2>6. Len(t) <= n  BY <1>1, <2>3, <2>4
    <2> QED  BY <1>2, <1>3, <1>4, <2>1, <2>3, <2>5, <2>6 DEF Recent
  <1>5. CASE e = Append(p, m)  BY <1>1, <1>2, <1>3, <1>5 DEF Recent
  <1> QED  BY <1>2, <1>4, <1>5

(* What lies past a sequence number begins somewhere in the deque, and the *)
(* end of the deque is as recent as all of it.                             *)
LEMMA OldOnesComeFirst ==
    ASSUME NEW n \in Nat, NEW r, Recent(r, n), NEW after \in Nat
    PROVE  \E k \in 0..Len(r) : \A i \in 1..Len(r) : i <= k <=> r[i] <= after
  <1>1. Len(r) \in Nat /\ Len(r) <= n /\ \A i \in 1..Len(r) : r[i] = n - Len(r) + i
    BY DEF Recent
  <1>2. PICK l \in Nat : l = Len(r)  BY <1>1
  <1>3. CASE after < n - l  BY <1>1, <1>2, <1>3
  <1>4. CASE after > n
    <2>1. ASSUME NEW i \in 1..l  PROVE i <= l /\ r[i] <= after
      <3>1. r[i] = n - l + i  BY <1>1, <1>2
      <3> QED  BY <1>2, <1>4, <3>1
    <2> QED  BY SMTT(30), <1>2, <2>1
  <1>5. CASE after \in (n - l)..n
    <2>1. PICK k \in 0..l : k = after - (n - l)
      <3>1. after - (n - l) \in 0..l  BY <1>1, <1>2, <1>5
      <3> QED  BY <3>1
    <2>2. \A i \in 1..l : i <= k <=> r[i] <= after
      <3> SUFFICES ASSUME NEW i \in 1..l  PROVE i <= k <=> r[i] <= after  OBVIOUS
      <3>1. r[i] = n - l + i  BY <1>1, <1>2
      <3> QED  BY <1>2, <2>1, <3>1
    <2> QED  BY <1>2, <2>1, <2>2
  <1> QED  BY <1>1, <1>2, <1>3, <1>4, <1>5

LEMMA EndIsRecent ==
    ASSUME NEW n \in Nat, NEW r, Recent(r, n), NEW k \in 0..Len(r), NEW p,
           p = SubSeq(r, k + 1, Len(r))
    PROVE  Recent(p, n) /\ Len(p) \in 0..n /\ (p # <<>> => Head(p) = n - Len(p) + 1)
  <1>1. /\ r \in Seq(Nat) /\ Len(r) \in Nat /\ Len(r) <= n
        /\ \A i \in 1..Len(r) : r[i] = n - Len(r) + i
    BY DEF Recent
  <1>2. PICK l \in Nat : l = Len(r) /\ k \in 0..l  BY <1>1
  <1>3. p \in Seq(Nat) /\ Len(p) = l - k /\ \A i \in 1..l - k : p[i] = r[k + i]
    <2>1. CASE k = l
      <3>1. p = <<>>  BY <1>1, <1>2, <2>1
      <3> QED  BY <1>2, <2>1, <3>1
    <2>2. CASE k # l
      <3>1. /\ SubSeq(r, k + 1, l) \in Seq(Nat)
            /\ Len(SubSeq(r, k + 1, l)) = l - k
            /\ \A i \in 1..l - k : SubSeq(r, k + 1, l)[i] = r[k + i]
        BY SMTT(30), <1>1, <1>2, <2>2
      <3> QED  BY <1>2, <3>1
    <2> QED  BY <2>1, <2>2
  <1>4. \A i \in 1..Len(p) : p[i] = n - Len(p) + i
    <2> SUFFICES ASSUME NEW i \in 1..l - k  PROVE p[i] = n - (l - k) + i  BY <1>3
    <2>1. k + i \in 1..l  BY <1>2
    <2> QED  BY <1>1, <1>2, <1>3, <2>1
  <1>5. Len(p) \in 0..n  BY <1>1, <1>2, <1>3
  <1>6. p # <<>> => Head(p) = n - Len(p) + 1
    <2> SUFFICES ASSUME p # <<>>  PROVE Head(p) = n - Len(p) + 1  OBVIOUS
    <2>1. 1 \in 1..Len(p) /\ Head(p) = p[1]  BY <1>3
    <2> QED  BY <1>4, <2>1
  <1>7. Recent(p, n)
    <2>1. p \in Seq(Nat) /\ Len(p) <= n  BY <1>3, <1>5
    <2> QED  BY <1>4, <2>1 DEF Recent
  <1> QED  BY <1>5, <1>6, <1>7

(* What a full or roomy queue is after one more item. *)
LEMMA QueueGoesOn ==
    ASSUME NEW size \in Nat \ {0}, NEW p \in Seq(Nat), NEW m \in Nat, NEW q,
           \/ Len(p) >= size /\ q = Append(Tail(p), m)
           \/ ~(Len(p) >= size) /\ q = Append(p, m)
    PROVE  /\ q \in Seq(Nat) /\ q # <<>> /\ Len(q) \in Nat
           /\ Len(q) = IF Len(p) >= size THEN Len(p) ELSE Len(p) + 1
           /\ q[Len(q)] = m
           /\ \A j \in 1..Len(q) - 1 :
                 IF Len(p) >= size THEN j + 1 \in 1..Len(p) /\ q[j] = p[j + 1]
                 ELSE j \in 1..Len(p) /\ q[j] = p[j]
  <1>1. CASE Len(p) >= size
    <2>1. p # <<>>  BY <1>1
    <2>2. PICK t : t = Tail(p)  OBVIOUS
    <2>3. /\ t \in Seq(Nat) /\ Len(t) = Len(p) - 1 /\ \A j \in 1..Len(t) : t[j] = p[j + 1]
      BY <2>1, <2>2, HeadTailProperties
    <2>4. q = Append(t, m)  BY <1>1, <2>2
    <2>5. /\ q \in Seq(Nat) /\ q # <<>> /\ Len(q) = Len(t) + 1 /\ q[Len(t) + 1] = m
          /\ \A j \in 1..Len(t) : q[j] = t[j]
      BY <2>3, <2>4, AppendProperties
    <2>6. Len(t) \in Nat /\ Len(p) \in Nat /\ Len(q) = Len(p)  BY <2>3, <2>5
    <2>7. \A j \in 1..Len(q) - 1 : j \in 1..Len(t) /\ j + 1 \in 1..Len(p)  BY <2>3, <2>6
    <2>8. \A j \in 1..Len(q) - 1 : q[j] = p[j + 1]  BY <2>3, <2>5, <2>7
    <2>9. q[Len(q)] = m  BY <2>3, <2>5, <2>6
    <2> QED  BY <1>1, <2>5, <2>6, <2>7, <2>8, <2>9
  <1>2. CASE ~(Len(p) >= size)
    <2>1. q = Append(p, m)  BY <1>2
    <2>2. /\ q \in Seq(Nat) /\ q # <<>> /\ Len(q) = Len(p) + 1 /\ q[Len(p) + 1] = m
          /\ \A j \in 1..Len(p) : q[j] = p[j]
      BY <2>1, AppendProperties
    <2> QED  BY <1>2, <2>2
  <1> QED  BY <1>1, <1>2

(* An item that is put wakes the reader. *)
LEMMA WakeIsWhole ==
    ASSUME NEW n \in Nat, NEW r \in Bus!Subscription, InOrder(r, n), Accounted(r, n),
           r.queue # <<>>, r.pc \in {"waiting", "woken"} => r.replay = <<>>,
           r.listed <=> r.state = "open"
    PROVE  Whole(Bus!Wake(r), n)
  <1>1. PICK w : w = Bus!Wake(r)  OBVIOUS
  <1>2. /\ w \in Bus!Subscription /\ w.state = r.state /\ w.listed = r.listed
        /\ w.replay = r.replay /\ w.queue = r.queue /\ w.dropped = r.dropped /\ w.last = r.last
        /\ w.since = r.since /\ w.got = r.got /\ w.reported = r.reported
        /\ w.pc = IF r.pc = "waiting" THEN "woken" ELSE r.pc
    BY <1>1 DEF Bus!Wake, Bus!Subscription
  <1>3. InOrder(w, n) /\ Accounted(w, n)  BY <1>2 DEF InOrder, Accounted
  <1>4. WokenWell(w)  BY <1>2 DEF WokenWell
  <1> QED  BY <1>1, <1>2, <1>3, <1>4 DEF Whole

(* One more event, in the queue or in place of its oldest. *)
LEMMA OfferIsWhole ==
    ASSUME BusQueue \in Nat \ {0}, NEW n \in Nat, NEW r, Whole(r, n), r.state = "open"
    PROVE  Whole(Bus!Offer(r, n + 1), n + 1)
  <1>1. r \in Bus!Subscription /\ r.queue \in Seq(Nat) /\ r.dropped \in Nat
    BY DEF Whole, Bus!Subscription
  <1>0. PICK m \in Nat : m = n + 1  OBVIOUS
  <1>2. PICK q : q = Append(IF Len(r.queue) >= BusQueue THEN Tail(r.queue) ELSE r.queue, m)
    OBVIOUS
  <1>3. PICK e : e = IF Len(r.queue) >= BusQueue THEN r.dropped + 1 ELSE r.dropped  OBVIOUS
  <1>4. /\ q \in Seq(Nat) /\ q # <<>> /\ Len(q) \in Nat
        /\ Len(q) = IF Len(r.queue) >= BusQueue THEN Len(r.queue) ELSE Len(r.queue) + 1
        /\ q[Len(q)] = m
        /\ \A j \in 1..Len(q) - 1 :
              IF Len(r.queue) >= BusQueue
              THEN j + 1 \in 1..Len(r.queue) /\ q[j] = r.queue[j + 1]
              ELSE j \in 1..Len(r.queue) /\ q[j] = r.queue[j]
    <2>1. r.queue \in Seq(Nat) /\ m \in Nat  BY <1>1
    <2>2. PICK p : p = r.queue  OBVIOUS
    <2>3. /\ p \in Seq(Nat)
          /\ \/ Len(p) >= BusQueue /\ q = Append(Tail(p), m)
             \/ ~(Len(p) >= BusQueue) /\ q = Append(p, m)
      BY <1>2, <2>1, <2>2
    <2>4. /\ q \in Seq(Nat) /\ q # <<>> /\ Len(q) \in Nat
          /\ Len(q) = IF Len(p) >= BusQueue THEN Len(p) ELSE Len(p) + 1
          /\ q[Len(q)] = m
          /\ \A j \in 1..Len(q) - 1 :
                IF Len(p) >= BusQueue THEN j + 1 \in 1..Len(p) /\ q[j] = p[j + 1]
                ELSE j \in 1..Len(p) /\ q[j] = p[j]
      BY <2>3, QueueGoesOn
    <2> QED  BY <2>2, <2>4
  <1>5. e \in Nat  BY <1>1, <1>3
  <1>6. PICK g : g = [r EXCEPT !.queue = q]  OBVIOUS
  <1>7. PICK w : w = [g EXCEPT !.dropped = e]  OBVIOUS
  <1>8. Bus!Offer(r, n + 1) = Bus!Wake(w)
    BY <1>0, <1>2, <1>3, <1>6, <1>7 DEF Bus!Offer, Bus!Full
  <1>9. g \in Bus!Subscription /\ g.queue = q  BY <1>1, <1>4, <1>6 DEF Bus!Subscription
  <1>10. /\ g.state = r.state /\ g.listed = r.listed /\ g.replay = r.replay
         /\ g.dropped = r.dropped /\ g.last = r.last /\ g.since = r.since
         /\ g.got = r.got /\ g.reported = r.reported /\ g.pc = r.pc
    BY <1>1, <1>6 DEF Bus!Subscription
  <1>11. /\ w \in Bus!Subscription /\ w.queue = q /\ w.dropped = e
         /\ w.state = r.state /\ w.listed = r.listed /\ w.replay = r.replay
         /\ w.last = r.last /\ w.since = r.since /\ w.got = r.got
         /\ w.reported = r.reported /\ w.pc = r.pc
    BY <1>5, <1>7, <1>9, <1>10 DEF Bus!Subscription
  <1>12. InOrder(w, n + 1)
    <2>1. /\ r.last \in Nat /\ r.replay \in Seq(Nat) /\ InOrder(r, n)
          /\ \A i \in 1..Len(r.replay) : r.replay[i] \in Nat
          /\ \A j \in 1..Len(r.queue) : r.queue[j] \in Nat
      BY SMTT(30), <1>1 DEF Whole, Bus!Subscription
    <2>2. /\ r.last <= n + 1
          /\ \A i \in 1..Len(r.replay) : r.last < r.replay[i] /\ r.replay[i] <= n + 1
          /\ \A i, j \in 1..Len(r.replay) : i < j => r.replay[i] < r.replay[j]
      BY <2>1 DEF InOrder
    <2>3. ASSUME NEW j \in 1..Len(q)
          PROVE  /\ q[j] <= n + 1
                 /\ q[j] # Bus!CLOSED =>
                       r.last < q[j] /\ \A i \in 1..Len(r.replay) : r.replay[i] < q[j]
      <3>1. CASE j = Len(q)  BY <1>0, <1>4, <2>1, <3>1 DEF InOrder
      <3>2. CASE j # Len(q)
        <4>0. j \in 1..Len(q) - 1  BY <1>4, <3>2
        <4>1. PICK k \in 1..Len(r.queue) : q[j] = r.queue[k]
          <5>1. CASE Len(r.queue) >= BusQueue  BY <1>4, <4>0, <5>1
          <5>2. CASE ~(Len(r.queue) >= BusQueue)  BY <1>4, <4>0, <5>2
          <5> QED  BY <5>1, <5>2
        <4>2. /\ r.queue[k] <= n
              /\ r.queue[k] # Bus!CLOSED =>
                    /\ r.last < r.queue[k]
                    /\ \A i \in 1..Len(r.replay) : r.replay[i] < r.queue[k]
          BY <2>1 DEF InOrder
        <4> QED  BY <2>1, <4>1, <4>2
      <3> QED  BY <3>1, <3>2
    <2>4. ASSUME NEW i \in 1..Len(q), NEW j \in 1..Len(q), i < j, q[j] # Bus!CLOSED
          PROVE  q[i] < q[j]
      <3>1. CASE j = Len(q)
        <4>0. i \in 1..Len(q) - 1  BY <1>4, <2>4, <3>1
        <4>1. PICK k \in 1..Len(r.queue) : q[i] = r.queue[k]
          <5>1. CASE Len(r.queue) >= BusQueue  BY <1>4, <4>0, <5>1
          <5>2. CASE ~(Len(r.queue) >= BusQueue)  BY <1>4, <4>0, <5>2
          <5> QED  BY <5>1, <5>2
        <4> QED  BY <1>0, <1>4, <2>1, <3>1, <4>1 DEF InOrder
      <3>2. CASE j # Len(q)
        <4>1. PICK k \in 1..Len(r.queue), l \in 1..Len(r.queue) :
                 k < l /\ q[i] = r.queue[k] /\ q[j] = r.queue[l]
          <5>0. i \in 1..Len(q) - 1 /\ j \in 1..Len(q) - 1
            <6>1. Len(q) \in Nat  BY <1>4
            <6> QED  BY <2>4, <3>2, <6>1
          <5>1. CASE Len(r.queue) >= BusQueue
            <6>1. /\ i + 1 \in 1..Len(r.queue) /\ j + 1 \in 1..Len(r.queue) /\ i + 1 < j + 1
                  /\ q[i] = r.queue[i + 1] /\ q[j] = r.queue[j + 1]
              BY <1>4, <2>4, <5>0, <5>1
            <6> QED  BY <6>1
          <5>2. CASE ~(Len(r.queue) >= BusQueue)
            <6>1. /\ i \in 1..Len(r.queue) /\ j \in 1..Len(r.queue)
                  /\ q[i] = r.queue[i] /\ q[j] = r.queue[j]
              BY <1>4, <5>0, <5>2
            <6> QED  BY <2>4, <6>1
          <5> QED  BY <5>1, <5>2
        <4> QED  BY <2>1, <2>4, <4>1 DEF InOrder
      <3> QED  BY <3>1, <3>2
    <2> QED  BY <1>11, <2>2, <2>3, <2>4 DEF InOrder
  <1>13. Accounted(w, n + 1)
    <2>1. /\ r.got \in Nat /\ Len(r.replay) \in Nat /\ Len(r.queue) \in Nat
          /\ r.reported \in Nat /\ r.since \in Nat
      BY <1>1 DEF Bus!Subscription
    <2>2. r.got + Len(r.replay) + Len(r.queue) + r.dropped + r.reported = n - r.since
      BY DEF Whole, Accounted
    <2>3. Len(q) + e = Len(r.queue) + r.dropped + 1
      <3>1. /\ Len(q) = IF Len(r.queue) >= BusQueue THEN Len(r.queue) ELSE Len(r.queue) + 1
            /\ Len(r.queue) \in Nat /\ r.dropped \in Nat
        BY <1>1, <1>4, <2>1
      <3> QED  BY <1>3, <3>1
    <2>4. e \in Nat /\ Len(q) \in Nat /\ r.dropped \in Nat  BY <1>1, <1>4, <1>5
    <2>5. r.got + Len(r.replay) + Len(q) + e + r.reported = m - r.since
      <3>1. PICK a \in Nat : a = r.got  BY <2>1
      <3>2. PICK b \in Nat : b = Len(r.replay)  BY <2>1
      <3>3. PICK d \in Nat : d = Len(r.queue)  BY <2>1
      <3>4. PICK x \in Nat : x = r.reported  BY <2>1
      <3>5. PICK y \in Nat : y = r.since  BY <2>1
      <3>6. PICK z \in Nat : z = Len(q)  BY <2>4
      <3>7. PICK u \in Nat : u = r.dropped  BY <2>4
      <3>8. a + b + d + u + x = n - y  BY <2>2, <3>1, <3>2, <3>3, <3>4, <3>5, <3>7
      <3>9. z + e = d + u + 1  BY <2>3, <3>3, <3>6, <3>7
      <3>10. a + b + z + e + x = m - y  BY <1>0, <2>4, <3>8, <3>9
      <3> QED  BY <3>1, <3>2, <3>4, <3>5, <3>6, <3>10
    <2> QED  BY <1>0, <1>11, <2>5 DEF Accounted
  <1>14. /\ w.queue # <<>> /\ (w.pc \in {"waiting", "woken"} => w.replay = <<>>)
         /\ (w.listed <=> w.state = "open")
    BY <1>4, <1>11 DEF Whole, WokenWell
  <1>15. n + 1 \in Nat  OBVIOUS
  <1> QED  BY <1>8, <1>11, <1>12, <1>13, <1>14, <1>15, WakeIsWhole

(* The sentinel, in the queue or in place of its oldest item. *)
LEMMA WakeClosedIsWhole ==
    ASSUME BusQueue \in Nat \ {0}, NEW n \in Nat, NEW r, Whole(r, n)
    PROVE  Whole(Bus!WakeClosed(r), n)
  <1>1. r \in Bus!Subscription /\ r.queue \in Seq(Nat)  BY DEF Whole, Bus!Subscription
  <1>2. PICK q : q = Append(IF Len(r.queue) >= BusQueue THEN Tail(r.queue) ELSE r.queue, Bus!CLOSED)
    OBVIOUS
  <1>3. Bus!CLOSED \in Nat /\ Bus!CLOSED = 0  BY DEF Bus!CLOSED
  <1>4. /\ q \in Seq(Nat) /\ q # <<>> /\ Len(q) \in Nat
        /\ q[Len(q)] = Bus!CLOSED
        /\ \A j \in 1..Len(q) - 1 :
              IF Len(r.queue) >= BusQueue
              THEN j + 1 \in 1..Len(r.queue) /\ q[j] = r.queue[j + 1]
              ELSE j \in 1..Len(r.queue) /\ q[j] = r.queue[j]
    <2>1. PICK p : p = r.queue  OBVIOUS
    <2>2. PICK m \in Nat : m = Bus!CLOSED  BY <1>3
    <2>3. /\ p \in Seq(Nat)
          /\ \/ Len(p) >= BusQueue /\ q = Append(Tail(p), m)
             \/ ~(Len(p) >= BusQueue) /\ q = Append(p, m)
      BY <1>1, <1>2, <2>1, <2>2
    <2>4. /\ q \in Seq(Nat) /\ q # <<>> /\ Len(q) \in Nat /\ q[Len(q)] = m
          /\ \A j \in 1..Len(q) - 1 :
                IF Len(p) >= BusQueue THEN j + 1 \in 1..Len(p) /\ q[j] = p[j + 1]
                ELSE j \in 1..Len(p) /\ q[j] = p[j]
      BY SMTT(30), <2>3, QueueGoesOn
    <2> QED  BY <2>1, <2>2, <2>4
  <1>5. PICK f : f = [r EXCEPT !.state = "closed"]  OBVIOUS
  <1>6. PICK g : g = [f EXCEPT !.listed = FALSE]  OBVIOUS
  <1>7. PICK w : w = [g EXCEPT !.queue = q]  OBVIOUS
  <1>8. Bus!WakeClosed(r) = Bus!Wake(w)
    BY <1>2, <1>5, <1>6, <1>7 DEF Bus!WakeClosed, Bus!Full
  <1>9. /\ f \in Bus!Subscription /\ f.state = "closed"
        /\ f.replay = r.replay /\ f.last = r.last /\ f.pc = r.pc
    BY <1>1, <1>5 DEF Bus!Subscription
  <1>10. /\ g \in Bus!Subscription /\ g.state = "closed" /\ ~g.listed
         /\ g.replay = r.replay /\ g.last = r.last /\ g.pc = r.pc
    BY <1>6, <1>9 DEF Bus!Subscription
  <1>11. /\ w \in Bus!Subscription /\ w.state = "closed" /\ ~w.listed /\ w.queue = q
         /\ w.replay = r.replay /\ w.last = r.last /\ w.pc = r.pc
    BY <1>4, <1>7, <1>10 DEF Bus!Subscription
  <1>12. InOrder(w, n)
    <2>1. /\ r.last \in Nat /\ r.replay \in Seq(Nat) /\ InOrder(r, n)
          /\ \A j \in 1..Len(r.queue) : r.queue[j] \in Nat
      BY <1>1 DEF Whole, Bus!Subscription
    <2>2. ASSUME NEW j \in 1..Len(q)
          PROVE  /\ q[j] <= n
                 /\ q[j] # Bus!CLOSED =>
                       r.last < q[j] /\ \A i \in 1..Len(r.replay) : r.replay[i] < q[j]
      <3>1. CASE j = Len(q)  BY <1>3, <1>4, <3>1
      <3>2. CASE j # Len(q)
        <4>0. j \in 1..Len(q) - 1  BY <1>4, <3>2
        <4>1. PICK k \in 1..Len(r.queue) : q[j] = r.queue[k]
          <5>1. CASE Len(r.queue) >= BusQueue  BY <1>4, <4>0, <5>1
          <5>2. CASE ~(Len(r.queue) >= BusQueue)  BY <1>4, <4>0, <5>2
          <5> QED  BY <5>1, <5>2
        <4> QED  BY <2>1, <4>1 DEF InOrder
      <3> QED  BY <3>1, <3>2
    <2>3. ASSUME NEW i \in 1..Len(q), NEW j \in 1..Len(q), i < j, q[j] # Bus!CLOSED
          PROVE  q[i] < q[j]
      <3>1. j # Len(q)  BY <1>4, <2>3
      <3>2. PICK k \in 1..Len(r.queue), l \in 1..Len(r.queue) :
               k < l /\ q[i] = r.queue[k] /\ q[j] = r.queue[l]
        <4>0. i \in 1..Len(q) - 1 /\ j \in 1..Len(q) - 1  BY <1>4, <2>3, <3>1
        <4>1. CASE Len(r.queue) >= BusQueue
          <5>1. /\ i + 1 \in 1..Len(r.queue) /\ j + 1 \in 1..Len(r.queue) /\ i + 1 < j + 1
                /\ q[i] = r.queue[i + 1] /\ q[j] = r.queue[j + 1]
            BY <1>4, <2>3, <4>0, <4>1
          <5> QED  BY <5>1
        <4>2. CASE ~(Len(r.queue) >= BusQueue)
          <5>1. /\ i \in 1..Len(r.queue) /\ j \in 1..Len(r.queue)
                /\ q[i] = r.queue[i] /\ q[j] = r.queue[j]
            BY <1>4, <4>0, <4>2
          <5> QED  BY <2>3, <5>1
        <4> QED  BY <4>1, <4>2
      <3> QED  BY <2>1, <2>3, <3>2 DEF InOrder
    <2> QED  BY <1>11, <2>1, <2>2, <2>3 DEF InOrder
  <1>13. Accounted(w, n)  BY <1>11 DEF Accounted
  <1>14. /\ w.queue # <<>> /\ (w.pc \in {"waiting", "woken"} => w.replay = <<>>)
         /\ (w.listed <=> w.state = "open")
    BY <1>4, <1>11 DEF Whole, WokenWell
  <1> QED  BY <1>8, <1>11, <1>12, <1>13, <1>14, WakeIsWhole

(* A delivery from the replay. *)
LEMMA ReplayIsWhole ==
    ASSUME NEW n \in Nat, NEW r, Whole(r, n), r.state = "open", r.pc = "idle", r.replay # <<>>
    PROVE  Whole([Bus!Delivered(r, Head(r.replay)) EXCEPT !.replay = Tail(@)], n)
  <1>1. /\ r \in Bus!Subscription /\ r.replay \in Seq(Nat) /\ r.queue \in Seq(Nat)
        /\ r.got \in Nat /\ r.last \in Nat
    BY DEF Whole, Bus!Subscription
  <1>2. PICK m \in Nat : m = Head(r.replay)  BY <1>1
  <1>3. PICK t : t = Tail(r.replay)  OBVIOUS
  <1>4. /\ t \in Seq(Nat) /\ Len(t) = Len(r.replay) - 1 /\ m = r.replay[1] /\ Len(r.replay) \in Nat
        /\ \A i \in 1..Len(t) : t[i] = r.replay[i + 1]
    BY <1>1, <1>2, <1>3, HeadTailProperties
  <1>5. PICK f : f = [r EXCEPT !.last = m]  OBVIOUS
  <1>0. PICK c \in Nat : c = r.got + 1  BY <1>1
  <1>6. PICK g : g = [f EXCEPT !.got = c]  OBVIOUS
  <1>7. PICK h : h = [g EXCEPT !.pc = "idle"]  OBVIOUS
  <1>8. PICK w : w = [h EXCEPT !.replay = t]  OBVIOUS
  <1>9. /\ f \in Bus!Subscription /\ f.last = m /\ f.got = r.got /\ f.replay = r.replay
        /\ f.queue = r.queue /\ f.state = r.state /\ f.listed = r.listed /\ f.dropped = r.dropped
        /\ f.since = r.since /\ f.reported = r.reported
    BY <1>1, <1>5 DEF Bus!Subscription
  <1>10. /\ g \in Bus!Subscription /\ g.last = m /\ g.got = c /\ g.replay = r.replay
         /\ g.queue = r.queue /\ g.state = r.state /\ g.listed = r.listed
         /\ g.dropped = r.dropped /\ g.since = r.since /\ g.reported = r.reported
    BY <1>1, <1>6, <1>9 DEF Bus!Subscription
  <1>11. /\ h \in Bus!Subscription /\ h.last = m /\ h.got = c /\ h.replay = r.replay
         /\ h.queue = r.queue /\ h.state = r.state /\ h.listed = r.listed
         /\ h.dropped = r.dropped /\ h.since = r.since /\ h.reported = r.reported /\ h.pc = "idle"
    BY <1>7, <1>10 DEF Bus!Subscription
  <1>12. /\ w \in Bus!Subscription /\ w.last = m /\ w.got = c /\ w.replay = t
         /\ w.queue = r.queue /\ w.state = r.state /\ w.listed = r.listed
         /\ w.dropped = r.dropped /\ w.since = r.since /\ w.reported = r.reported /\ w.pc = "idle"
    BY <1>4, <1>8, <1>11 DEF Bus!Subscription
  <1>13. [Bus!Delivered(r, Head(r.replay)) EXCEPT !.replay = Tail(@)] = w
    <2>1. Bus!Delivered(r, Head(r.replay)) = h
      BY <1>0, <1>1, <1>2, <1>5, <1>6, <1>7, <1>9 DEF Bus!Delivered
    <2> QED  BY <1>3, <1>8, <1>11, <2>1
  <1>14. InOrder(w, n)
    <2>1. /\ InOrder(r, n) /\ \A i \in 1..Len(r.replay) : r.replay[i] \in Nat
          /\ \A j \in 1..Len(r.queue) : r.queue[j] \in Nat
      BY SMTT(30), <1>1 DEF Whole
    <2>2. m <= n /\ 1 \in 1..Len(r.replay)  BY <1>1, <1>4, <2>1 DEF InOrder
    <2>3. ASSUME NEW i \in 1..Len(t)  PROVE m < t[i] /\ t[i] <= n
      <3>1. i + 1 \in 1..Len(r.replay) /\ 1 < i + 1 /\ t[i] = r.replay[i + 1]
        <4>1. PICK a \in Nat, b \in Nat : a = Len(t) /\ b = Len(r.replay) /\ a = b - 1
          BY <1>4
        <4>2. i \in Int /\ 1 <= i /\ i <= a  BY <4>1
        <4>3. i + 1 \in 1..b /\ 1 < i + 1  BY <4>1, <4>2
        <4>4. t[i] = r.replay[i + 1]  BY <1>4
        <4> QED  BY <4>1, <4>3, <4>4
      <3> QED  BY <1>4, <2>1, <2>2, <3>1 DEF InOrder
    <2>4. ASSUME NEW i \in 1..Len(t), NEW j \in 1..Len(t), i < j  PROVE t[i] < t[j]
      <3>1. /\ i + 1 \in 1..Len(r.replay) /\ j + 1 \in 1..Len(r.replay) /\ i + 1 < j + 1
            /\ t[i] = r.replay[i + 1] /\ t[j] = r.replay[j + 1]
        <4>1. PICK a \in Nat, b \in Nat : a = Len(t) /\ b = Len(r.replay) /\ a = b - 1
          BY <1>4
        <4>2. i + 1 \in 1..b /\ j + 1 \in 1..b /\ i + 1 < j + 1  BY <2>4, <4>1
        <4>3. t[i] = r.replay[i + 1] /\ t[j] = r.replay[j + 1]  BY <1>4
        <4> QED  BY <4>1, <4>2, <4>3
      <3> QED  BY <2>1, <3>1 DEF InOrder
    <2>5. ASSUME NEW j \in 1..Len(r.queue)
          PROVE  /\ r.queue[j] <= n
                 /\ r.queue[j] # Bus!CLOSED =>
                       m < r.queue[j] /\ \A i \in 1..Len(t) : t[i] < r.queue[j]
      <3>1. /\ r.queue[j] <= n
            /\ r.queue[j] # Bus!CLOSED => \A i \in 1..Len(r.replay) : r.replay[i] < r.queue[j]
        BY <2>1 DEF InOrder
      <3>2. \A i \in 1..Len(t) : i + 1 \in 1..Len(r.replay)  BY <1>4
      <3> QED  BY <1>4, <2>2, <3>1, <3>2
    <2>6. \A i, j \in 1..Len(r.queue) :
             i < j /\ r.queue[j] # Bus!CLOSED => r.queue[i] < r.queue[j]
      BY <2>1 DEF InOrder
    <2> QED  BY <1>12, <2>2, <2>3, <2>4, <2>5, <2>6 DEF InOrder
  <1>15. Accounted(w, n)
    <2>1. Len(r.queue) \in Nat /\ r.dropped \in Nat /\ r.reported \in Nat /\ r.since \in Nat
      BY <1>1 DEF Bus!Subscription
    <2>2. r.got + Len(r.replay) + Len(r.queue) + r.dropped + r.reported = n - r.since
      BY DEF Whole, Accounted
    <2>3. c + Len(t) = r.got + Len(r.replay) /\ Len(t) \in Nat
      <3>1. Len(t) = Len(r.replay) - 1 /\ Len(r.replay) \in Nat  BY <1>4
      <3>2. r.got \in Nat  BY <1>1
      <3>3. t \in Seq(Nat)  BY <1>4
      <3>4. Len(t) \in Nat  BY <3>3
      <3>5. c + Len(t) = r.got + Len(r.replay)  BY <1>0, <3>1, <3>2
      <3> QED  BY <3>4, <3>5
    <2>4. Len(r.replay) \in Nat  BY <1>4
    <2>5. c + Len(t) + Len(r.queue) + r.dropped + r.reported = n - r.since
      BY <1>0, <1>1, <2>1, <2>2, <2>3, <2>4
    <2> QED  BY <1>12, <2>5 DEF Accounted
  <1>16. WokenWell(w)  BY <1>12 DEF Whole, WokenWell
  <1> QED  BY <1>12, <1>13, <1>14, <1>15, <1>16 DEF Whole

(* A delivery from the queue, when the replay is over. *)
LEMMA QueueIsWhole ==
    ASSUME NEW n \in Nat, NEW r, Whole(r, n), r.replay = <<>>, r.queue # <<>>,
           Head(r.queue) # Bus!CLOSED
    PROVE  Whole([Bus!Delivered(r, Head(r.queue)) EXCEPT !.queue = Tail(@)], n)
  <1>1. /\ r \in Bus!Subscription /\ r.replay \in Seq(Nat) /\ r.queue \in Seq(Nat)
        /\ r.got \in Nat /\ r.last \in Nat
    BY DEF Whole, Bus!Subscription
  <1>2. PICK m \in Nat : m = Head(r.queue)  BY <1>1
  <1>3. PICK t : t = Tail(r.queue)  OBVIOUS
  <1>4. /\ t \in Seq(Nat) /\ Len(t) = Len(r.queue) - 1 /\ m = r.queue[1] /\ Len(r.queue) \in Nat
        /\ \A i \in 1..Len(t) : t[i] = r.queue[i + 1]
    BY <1>1, <1>2, <1>3, HeadTailProperties
  <1>5. PICK f : f = [r EXCEPT !.last = m]  OBVIOUS
  <1>0. PICK c \in Nat : c = r.got + 1  BY <1>1
  <1>6. PICK g : g = [f EXCEPT !.got = c]  OBVIOUS
  <1>7. PICK h : h = [g EXCEPT !.pc = "idle"]  OBVIOUS
  <1>8. PICK w : w = [h EXCEPT !.queue = t]  OBVIOUS
  <1>9. /\ f \in Bus!Subscription /\ f.last = m /\ f.got = r.got /\ f.replay = r.replay
        /\ f.queue = r.queue /\ f.state = r.state /\ f.listed = r.listed /\ f.dropped = r.dropped
        /\ f.since = r.since /\ f.reported = r.reported
    BY <1>1, <1>5 DEF Bus!Subscription
  <1>10. /\ g \in Bus!Subscription /\ g.last = m /\ g.got = c /\ g.replay = r.replay
         /\ g.queue = r.queue /\ g.state = r.state /\ g.listed = r.listed
         /\ g.dropped = r.dropped /\ g.since = r.since /\ g.reported = r.reported
    BY <1>1, <1>6, <1>9 DEF Bus!Subscription
  <1>11. /\ h \in Bus!Subscription /\ h.last = m /\ h.got = c /\ h.replay = r.replay
         /\ h.queue = r.queue /\ h.state = r.state /\ h.listed = r.listed
         /\ h.dropped = r.dropped /\ h.since = r.since /\ h.reported = r.reported /\ h.pc = "idle"
    BY <1>7, <1>10 DEF Bus!Subscription
  <1>12. /\ w \in Bus!Subscription /\ w.last = m /\ w.got = c /\ w.replay = r.replay
         /\ w.queue = t /\ w.state = r.state /\ w.listed = r.listed
         /\ w.dropped = r.dropped /\ w.since = r.since /\ w.reported = r.reported /\ w.pc = "idle"
    BY <1>4, <1>8, <1>11 DEF Bus!Subscription
  <1>13. [Bus!Delivered(r, Head(r.queue)) EXCEPT !.queue = Tail(@)] = w
    <2>1. Bus!Delivered(r, Head(r.queue)) = h
      BY <1>0, <1>1, <1>2, <1>5, <1>6, <1>7, <1>9 DEF Bus!Delivered
    <2> QED  BY <1>3, <1>8, <1>11, <2>1
  <1>14. InOrder(w, n)
    <2>1. /\ InOrder(r, n) /\ \A j \in 1..Len(r.queue) : r.queue[j] \in Nat
          /\ Len(r.replay) = 0
      BY <1>1 DEF Whole
    <2>2. m <= n /\ 1 \in 1..Len(r.queue)  BY SMTT(30), <1>1, <1>4, <2>1 DEF InOrder
    <2>3. \A j \in 1..Len(t) : t[j] <= n /\ (t[j] # Bus!CLOSED => m < t[j])
      BY SMTT(30), <1>4, <2>1, <2>2 DEF InOrder
    <2>4. ASSUME NEW i \in 1..Len(t), NEW j \in 1..Len(t), i < j, t[j] # Bus!CLOSED
          PROVE  t[i] < t[j]
      <3>1. i + 1 \in 1..Len(r.queue) /\ j + 1 \in 1..Len(r.queue) /\ i + 1 < j + 1
        BY <1>4, <2>4
      <3> QED  BY <1>4, <2>1, <2>4, <3>1 DEF InOrder
    <2> QED  BY <1>12, <2>1, <2>2, <2>3, <2>4 DEF InOrder
  <1>15. Accounted(w, n)
    <2>1. Len(r.replay) = 0 /\ r.dropped \in Nat /\ r.reported \in Nat /\ r.since \in Nat
      BY <1>1 DEF Bus!Subscription
    <2>2. r.state = "open" =>
             r.got + Len(r.replay) + Len(r.queue) + r.dropped + r.reported = n - r.since
      BY DEF Whole, Accounted
    <2>3. c + Len(t) = r.got + Len(r.queue) /\ Len(t) \in Nat
      <3>1. Len(t) = Len(r.queue) - 1 /\ Len(r.queue) \in Nat  BY <1>4
      <3>2. r.got \in Nat  BY <1>1
      <3>3. t \in Seq(Nat)  BY <1>4
      <3>4. Len(t) \in Nat  BY <3>3
      <3>5. c + Len(t) = r.got + Len(r.queue)  BY <1>0, <3>1, <3>2
      <3> QED  BY <3>4, <3>5
    <2>4. Len(r.queue) \in Nat /\ r.replay = <<>>  BY <1>4
    <2>5. r.state = "open" =>
             c + Len(r.replay) + Len(t) + r.dropped + r.reported = n - r.since
      BY <1>0, <1>1, <2>1, <2>2, <2>3, <2>4
    <2> QED  BY <1>12, <2>5 DEF Accounted
  <1>16. WokenWell(w)  BY <1>12 DEF Whole, WokenWell
  <1> QED  BY <1>12, <1>13, <1>14, <1>15, <1>16 DEF Whole

(* The other things a reader does, and a new subscription. *)
LEMMA ReaderIsWhole ==
    ASSUME NEW n \in Nat, NEW r, Whole(r, n)
    PROVE  /\ r.state = "open" /\ r.pc = "idle" /\ r.dropped > 0 =>
                 Whole([r EXCEPT !.dropped = 0, !.reported = @ + r.dropped], n)
           /\ r.state = "open" /\ r.replay = <<>> /\ r.queue = <<>> =>
                 Whole([r EXCEPT !.pc = "waiting"], n)
           /\ Whole([r EXCEPT !.pc = "ended"], n) /\ Whole([r EXCEPT !.pc = "idle"], n)
  <1>1. r \in Bus!Subscription  BY DEF Whole
  <1>2. ASSUME r.dropped > 0
        PROVE  Whole([r EXCEPT !.dropped = 0, !.reported = @ + r.dropped], n)
    <2>1. /\ r.dropped \in Nat /\ r.reported \in Nat /\ r.got \in Nat /\ r.since \in Nat
          /\ r.replay \in Seq(Nat) /\ r.queue \in Seq(Nat)
      BY <1>1 DEF Bus!Subscription
    <2>2. PICK k \in Nat : k = r.reported + r.dropped  BY <2>1
    <2>3. PICK f : f = [r EXCEPT !.dropped = 0]  OBVIOUS
    <2>4. PICK w : w = [f EXCEPT !.reported = k]  OBVIOUS
    <2>5. /\ f \in Bus!Subscription /\ f.dropped = 0 /\ f.state = r.state /\ f.listed = r.listed
          /\ f.replay = r.replay /\ f.queue = r.queue /\ f.last = r.last /\ f.pc = r.pc
          /\ f.got = r.got /\ f.since = r.since
      BY <1>1, <2>3 DEF Bus!Subscription
    <2>6. /\ w \in Bus!Subscription /\ w.dropped = 0 /\ w.state = r.state /\ w.listed = r.listed
          /\ w.replay = r.replay /\ w.queue = r.queue /\ w.last = r.last /\ w.pc = r.pc
          /\ w.got = r.got /\ w.since = r.since /\ w.reported = k
      BY <2>4, <2>5 DEF Bus!Subscription
    <2>7. w = [r EXCEPT !.dropped = 0, !.reported = @ + r.dropped]  BY <2>2, <2>3, <2>4
    <2>8. InOrder(w, n) /\ WokenWell(w)  BY <2>6 DEF Whole, InOrder, WokenWell
    <2>9. Accounted(w, n)
      <3>1. r.state = "open" =>
               r.got + Len(r.replay) + Len(r.queue) + r.dropped + r.reported = n - r.since
        BY DEF Whole, Accounted
      <3>2. Len(r.replay) \in Nat /\ Len(r.queue) \in Nat  BY <2>1
      <3>3. r.state = "open" => r.got + Len(r.replay) + Len(r.queue) + 0 + k = n - r.since
        <4>1. PICK a \in Nat : a = r.got  BY <2>1
        <4>2. PICK b \in Nat : b = Len(r.replay)  BY <3>2
        <4>3. PICK c \in Nat : c = Len(r.queue)  BY <3>2
        <4>4. PICK d \in Nat : d = r.dropped  BY <2>1
        <4>5. PICK e \in Nat : e = r.reported  BY <2>1
        <4>6. r.state = "open" => a + b + c + d + e = n - r.since
          BY <3>1, <4>1, <4>2, <4>3, <4>4, <4>5
        <4>7. a + b + c + 0 + k = a + b + c + d + e  BY <2>2, <4>4, <4>5
        <4> QED  BY <4>1, <4>2, <4>3, <4>6, <4>7
      <3> QED  BY <2>6, <3>3 DEF Accounted
    <2> QED  BY <2>6, <2>7, <2>8, <2>9 DEF Whole
  <1>3. ASSUME NEW x \in {"idle", "waiting", "ended"},
               x = "waiting" => r.state = "open" /\ r.replay = <<>> /\ r.queue = <<>>
        PROVE  Whole([r EXCEPT !.pc = x], n)
    <2>1. PICK w : w = [r EXCEPT !.pc = x]  OBVIOUS
    <2>2. /\ w \in Bus!Subscription /\ w.dropped = r.dropped /\ w.state = r.state
          /\ w.listed = r.listed /\ w.replay = r.replay /\ w.queue = r.queue /\ w.last = r.last
          /\ w.pc = x /\ w.got = r.got /\ w.since = r.since /\ w.reported = r.reported
      BY <1>1, <2>1 DEF Bus!Subscription
    <2>3. InOrder(w, n) /\ Accounted(w, n)  BY <2>2 DEF Whole, InOrder, Accounted
    <2>4. WokenWell(w)  BY <1>3, <2>2 DEF Whole, WokenWell
    <2> QED  BY <2>1, <2>2, <2>3, <2>4 DEF Whole
  <1> QED  BY <1>2, <1>3

LEMMA SubscribeIsWhole ==
    ASSUME BusInv, NEW after \in Nat, NEW p, p = Bus!Replay(after),
           NEW from, from = IF p = <<>> THEN busSequence ELSE Head(p) - 1, NEW r,
           r = [state |-> "open", listed |-> TRUE, replay |-> p, queue |-> <<>>, dropped |-> 0,
                last |-> from, pc |-> "idle", since |-> from, got |-> 0, reported |-> 0]
    PROVE  Whole(r, busSequence)
  <1>1. busSequence \in Nat /\ Recent(busRetained, busSequence)  BY DEF BusInv
  <1>2. /\ p \in Seq(Nat) /\ Len(p) \in 0..busSequence /\ busSequence \in Nat
        /\ \A i \in 1..Len(p) : p[i] = busSequence - Len(p) + i
        /\ p # <<>> => Head(p) = busSequence - Len(p) + 1
    <2>0. PICK old : old = CHOOSE k \in 0..Len(busRetained) :
                              \A i \in 1..Len(busRetained) : i <= k <=> busRetained[i] <= after
      OBVIOUS
    <2>1. p = SubSeq(busRetained, old + 1, Len(busRetained))  BY <2>0 DEF Bus!Replay
    <2>2. Recent(p, busSequence) /\ Len(p) \in 0..busSequence
          /\ (p # <<>> => Head(p) = busSequence - Len(p) + 1)
      <3>1. \E k \in 0..Len(busRetained) :
               \A i \in 1..Len(busRetained) : i <= k <=> busRetained[i] <= after
        BY <1>1, OldOnesComeFirst
      <3>2. old \in 0..Len(busRetained)  BY <2>0, <3>1
      <3> QED  BY <1>1, <2>1, <3>2, EndIsRecent
    <2> QED  BY <1>1, <2>2 DEF Recent
  <1>3. PICK n \in Nat : n = Len(p)  BY <1>2
  <1>4. PICK start \in Nat : start = busSequence - n
    <2>1. busSequence - n \in Nat  BY <1>2, <1>3
    <2> QED  BY <2>1
  <1>5. start = IF p = <<>> THEN busSequence ELSE Head(p) - 1
    <2>1. CASE p = <<>>  BY <1>2, <1>3, <1>4, <2>1
    <2>2. CASE p # <<>>
      <3>1. Head(p) = busSequence - n + 1  BY <1>2, <1>3, <2>2
      <3> QED  BY <1>2, <1>4, <2>2, <3>1
    <2> QED  BY <2>1, <2>2
  <1>6. r = [state |-> "open", listed |-> TRUE, replay |-> p, queue |-> <<>>, dropped |-> 0,
             last |-> start, pc |-> "idle", since |-> start, got |-> 0, reported |-> 0]
    BY <1>5
  <1>7. /\ r.state = "open" /\ r.listed /\ r.replay = p /\ r.queue = <<>> /\ r.dropped = 0
        /\ r.last = start /\ r.pc = "idle" /\ r.since = start /\ r.got = 0 /\ r.reported = 0
    BY <1>6
  <1>8. r \in Bus!Subscription
    <2>1. <<>> \in Seq(Nat) /\ 0 \in Nat  OBVIOUS
    <2> QED  BY <1>2, <1>6, <2>1 DEF Bus!Subscription
  <1>9. InOrder(r, busSequence)
    <2>1. start <= busSequence  BY <1>2, <1>3, <1>4
    <2>2. \A i \in 1..Len(p) : start < p[i] /\ p[i] <= busSequence
      BY <1>2, <1>3, <1>4
    <2>3. \A i, j \in 1..Len(p) : i < j => p[i] < p[j]  BY <1>2, <1>3
    <2>4. Len(r.queue) = 0  BY <1>7
    <2> QED  BY <1>7, <2>1, <2>2, <2>3, <2>4 DEF InOrder
  <1>10. Accounted(r, busSequence)
    <2>1. Len(r.queue) = 0  BY <1>7
    <2>2. 0 + n + 0 + 0 + 0 = busSequence - start  BY <1>2, <1>3, <1>4
    <2> QED  BY <1>3, <1>7, <2>1, <2>2 DEF Accounted
  <1>11. WokenWell(r)  BY <1>7 DEF WokenWell
  <1> QED  BY <1>8, <1>9, <1>10, <1>11 DEF Whole

(* What a step does to the subscriptions. *)
LEMMA SubscriptionsStayWhole ==
    ASSUME BusInv, NEW n \in Nat, busSequence' = n, Recent(busRetained', n),
           DOMAIN subscription' = BusSub, \A s \in BusSub : Whole(subscription'[s], n)
    PROVE  BusInv'
  BY DEF BusInv, Recent

LEMMA ReadIsWhole ==
    ASSUME BusInv, NEW s \in BusSub, NEW r, Whole(r, busSequence), Bus!Reads(s, r)
    PROVE  BusInv'
  <1>1. /\ subscription' = [subscription EXCEPT ![s] = r]
        /\ busSequence' = busSequence /\ busRetained' = busRetained
    BY DEF Bus!Reads
  <1>2. DOMAIN subscription' = BusSub /\ \A d \in BusSub : Whole(subscription'[d], busSequence)
    BY <1>1 DEF BusInv
  <1> QED  BY <1>1, <1>2 DEF BusInv, Recent

LEMMA EmitStep ==
    ASSUME BusQueue \in Nat \ {0}, BusBuffer \in Nat \ {0}, BusInv, Bus!Emit
    PROVE  BusInv'
  <1>1. /\ busSequence' = busSequence + 1
        /\ \/ Len(busRetained) >= BusBuffer /\ busRetained' = Append(Tail(busRetained), busSequence + 1)
           \/ ~(Len(busRetained) >= BusBuffer) /\ busRetained' = Append(busRetained, busSequence + 1)
        /\ subscription' = [s \in BusSub |-> IF subscription[s].listed
                                             THEN Bus!Offer(subscription[s], busSequence + 1)
                                             ELSE subscription[s]]
    BY DEF Bus!Emit
  <1>2. busSequence \in Nat /\ Recent(busRetained, busSequence)  BY DEF BusInv
  <1>3. PICK n \in Nat : n = busSequence + 1  BY <1>2
  <1>4. PICK e : e = busRetained'  OBVIOUS
  <1>5. Recent(e, n)
    <2>1. PICK p : p = busRetained  OBVIOUS
    <2>2. \/ Len(p) >= BusBuffer /\ e = Append(Tail(p), busSequence + 1)
          \/ ~(Len(p) >= BusBuffer) /\ e = Append(p, busSequence + 1)
      BY <1>1, <1>4, <2>1
    <2>3. Recent(p, busSequence)  BY <1>2, <2>1
    <2>4. Recent(e, busSequence + 1)  BY <1>2, <2>2, <2>3, OneMoreIsRecent
    <2> QED  BY <1>3, <2>4
  <1>6. ASSUME NEW s \in BusSub  PROVE Whole(subscription'[s], n)
    <2>1. PICK r : r = subscription[s]  OBVIOUS
    <2>2. Whole(r, busSequence) /\ (r.listed <=> r.state = "open")
      BY <2>1 DEF BusInv, Whole, WokenWell
    <2>3. CASE r.listed
      <3>1. subscription'[s] = Bus!Offer(r, busSequence + 1)  BY <1>1, <2>1, <2>3
      <3>2. Whole(Bus!Offer(r, busSequence + 1), busSequence + 1)
        BY <1>2, <2>2, <2>3, OfferIsWhole
      <3> QED  BY <1>3, <3>1, <3>2
    <2>4. CASE ~r.listed
      <3>1. subscription'[s] = r  BY <1>1, <2>1, <2>4
      <3>2. /\ r \in Bus!Subscription /\ r.last \in Nat
            /\ \A i \in 1..Len(r.replay) : r.replay[i] \in Nat
            /\ \A i \in 1..Len(r.queue) : r.queue[i] \in Nat
        BY SMTT(30), <2>2 DEF Whole, Bus!Subscription
      <3>3. InOrder(r, n)  BY <1>2, <1>3, <2>2, <3>2 DEF Whole, InOrder
      <3>4. Accounted(r, n)  BY <2>2, <2>4 DEF Accounted
      <3> QED  BY <2>2, <3>1, <3>3, <3>4 DEF Whole
    <2> QED  BY <2>3, <2>4
  <1>7. DOMAIN subscription' = BusSub  BY <1>1
  <1> QED  BY <1>1, <1>2, <1>3, <1>4, <1>5, <1>6, <1>7, SubscriptionsStayWhole

LEMMA ReaderStep ==
    ASSUME BusQueue \in Nat \ {0}, BusInv, NEW s \in BusSub,
           Bus!Receive(s) \/ Bus!CancelReceive(s) \/ Bus!CloseSubscription(s)
    PROVE  BusInv'
  <1>1. PICK r : r = subscription[s]  OBVIOUS
  <1>2. PICK n \in Nat : n = busSequence  BY DEF BusInv
  <1>3. Whole(r, n) /\ WokenWell(r)  BY <1>1, <1>2 DEF BusInv, Whole
  <1>4. CASE Bus!FromReplay(s)
    BY <1>1, <1>2, <1>3, <1>4, ReplayIsWhole, ReadIsWhole DEF Bus!FromReplay
  <1>5. CASE Bus!Overflow(s)
    BY <1>1, <1>2, <1>3, <1>5, ReaderIsWhole, ReadIsWhole DEF Bus!Overflow
  <1>6. CASE Bus!FromQueue(s)
    <2>1. r.replay = <<>> /\ r.queue # <<>> /\ Head(r.queue) # Bus!CLOSED
      BY <1>1, <1>3, <1>6 DEF Bus!FromQueue, WokenWell
    <2>2. Whole([Bus!Delivered(r, Head(r.queue)) EXCEPT !.queue = Tail(@)], n)
      BY <1>3, <2>1, QueueIsWhole
    <2> QED  BY <1>1, <1>2, <1>6, <2>2, ReadIsWhole DEF Bus!FromQueue
  <1>7. CASE Bus!Wait(s)
    BY <1>1, <1>2, <1>3, <1>7, ReaderIsWhole, ReadIsWhole DEF Bus!Wait
  <1>8. CASE Bus!Ends(s)
    BY <1>1, <1>2, <1>3, <1>8, ReaderIsWhole, ReadIsWhole DEF Bus!Ends
  <1>9. CASE Bus!CancelReceive(s)
    BY <1>1, <1>2, <1>3, <1>9, ReaderIsWhole, ReadIsWhole DEF Bus!CancelReceive
  <1>10. CASE Bus!CloseSubscription(s)
    BY <1>1, <1>2, <1>3, <1>10, WakeClosedIsWhole, ReadIsWhole DEF Bus!CloseSubscription
  <1> QED  BY <1>4, <1>5, <1>6, <1>7, <1>8, <1>9, <1>10 DEF Bus!Receive

LEMMA CloseBusStep ==
    ASSUME BusQueue \in Nat \ {0}, BusInv, Bus!CloseBus  PROVE BusInv'
  <1>1. /\ busSequence' = busSequence /\ busRetained' = busRetained
        /\ subscription' = [s \in BusSub |-> IF subscription[s].listed
                                             THEN Bus!WakeClosed(subscription[s])
                                             ELSE subscription[s]]
    BY DEF Bus!CloseBus
  <1>2. PICK n \in Nat : n = busSequence  BY DEF BusInv
  <1>3. ASSUME NEW s \in BusSub  PROVE Whole(subscription'[s], n)
    <2>1. Whole(subscription[s], n)  BY <1>2 DEF BusInv
    <2>2. Whole(Bus!WakeClosed(subscription[s]), n)  BY <2>1, WakeClosedIsWhole
    <2> QED  BY <1>1, <2>1, <2>2
  <1>4. DOMAIN subscription' = BusSub  BY <1>1
  <1> QED  BY <1>1, <1>2, <1>3, <1>4 DEF BusInv, Recent

LEMMA SubscribeStep ==
    ASSUME BusInv, NEW s \in BusSub, NEW after \in Nat, Bus!Subscribe(s, after)
    PROVE  BusInv'
  <1>1. PICK p : p = Bus!Replay(after)  OBVIOUS
  <1>2. PICK start : start = IF p = <<>> THEN busSequence ELSE Head(p) - 1  OBVIOUS
  <1>3. PICK r :
           r = [state |-> "open", listed |-> TRUE, replay |-> p, queue |-> <<>>, dropped |-> 0,
                last |-> start, pc |-> "idle", since |-> start, got |-> 0, reported |-> 0]
    OBVIOUS
  <1>4. Bus!Reads(s, r)
    <2>1. r = [Bus!NewSubscription EXCEPT !.state = "open", !.listed = TRUE, !.replay = p,
                                          !.last = start, !.since = start]
      <3>1. PICK a : a = [Bus!NewSubscription EXCEPT !.state = "open"]  OBVIOUS
      <3>2. PICK b : b = [a EXCEPT !.listed = TRUE]  OBVIOUS
      <3>3. PICK c : c = [b EXCEPT !.replay = p]  OBVIOUS
      <3>4. PICK d : d = [c EXCEPT !.last = start]  OBVIOUS
      <3>5. PICK e : e = [d EXCEPT !.since = start]  OBVIOUS
      <3>6. a = [state |-> "open", listed |-> FALSE, replay |-> <<>>, queue |-> <<>>,
                 dropped |-> 0, last |-> 0, pc |-> "idle", since |-> 0, got |-> 0, reported |-> 0]
        BY <3>1 DEF Bus!NewSubscription
      <3>7. b = [state |-> "open", listed |-> TRUE, replay |-> <<>>, queue |-> <<>>,
                 dropped |-> 0, last |-> 0, pc |-> "idle", since |-> 0, got |-> 0, reported |-> 0]
        BY <3>2, <3>6
      <3>8. c = [state |-> "open", listed |-> TRUE, replay |-> p, queue |-> <<>>,
                 dropped |-> 0, last |-> 0, pc |-> "idle", since |-> 0, got |-> 0, reported |-> 0]
        BY <3>3, <3>7
      <3>9. d = [state |-> "open", listed |-> TRUE, replay |-> p, queue |-> <<>>, dropped |-> 0,
                 last |-> start, pc |-> "idle", since |-> 0, got |-> 0, reported |-> 0]
        BY <3>4, <3>8
      <3>10. e = [state |-> "open", listed |-> TRUE, replay |-> p, queue |-> <<>>, dropped |-> 0,
                 last |-> start, pc |-> "idle", since |-> start, got |-> 0, reported |-> 0]
        BY <3>5, <3>9
      <3>11. e = [Bus!NewSubscription EXCEPT !.state = "open", !.listed = TRUE, !.replay = p,
                                            !.last = start, !.since = start]
        BY <3>1, <3>2, <3>3, <3>4, <3>5
      <3> QED  BY <1>3, <3>10, <3>11
    <2>2. subscription' = [subscription EXCEPT ![s] =
             [Bus!NewSubscription EXCEPT !.state = "open", !.listed = TRUE, !.replay = p,
                                         !.last = start, !.since = start]]
      BY <1>1, <1>2 DEF Bus!Subscribe
    <2>3. subscription' = [subscription EXCEPT ![s] = r]  BY <2>1, <2>2
    <2> QED  BY <2>3 DEF Bus!Subscribe, Bus!Reads
  <1>5. Whole(r, busSequence)  BY <1>1, <1>2, <1>3, SubscribeIsWhole
  <1> QED  BY <1>4, <1>5, ReadIsWhole

(* Whatever a subscription hands out is the whole stream from where it     *)
(* started, in order, with a gap only where a loss is counted and will be  *)
(* reported, for any number of events, readers and sizes of the buffers    *)
(* (EventBus.emit, EventSubscription.receive, _offer).                     *)
THEOREM StreamsAreWhole ==
    ASSUME BusQueue \in Nat \ {0}, BusBuffer \in Nat \ {0}, BusEvents \in Nat
    PROVE  Bus!BusSpec => []BusStreamIsWhole
  <1>1. Bus!BusInit => BusInv
    <2> SUFFICES ASSUME Bus!BusInit  PROVE BusInv  OBVIOUS
    <2>1. /\ busSequence = 0 /\ busRetained = <<>>
          /\ subscription = [s \in BusSub |-> Bus!NewSubscription]
      BY DEF Bus!BusInit
    <2>2. PICK r : r = Bus!NewSubscription  OBVIOUS
    <2>3. /\ r = [state |-> "none", listed |-> FALSE, replay |-> <<>>, queue |-> <<>>,
                  dropped |-> 0, last |-> 0, pc |-> "idle", since |-> 0, got |-> 0, reported |-> 0]
      BY <2>2 DEF Bus!NewSubscription
    <2>4. r \in Bus!Subscription
      <3>1. <<>> \in Seq(Nat) /\ 0 \in Nat  OBVIOUS
      <3> QED  BY <2>3, <3>1 DEF Bus!Subscription
    <2>5. /\ Len(r.replay) = 0 /\ Len(r.queue) = 0 /\ r.last = 0 /\ r.state = "none"
          /\ r.pc = "idle" /\ ~r.listed
      BY <2>3
    <2>6. InOrder(r, 0) /\ Accounted(r, 0) /\ WokenWell(r)
      BY <2>5 DEF InOrder, Accounted, WokenWell
    <2>7. Recent(busRetained, 0)
      <3>1. busRetained \in Seq(Nat) /\ Len(busRetained) = 0  BY <2>1
      <3> QED  BY <3>1 DEF Recent
    <2> QED  BY <2>1, <2>2, <2>4, <2>6, <2>7 DEF BusInv, Whole
  <1>2. BusInv /\ [Bus!BusNext]_(Bus!busVars) => BusInv'
    <2> SUFFICES ASSUME BusInv, [Bus!BusNext]_(Bus!busVars)  PROVE BusInv'  OBVIOUS
    <2>1. CASE UNCHANGED Bus!busVars  BY <2>1 DEF Bus!busVars, BusInv, Recent
    <2>2. ASSUME NEW s \in BusSub, NEW after \in 0..BusEvents, Bus!Subscribe(s, after)
          PROVE  BusInv'
      BY <2>2, SubscribeStep
    <2> QED  BY <2>1, <2>2, EmitStep, CloseBusStep, ReaderStep DEF Bus!BusNext
  <1>3. BusInv => Bus!StreamIsWhole
    <2> SUFFICES ASSUME BusInv, NEW s \in BusSub
                 PROVE  LET r == subscription[s]
                            ahead == <<r.last>> \o r.replay \o r.queue IN
                        /\ r.state = "open" =>
                              r.got + Len(r.replay) + Len(r.queue) + r.dropped + r.reported
                                  = busSequence - r.since
                        /\ \A i, j \in 1..Len(ahead) :
                              i < j /\ ahead[j] # Bus!CLOSED => ahead[i] < ahead[j]
                        /\ r.pc = "woken" => r.queue # <<>>
                        /\ r.pc = "waiting" => r.queue = <<>> /\ r.state = "open"
      BY DEF Bus!StreamIsWhole, Bus!EveryEventAccounted, Bus!StreamInOrder, Bus!WakeupsAreGood
    <2>1. PICK r : r = subscription[s]  OBVIOUS
    <2>2. Whole(r, busSequence)  BY <2>1 DEF BusInv
    <2>3. PICK a : a = <<r.last>>  OBVIOUS
    <2>4. PICK b : b = a \o r.replay  OBVIOUS
    <2>5. PICK ahead : ahead = b \o r.queue  OBVIOUS
    <2>6. /\ r.last \in Nat /\ r.replay \in Seq(Nat) /\ r.queue \in Seq(Nat)
      BY <2>2 DEF Whole, Bus!Subscription
    <2>7. a \in Seq(Nat) /\ Len(a) = 1 /\ a[1] = r.last  BY <2>3, <2>6
    <2>8. PICK l \in Nat : l = Len(r.replay)  BY <2>6
    <2>9. PICK m \in Nat : m = Len(r.queue)  BY <2>6
    <2>10. /\ b \in Seq(Nat) /\ Len(b) = l + 1 /\ b[1] = r.last
           /\ \A i \in 2..l + 1 : b[i] = r.replay[i - 1]
      <3>1. /\ b \in Seq(Nat) /\ Len(b) = Len(a) + Len(r.replay)
            /\ \A i \in 1..Len(a) + Len(r.replay) :
                  b[i] = IF i <= Len(a) THEN a[i] ELSE r.replay[i - Len(a)]
        BY <2>4, <2>6, <2>7, ConcatProperties
      <3> QED  BY <2>7, <2>8, <3>1
    <2>11. /\ Len(ahead) = l + 1 + m
           /\ \A i \in 1..l + 1 : ahead[i] = b[i]
           /\ \A i \in l + 2..l + 1 + m : ahead[i] = r.queue[i - (l + 1)]
      <3>1. /\ Len(ahead) = Len(b) + Len(r.queue)
            /\ \A i \in 1..Len(b) + Len(r.queue) :
                  ahead[i] = IF i <= Len(b) THEN b[i] ELSE r.queue[i - Len(b)]
        BY <2>5, <2>6, <2>10, ConcatProperties
      <3>2. Len(b) = l + 1 /\ Len(r.queue) = m  BY <2>9, <2>10
      <3>3. \A i \in 1..l + 1 + m : ahead[i] = IF i <= l + 1 THEN b[i] ELSE r.queue[i - (l + 1)]
        BY <3>1, <3>2
      <3>4. \A i \in 1..l + 1 : i \in 1..l + 1 + m /\ i <= l + 1  OBVIOUS
      <3>5. \A i \in l + 2..l + 1 + m : i \in 1..l + 1 + m /\ ~(i <= l + 1)  OBVIOUS
      <3> QED  BY <3>1, <3>2, <3>3, <3>4, <3>5
    <2>12. ASSUME NEW i \in 1..l + 1 + m, NEW j \in 1..l + 1 + m, i < j, ahead[j] # Bus!CLOSED
           PROVE  ahead[i] < ahead[j]
      <3>1. InOrder(r, busSequence)  BY <2>2 DEF Whole
      <3>2. CASE j \in 2..l + 1
        <4>1. ahead[j] = r.replay[j - 1] /\ j - 1 \in 1..l  BY <2>10, <2>11, <3>2
        <4>2. CASE i = 1
          <5>1. ahead[i] = r.last  BY <2>10, <2>11, <4>2
          <5> QED  BY <2>8, <3>1, <4>1, <5>1 DEF InOrder
        <4>3. CASE i # 1
          <5>1. ahead[i] = r.replay[i - 1] /\ i - 1 \in 1..l /\ i - 1 < j - 1
            <6>1. i \in 2..l + 1 /\ i \in 1..l + 1  BY <2>12, <3>2, <4>3
            <6>2. ahead[i] = b[i] /\ b[i] = r.replay[i - 1]  BY <2>10, <2>11, <6>1
            <6> QED  BY <2>12, <3>2, <6>1, <6>2
          <5> QED  BY <2>8, <3>1, <4>1, <5>1 DEF InOrder
        <4> QED  BY <4>2, <4>3
      <3>3. CASE j \in l + 2..l + 1 + m
        <4>1. ahead[j] = r.queue[j - (l + 1)] /\ j - (l + 1) \in 1..m  BY <2>11, <3>3
        <4>2. CASE i = 1
          <5>1. ahead[i] = r.last  BY <2>10, <2>11, <4>2
          <5> QED  BY <2>9, <2>12, <3>1, <4>1, <5>1 DEF InOrder
        <4>3. CASE i \in 2..l + 1
          <5>1. ahead[i] = r.replay[i - 1] /\ i - 1 \in 1..l  BY <2>10, <2>11, <4>3
          <5> QED  BY <2>8, <2>9, <2>12, <3>1, <4>1, <5>1 DEF InOrder
        <4>4. CASE i \in l + 2..l + 1 + m
          <5>1. /\ ahead[i] = r.queue[i - (l + 1)] /\ i - (l + 1) \in 1..m
                /\ i - (l + 1) < j - (l + 1)
            BY <2>11, <2>12, <4>4
          <5> QED  BY <2>9, <2>12, <3>1, <4>1, <5>1 DEF InOrder
        <4> QED  BY <4>2, <4>3, <4>4
      <3> QED  BY <2>12, <3>2, <3>3
    <2>13. ahead = <<r.last>> \o r.replay \o r.queue  BY <2>3, <2>4, <2>5
    <2> QED
      BY <2>1, <2>2, <2>11, <2>12, <2>13 DEF Whole, Accounted, WokenWell
  <1> QED  BY <1>1, <1>2, <1>3, PTL DEF Bus!BusSpec, BusStreamIsWhole

----------------------------------------------------------------------------
(* The event loop of the TUI: the state goes with the numbers of the loop. *)
BusTyped ==
    sequence \in Nat /\ Recent(events, sequence) /\ sub \in [Sub -> Subscription]

LoopInv ==
    /\ BusTyped /\ loop \in Loop /\ appSeen \in Nat
    /\ loop.pc = "receiving" => loop.sub \in Sub
    /\ folded \cup recovered \subseteq 1..loop.sequence

LEMMA WakeTyped == ASSUME NEW r \in Subscription  PROVE Wake(r) \in Subscription
  BY DEF Wake, Subscription

LEMMA QueueTyped ==
    ASSUME NEW r \in Subscription, NEW n \in Nat
    PROVE  Append(IF Full(r) THEN Tail(r.queue) ELSE r.queue, n) \in Seq(Nat)
  <1>1. r.queue \in Seq(Nat) /\ QueueSize \in Nat \ {0}  BY BusAssumption DEF Subscription
  <1>2. CASE Full(r)
    <2>1. r.queue # <<>>  BY <1>1, <1>2 DEF Full
    <2>2. Tail(r.queue) \in Seq(Nat)  BY <1>1, <2>1
    <2> QED  BY <1>2, <2>2
  <1>3. CASE ~Full(r)  BY <1>1, <1>3
  <1> QED  BY <1>2, <1>3

LEMMA OfferTyped ==
    ASSUME NEW r \in Subscription, NEW n \in Nat
    PROVE  Offer(r, n) \in Subscription /\ WakeClosed(r) \in Subscription
  <1>1. Offer(r, n) \in Subscription
    <2>1. PICK q \in Seq(Nat) : q = Append(IF Full(r) THEN Tail(r.queue) ELSE r.queue, n)
      BY QueueTyped
    <2>2. PICK e \in Nat : e = IF Full(r) THEN r.dropped + 1 ELSE r.dropped
      BY DEF Subscription
    <2>3. PICK f : f = [r EXCEPT !.queue = q]  OBVIOUS
    <2>4. PICK w : w = [f EXCEPT !.dropped = e]  OBVIOUS
    <2>5. f \in Subscription  BY <2>3 DEF Subscription
    <2>6. w \in Subscription  BY <2>4, <2>5 DEF Subscription
    <2>7. w = [r EXCEPT !.queue = Append(IF Full(r) THEN Tail(@) ELSE @, n),
                        !.dropped = IF Full(r) THEN @ + 1 ELSE @]
      BY <2>1, <2>2, <2>3, <2>4
    <2> QED  BY <2>6, <2>7, WakeTyped DEF Offer
  <1>2. WakeClosed(r) \in Subscription
    <2>0. CLOSED \in Nat  BY DEF CLOSED
    <2>1. PICK q \in Seq(Nat) : q = Append(IF Full(r) THEN Tail(r.queue) ELSE r.queue, CLOSED)
      BY <2>0, QueueTyped
    <2>2. PICK f : f = [r EXCEPT !.state = "closed"]  OBVIOUS
    <2>3. PICK g : g = [f EXCEPT !.listed = FALSE]  OBVIOUS
    <2>4. PICK w : w = [g EXCEPT !.queue = q]  OBVIOUS
    <2>5. f \in Subscription  BY <2>2 DEF Subscription
    <2>6. g \in Subscription  BY <2>3, <2>5 DEF Subscription
    <2>7. w \in Subscription  BY <2>4, <2>6 DEF Subscription
    <2>8. w = [r EXCEPT !.state = "closed", !.listed = FALSE,
                        !.queue = Append(IF Full(r) THEN Tail(@) ELSE @, CLOSED)]
      BY <2>1, <2>2, <2>3, <2>4
    <2> QED  BY <2>7, <2>8, WakeTyped DEF WakeClosed
  <1> QED  BY <1>1, <1>2

LEMMA ReadsTyped ==
    ASSUME BusTyped, NEW s \in Sub, NEW r \in Subscription, Reads(s, r)
    PROVE  BusTyped' /\ sub'[s] = r
  BY DEF BusTyped, Reads, Recent

(* A delivery has a number. *)
LEMMA DeliveryTyped ==
    ASSUME BusTyped, NEW s \in Sub, FromReplay(s) \/ FromQueue(s)
    PROVE  BusTyped' /\ sub'[s].last \in Nat
  <1>1. PICK r \in Subscription : r = sub[s]  BY DEF BusTyped
  <1>2. r.replay \in Seq(Nat) /\ r.queue \in Seq(Nat)  BY DEF Subscription
  <1>3. ASSUME NEW n \in Nat
        PROVE  Delivered(r, n) \in Subscription /\ Delivered(r, n).last = n
    <2>1. PICK c \in Nat : c = r.got + 1  BY DEF Subscription
    <2>2. PICK f : f = [r EXCEPT !.last = n]  OBVIOUS
    <2>3. PICK g : g = [f EXCEPT !.got = c]  OBVIOUS
    <2>4. PICK w : w = [g EXCEPT !.pc = "idle"]  OBVIOUS
    <2>5. f \in Subscription /\ f.last = n  BY <2>2 DEF Subscription
    <2>6. g \in Subscription /\ g.last = n  BY <2>3, <2>5 DEF Subscription
    <2>7. w \in Subscription /\ w.last = n  BY <2>4, <2>6 DEF Subscription
    <2>8. w = Delivered(r, n)  BY <2>1, <2>2, <2>3, <2>4 DEF Delivered
    <2> QED  BY <2>7, <2>8
  <1>4. CASE FromReplay(s)
    <2>1. r.replay # <<>>  BY <1>1, <1>4 DEF FromReplay
    <2>2. PICK n \in Nat : n = Head(r.replay)  BY <1>2, <2>1
    <2>3. PICK t \in Seq(Nat) : t = Tail(r.replay)
      BY <1>2, <2>1, HeadTailProperties
    <2>4. PICK d \in Subscription : d = Delivered(r, n) /\ d.last = n  BY <1>3
    <2>5. d.replay = r.replay  BY <2>4 DEF Delivered, Subscription
    <2>6. PICK w : w = [d EXCEPT !.replay = t]  OBVIOUS
    <2>7. w \in Subscription /\ w.last = n  BY <2>4, <2>6 DEF Subscription
    <2>8. Reads(s, w)
      <3>1. w = [d EXCEPT !.replay = Tail(@)]  BY <2>3, <2>5, <2>6
      <3> QED  BY <1>1, <1>4, <2>2, <2>4, <3>1 DEF FromReplay
    <2> QED  BY <2>7, <2>8, ReadsTyped
  <1>5. CASE FromQueue(s)
    <2>1. r.queue # <<>>  BY <1>1, <1>5 DEF FromQueue
    <2>2. PICK n \in Nat : n = Head(r.queue)  BY <1>2, <2>1
    <2>3. PICK t \in Seq(Nat) : t = Tail(r.queue)
      BY <1>2, <2>1, HeadTailProperties
    <2>4. PICK d \in Subscription : d = Delivered(r, n) /\ d.last = n  BY <1>3
    <2>5. d.queue = r.queue  BY <2>4 DEF Delivered, Subscription
    <2>6. PICK w : w = [d EXCEPT !.queue = t]  OBVIOUS
    <2>7. w \in Subscription /\ w.last = n  BY <2>4, <2>6 DEF Subscription
    <2>8. Reads(s, w)
      <3>1. w = [d EXCEPT !.queue = Tail(@)]  BY <2>3, <2>5, <2>6
      <3> QED  BY <1>1, <1>5, <2>2, <2>4, <3>1 DEF FromQueue
    <2> QED  BY <2>7, <2>8, ReadsTyped
  <1> QED  BY <1>4, <1>5

LEMMA OtherReadsTyped ==
    ASSUME BusTyped, NEW s \in Sub, Overflow(s) \/ Wait(s) \/ Ends(s) \/ CancelReceive(s)
    PROVE  BusTyped'
  <1>1. PICK r \in Subscription : r = sub[s]  BY DEF BusTyped
  <1>2. ASSUME NEW pc \in {"idle", "waiting", "ended"}, Reads(s, [r EXCEPT !.pc = pc])
        PROVE  BusTyped'
    <2>1. [r EXCEPT !.pc = pc] \in Subscription  BY DEF Subscription
    <2> QED  BY <1>2, <2>1, ReadsTyped
  <1>3. CASE Overflow(s)
    <2>1. PICK k \in Nat : k = r.reported + r.dropped  BY DEF Subscription
    <2>2. PICK f : f = [r EXCEPT !.dropped = 0]  OBVIOUS
    <2>3. PICK w : w = [f EXCEPT !.reported = k]  OBVIOUS
    <2>4. f \in Subscription  BY <2>2 DEF Subscription
    <2>5. w \in Subscription  BY <2>3, <2>4 DEF Subscription
    <2>6. w = [r EXCEPT !.dropped = 0, !.reported = @ + r.dropped]  BY <2>1, <2>2, <2>3
    <2> QED  BY <1>1, <1>3, <2>5, <2>6, ReadsTyped DEF Overflow
  <1>4. CASE Wait(s)  BY <1>1, <1>2, <1>4 DEF Wait
  <1>5. CASE Ends(s)  BY <1>1, <1>2, <1>5 DEF Ends
  <1>6. CASE CancelReceive(s)  BY <1>1, <1>2, <1>6 DEF CancelReceive
  <1> QED  BY <1>3, <1>4, <1>5, <1>6

LEMMA EmitTyped ==
    ASSUME BusTyped, Emit \/ CloseBus  PROVE BusTyped'
  <1>1. sequence \in Nat /\ Recent(events, sequence) /\ sub \in [Sub -> Subscription]
    BY DEF BusTyped
  <1>2. CASE Emit
    <2>1. PICK n \in Nat : n = sequence + 1  BY <1>1
    <2>2. sub' = [s \in Sub |-> IF sub[s].listed THEN Offer(sub[s], n) ELSE sub[s]]
      BY <1>2, <2>1 DEF Emit
    <2>3. sub' \in [Sub -> Subscription]  BY <1>1, <2>2, OfferTyped
    <2>4. PICK e : e = events'  OBVIOUS
    <2>5. \/ Len(events) >= MaxBuffer /\ e = Append(Tail(events), sequence + 1)
          \/ ~(Len(events) >= MaxBuffer) /\ e = Append(events, sequence + 1)
      BY <1>2, <2>4 DEF Emit
    <2>6. Recent(e, sequence + 1)  BY <1>1, <2>5, OneMoreIsRecent, BusAssumption
    <2>7. sequence' = sequence + 1  BY <1>2 DEF Emit
    <2> QED  BY <2>1, <2>3, <2>4, <2>6, <2>7 DEF BusTyped, Recent
  <1>3. CASE CloseBus
    <2>1. sub' = [s \in Sub |-> IF sub[s].listed THEN WakeClosed(sub[s]) ELSE sub[s]]
      BY <1>3 DEF CloseBus
    <2>2. sub' \in [Sub -> Subscription]
      <3>1. 0 \in Nat  OBVIOUS
      <3> QED  BY <1>1, <2>1, <3>1, OfferTyped
    <2> QED  BY <1>1, <1>3, <2>2 DEF CloseBus, BusTyped, Recent
  <1> QED  BY <1>2, <1>3

LEMMA SubscribeTyped ==
    ASSUME BusTyped, NEW s \in Sub, NEW after \in Nat, Subscribe(s, after)
    PROVE  BusTyped'
  <1>1. sequence \in Nat /\ Recent(events, sequence) /\ sub \in [Sub -> Subscription]
    BY DEF BusTyped
  <1>2. PICK p : p = Replay(after)  OBVIOUS
  <1>3. Recent(p, sequence) /\ Len(p) \in 0..sequence
        /\ (p # <<>> => Head(p) = sequence - Len(p) + 1)
    <2>1. PICK old : old = CHOOSE k \in 0..Len(events) :
                              \A i \in 1..Len(events) : i <= k <=> events[i] <= after
      OBVIOUS
    <2>2. \E k \in 0..Len(events) : \A i \in 1..Len(events) : i <= k <=> events[i] <= after
      BY <1>1, OldOnesComeFirst
    <2>3. old \in 0..Len(events)  BY <2>1, <2>2
    <2>4. p = SubSeq(events, old + 1, Len(events))  BY <1>2, <2>1 DEF Replay
    <2> QED  BY <1>1, <2>3, <2>4, EndIsRecent
  <1>4. p \in Seq(Nat)  BY <1>3 DEF Recent
  <1>5. PICK start \in Nat : start = IF p = <<>> THEN sequence ELSE Head(p) - 1
    <2>1. CASE p = <<>>  BY <1>1, <2>1
    <2>2. CASE p # <<>>
      <3>1. Head(p) - 1 = sequence - Len(p)  BY <1>1, <1>3, <2>2
      <3>2. Head(p) - 1 \in Nat  BY <1>1, <1>3, <3>1
      <3> QED  BY <2>2, <3>2
    <2> QED  BY <2>1, <2>2
  <1>6. PICK a : a = [NewSubscription EXCEPT !.state = "open"]  OBVIOUS
  <1>7. PICK b : b = [a EXCEPT !.listed = TRUE]  OBVIOUS
  <1>8. PICK c : c = [b EXCEPT !.replay = p]  OBVIOUS
  <1>9. PICK d : d = [c EXCEPT !.last = start]  OBVIOUS
  <1>10. PICK e : e = [d EXCEPT !.since = start]  OBVIOUS
  <1>11. NewSubscription \in Subscription
    <2>1. <<>> \in Seq(Nat) /\ 0 \in Nat  OBVIOUS
    <2> QED  BY <2>1 DEF NewSubscription, Subscription
  <1>12. a \in Subscription  BY <1>6, <1>11 DEF Subscription
  <1>13. b \in Subscription  BY <1>7, <1>12 DEF Subscription
  <1>14. c \in Subscription  BY <1>4, <1>8, <1>13 DEF Subscription
  <1>15. d \in Subscription  BY <1>9, <1>14 DEF Subscription
  <1>16. e \in Subscription  BY <1>10, <1>15 DEF Subscription
  <1>17. e = [NewSubscription EXCEPT !.state = "open", !.listed = TRUE, !.replay = p,
                                     !.last = start, !.since = start]
    BY <1>6, <1>7, <1>8, <1>9, <1>10
  <1>18. sub' = [sub EXCEPT ![s] =
              [NewSubscription EXCEPT !.state = "open", !.listed = TRUE, !.replay = p,
                                      !.last = start, !.since = start]]
    BY <1>2, <1>5 DEF Subscribe
  <1>19. Reads(s, e)  BY <1>17, <1>18 DEF Subscribe, Reads
  <1> QED  BY <1>16, <1>19, ReadsTyped

(* What a step of the loop with an event of number n does to its state.    *)
LEMMA HandleStep ==
    ASSUME LoopInv, NEW n \in Nat, Handle(n), BusTyped'
    PROVE  /\ LoopInv'
           /\ \A e \in folded' \ folded : \A m \in folded \cup recovered : m < e
  <1>1. /\ loop \in Loop /\ loop.sequence \in Nat /\ loop.seen \in Nat /\ appSeen \in Nat
        /\ folded \cup recovered \subseteq 1..loop.sequence
        /\ loop.pc = "receiving" => loop.sub \in Sub
    BY DEF LoopInv, Loop
  <1>2. CASE Duplicate(n)
    BY <1>1, <1>2 DEF Duplicate, tuiVars, LoopInv
  <1>3. CASE SkipsGap(n)
    <2>1. PICK f : f = [loop EXCEPT !.sequence = n]  OBVIOUS
    <2>2. loop' = [f EXCEPT !.seen = n]  BY <1>3, <2>1 DEF SkipsGap
    <2>3. f \in Loop /\ f.sequence = n /\ f.pc = loop.pc /\ f.sub = loop.sub
      BY <1>1, <2>1 DEF Loop
    <2>4. loop' \in Loop /\ loop'.sequence = n /\ loop'.pc = loop.pc /\ loop'.sub = loop.sub
      BY <2>2, <2>3 DEF Loop
    <2>5. n > loop.sequence + 1 /\ folded' = folded /\ appSeen' = loop.seen
          /\ recovered' = recovered \cup loop.sequence + 1..n
      BY <1>3 DEF SkipsGap
    <2>6. folded' \cup recovered' \subseteq 1..n  BY <1>1, <2>5
    <2> QED  BY <1>1, <2>4, <2>5, <2>6 DEF LoopInv
  <1>4. CASE Folds(n)
    <2>1. PICK k \in Nat : k = IF n > loop.seen THEN n ELSE loop.seen  BY <1>1
    <2>2. PICK f : f = [loop EXCEPT !.sequence = n]  OBVIOUS
    <2>3. PICK g : g = [f EXCEPT !.seen = k]  OBVIOUS
    <2>4. /\ f \in Loop /\ f.sequence = n /\ f.pc = loop.pc /\ f.sub = loop.sub
          /\ f.seen = loop.seen
      BY <1>1, <2>2 DEF Loop
    <2>5. g \in Loop /\ g.sequence = n /\ g.pc = loop.pc /\ g.sub = loop.sub /\ g.seen = k
      BY <2>3, <2>4 DEF Loop
    <2>6. g = [loop EXCEPT !.sequence = n, !.seen = IF n > @ THEN n ELSE @]
      BY <2>1, <2>2, <2>3
    <2>7. /\ n = loop.sequence + 1 /\ loop' = g /\ appSeen' = k /\ recovered' = recovered
          /\ folded' \subseteq folded \cup {n}
      BY <1>4, <2>5, <2>6 DEF Folds, Emits
    <2>8. folded' \cup recovered' \subseteq 1..n  BY <1>1, <2>7
    <2>9. \A e \in folded' \ folded : \A m \in folded \cup recovered : m < e
      BY <1>1, <2>7
    <2> QED  BY <1>1, <2>5, <2>7, <2>8, <2>9 DEF LoopInv
  <1>5. CASE FoldFails(n)
    <2>1. /\ folded' = folded /\ recovered' = recovered
          /\ \/ loop' = [loop EXCEPT !.pc = "dead"] /\ appSeen' = appSeen
             \/ loop' = [loop EXCEPT !.retried = TRUE] /\ appSeen' = loop'.seen
      BY <1>5 DEF FoldFails, Emits
    <2>2. /\ loop' \in Loop /\ loop'.sequence = loop.sequence /\ loop'.sub = loop.sub
          /\ loop'.pc \in {"dead", loop.pc} /\ loop'.seen \in Nat
      BY <1>1, <2>1 DEF Loop
    <2> QED  BY <1>1, <2>1, <2>2 DEF LoopInv
  <1> QED  BY <1>2, <1>3, <1>4, <1>5 DEF Handle

LEMMA LoopFailsStep ==
    ASSUME LoopInv, LoopFails, BusTyped'
    PROVE  LoopInv' /\ folded' = folded
  <1>1. loop \in Loop /\ appSeen \in Nat  BY DEF LoopInv
  <1>2. CASE loop.retried
    <2>1. loop' = [loop EXCEPT !.pc = "dead"] /\ UNCHANGED <<appSeen, folded, recovered>>
      BY <1>2 DEF LoopFails
    <2>2. loop' \in Loop /\ loop'.sequence = loop.sequence /\ loop'.pc = "dead"
      BY <1>1, <2>1 DEF Loop
    <2> QED  BY <2>1, <2>2 DEF LoopInv
  <1>3. CASE ~loop.retried
    <2>1. PICK f : f = [loop EXCEPT !.pc = "sleeping"]  OBVIOUS
    <2>2. PICK g : g = [f EXCEPT !.retried = TRUE]  OBVIOUS
    <2>3. f \in Loop /\ f.sequence = loop.sequence /\ f.pc = "sleeping"
      BY <1>1, <2>1 DEF Loop
    <2>4. g \in Loop /\ g.sequence = loop.sequence /\ g.pc = "sleeping" /\ g.seen \in Nat
      BY <2>2, <2>3 DEF Loop
    <2>5. g = [loop EXCEPT !.pc = "sleeping", !.retried = TRUE]  BY <2>1, <2>2
    <2>6. loop' = g /\ appSeen' = g.seen /\ UNCHANGED <<folded, recovered>>
      BY <1>3, <2>5 DEF LoopFails, Emits
    <2> QED  BY <2>4, <2>6 DEF LoopInv
  <1> QED  BY <1>2, <1>3

LEMMA LoopStep ==
    ASSUME LoopInv, [Next]_vars
    PROVE  /\ LoopInv'
           /\ \A e \in folded' \ folded : \A m \in folded \cup recovered : m < e
  <1>1. /\ BusTyped /\ loop \in Loop /\ appSeen \in Nat /\ loop.sequence \in Nat
        /\ loop.seen \in Nat
        /\ folded \cup recovered \subseteq 1..loop.sequence
        /\ loop.pc = "receiving" => loop.sub \in Sub
    BY DEF LoopInv, Loop
  <1>2. UNCHANGED busVars => BusTyped'  BY <1>1 DEF busVars, BusTyped, Recent
  <1>3. ASSUME BusTyped', UNCHANGED tuiVars  PROVE LoopInv' /\ folded' = folded
    BY <1>3 DEF tuiVars, LoopInv
  <1>4. ASSUME NEW s \in Sub, LoopSubscribes(s)  PROVE LoopInv' /\ folded' = folded
    <2>1. BusTyped'  BY <1>1, <1>4, SubscribeTyped DEF LoopSubscribes
    <2>2. PICK f : f = [loop EXCEPT !.pc = "receiving"]  OBVIOUS
    <2>3. PICK g : g = [f EXCEPT !.sub = s]  OBVIOUS
    <2>4. PICK h : h = [g EXCEPT !.retried = FALSE]  OBVIOUS
    <2>5. f \in Loop /\ f.sequence = loop.sequence  BY <1>1, <2>2 DEF Loop
    <2>6. g \in Loop /\ g.sequence = loop.sequence /\ g.sub = s  BY <2>3, <2>5 DEF Loop
    <2>7. h \in Loop /\ h.sequence = loop.sequence /\ h.sub = s  BY <2>4, <2>6 DEF Loop
    <2>8. h = [loop EXCEPT !.pc = "receiving", !.sub = s, !.retried = FALSE]
      BY <2>2, <2>3, <2>4
    <2>9. loop' = h /\ UNCHANGED <<appSeen, folded, recovered>>
      BY <1>4, <2>8 DEF LoopSubscribes
    <2> QED  BY <2>1, <2>7, <2>9 DEF LoopInv
  <1>5. CASE SubscribeFails  BY <1>2, <1>5, LoopFailsStep DEF SubscribeFails
  <1>6. CASE LoopWakes
    <2>1. BusTyped' /\ loop' = [loop EXCEPT !.pc = "subscribing"]
          /\ UNCHANGED <<appSeen, folded, recovered>>
      BY <1>2, <1>6 DEF LoopWakes
    <2>2. loop' \in Loop /\ loop'.sequence = loop.sequence /\ loop'.pc = "subscribing"
      BY <1>1, <2>1 DEF Loop
    <2> QED  BY <2>1, <2>2 DEF LoopInv
  <1>7. CASE LoopReceives
    <2>1. loop.sub \in Sub  BY <1>1, <1>7 DEF LoopReceives
    <2>2. CASE /\ FromReplay(loop.sub) \/ FromQueue(loop.sub)
               /\ Handle(sub'[loop.sub].last)
      BY <1>1, <2>1, <2>2, DeliveryTyped, HandleStep
    <2>3. CASE Wait(loop.sub) /\ UNCHANGED tuiVars
      BY <1>1, <1>3, <2>1, <2>3, OtherReadsTyped
    <2>4. CASE Ends(loop.sub) /\ LoopFails
      BY <1>1, <2>1, <2>4, OtherReadsTyped, LoopFailsStep
    <2> QED  BY <1>7, <2>2, <2>3, <2>4 DEF LoopReceives
  <1>8. CASE LoopOverflows
    <2>1. loop.sub \in Sub /\ Overflow(loop.sub)  BY <1>1, <1>8 DEF LoopOverflows
    <2>2. BusTyped'  BY <1>1, <2>1, OtherReadsTyped
    <2>3. loop' = [loop EXCEPT !.pc = "subscribing"] /\ appSeen' = loop'.seen
          /\ UNCHANGED <<folded, recovered>>
      BY <1>8 DEF LoopOverflows, Emits
    <2>4. loop' \in Loop /\ loop'.sequence = loop.sequence /\ loop'.pc = "subscribing"
          /\ loop'.seen \in Nat
      BY <1>1, <2>3 DEF Loop
    <2> QED  BY <2>2, <2>3, <2>4 DEF LoopInv
  <1>9. CASE AppActs
    <2>1. BusTyped' /\ loop' = [loop EXCEPT !.seen = appSeen]
          /\ UNCHANGED <<appSeen, folded, recovered>>
      BY <1>2, <1>9 DEF AppActs
    <2>2. /\ loop' \in Loop /\ loop'.sequence = loop.sequence /\ loop'.pc = loop.pc
          /\ loop'.sub = loop.sub
      BY <1>1, <2>1 DEF Loop
    <2> QED  BY <1>1, <2>1, <2>2 DEF LoopInv
  <1>10. CASE LoopCloses
    <2>1. loop' = [loop EXCEPT !.pc = "closed"] /\ UNCHANGED <<appSeen, folded, recovered>>
      BY <1>10 DEF LoopCloses
    <2>2. loop' \in Loop /\ loop'.sequence = loop.sequence /\ loop'.pc = "closed"
      BY <1>1, <2>1 DEF Loop
    <2>3. BusTyped'
      <3>1. CASE loop.pc = "receiving" /\ sub[loop.sub].pc \in {"waiting", "woken"}
        BY <1>1, <1>10, <3>1, OtherReadsTyped DEF LoopCloses
      <3>2. CASE ~(loop.pc = "receiving" /\ sub[loop.sub].pc \in {"waiting", "woken"})
        BY <1>2, <1>10, <3>2 DEF LoopCloses
      <3> QED  BY <3>1, <3>2
    <2> QED  BY <2>1, <2>2, <2>3 DEF LoopInv
  <1>11. CASE Emit /\ UNCHANGED tuiVars  BY <1>1, <1>3, <1>11, EmitTyped
  <1>12. CASE CloseBus /\ UNCHANGED tuiVars  BY <1>1, <1>3, <1>12, EmitTyped
  <1>13. CASE UNCHANGED vars  BY <1>2, <1>3, <1>13 DEF vars
  <1> QED
    BY <1>4, <1>5, <1>6, <1>7, <1>8, <1>9, <1>10, <1>11, <1>12, <1>13 DEF Next, LoopSteps

(* Through overflows, new subscriptions, replays and failures of a fold,   *)
(* the TUI folds an event at most once and in order, for any number of     *)
(* events, subscriptions and sizes of the buffers                          *)
(* (KernelEventLoop._run, fold_event).                                     *)
THEOREM FoldsOnceInOrder == Spec => FoldedOnceInOrder
  <1>1. Init => LoopInv
    <2> SUFFICES ASSUME Init  PROVE LoopInv  OBVIOUS
    <2>1. /\ sequence = 0 /\ events = <<>> /\ sub = [s \in Sub |-> NewSubscription]
          /\ loop = [pc |-> "subscribing", sub |-> NoSub, sequence |-> 0,
                     retried |-> FALSE, seen |-> 0]
          /\ appSeen = 0 /\ folded = {} /\ recovered = {}
      BY DEF Init, BusInit
    <2>2. NewSubscription \in Subscription
      <3>1. <<>> \in Seq(Nat) /\ 0 \in Nat  OBVIOUS
      <3> QED  BY <3>1 DEF NewSubscription, Subscription
    <2>3. Recent(events, 0)
      <3>1. events \in Seq(Nat) /\ Len(events) = 0  BY <2>1
      <3> QED  BY <3>1 DEF Recent
    <2>4. loop \in Loop /\ loop.pc = "subscribing" /\ loop.sequence = 0
      BY <2>1 DEF Loop
    <2> QED  BY <2>1, <2>2, <2>3, <2>4 DEF LoopInv, BusTyped
  <1>2. LoopInv /\ [Next]_vars => LoopInv'  BY LoopStep
  <1>3. LoopInv /\ [Next]_vars =>
           [\A n \in 1..MaxSequence :
               n \in folded' \ folded => \A m \in folded \cup recovered : m < n]_vars
    BY LoopStep
  <1> QED  BY <1>1, <1>2, <1>3, PTL DEF Spec, FoldedOnceInOrder

----------------------------------------------------------------------------
(* The profiles and providers of the first generation.                     *)

(* The operators of Selections, seen through the instance.                 *)
LEMMA DraftCounts == \A S : Drafts!Cardinality(S) = Cardinality(S)
  BY DEF Drafts!Cardinality, Cardinality

LEMMA DraftReads ==
    /\ \A c, ids : Drafts!Without(c, ids)
                      = Picked(c.items, {i \in DOMAIN c.items : c.items[i].id \notin ids})
    /\ \A d : Drafts!Valid(d) <=> d.items # <<>> /\ Cardinality(Drafts!Ids(d)) = Len(d.items)
  <1>1. \A S : Drafts!Cardinality(S) = Cardinality(S)  BY DraftCounts
  <1>2. \A S, n : Drafts!Nth(S, n) = Nth(S, n)
    <2>1. \A S, n : Drafts!Rank(S, n) = Rank(S, n)  BY <1>1 DEF Drafts!Rank, Rank
    <2> QED  BY <2>1 DEF Drafts!Nth, Nth
  <1>3. \A s, S : Drafts!Picked(s, S) = Picked(s, S)
    BY <1>1, <1>2 DEF Drafts!Picked, Picked
  <1> QED  BY <1>1, <1>3 DEF Drafts!Without, Drafts!Valid

(* What the provers need to know of a configuration and of its items.      *)
KeyEdit == Key \cup {NoKey, "keep"}

LEMMA ConfigIs ==
    ASSUME NEW c \in Drafts!Config
    PROVE  /\ c.items \in Seq(Drafts!ItemType) /\ DOMAIN c.items = 1..Len(c.items)
           /\ Len(c.items) \in Nat
           /\ c.profiles \in BOOLEAN /\ c.active \in Name \cup {None}
           /\ c.chat \in {None} \cup ({"id", "label"} \X Name)
           /\ Drafts!Ids(c) = {x.id : x \in Drafts!Entries(c.items)} /\ Drafts!Ids(c) \subseteq Name
           /\ Drafts!Entries(c.items) \subseteq Drafts!ItemType
           /\ c.items = <<>> <=> Drafts!Entries(c.items) = {}
           /\ c.items # <<>> => c.items[1] \in Drafts!Entries(c.items) /\ c.items[1].id \in Drafts!Ids(c)
           /\ Drafts!Providers(c) = {x.provider : x \in Drafts!Entries(c.items)}
  <1>1. /\ c.items \in Seq(Drafts!ItemType) /\ c.profiles \in BOOLEAN
        /\ c.active \in Name \cup {None}
        /\ c.chat \in {None} \cup ({"id", "label"} \X Name)
    BY DEF Drafts!Config
  <1>2. DOMAIN c.items = 1..Len(c.items) /\ Len(c.items) \in Nat  BY <1>1
  <1>3. Drafts!Ids(c) = {x.id : x \in Drafts!Entries(c.items)}  BY DEF Drafts!Ids, Drafts!Entries
  <1>4. Drafts!Providers(c) = {x.provider : x \in Drafts!Entries(c.items)}
    BY DEF Drafts!Providers, Drafts!Entries
  <1>5. \A i \in DOMAIN c.items : c.items[i] \in Drafts!ItemType  BY <1>1
  <1>6. Drafts!Entries(c.items) \subseteq Drafts!ItemType  BY <1>5 DEF Drafts!Entries
  <1>7. \A x \in Drafts!ItemType : x.id \in Name  BY DEF Drafts!ItemType
  <1>8. c.items # <<>> => 1 \in DOMAIN c.items  BY <1>1, <1>2
  <1>9. c.items = <<>> => Drafts!Entries(c.items) = {}  BY DEF Drafts!Entries
  <1>10. c.items # <<>> => c.items[1] \in Drafts!Entries(c.items)  BY <1>8 DEF Drafts!Entries
  <1> QED  BY <1>1, <1>2, <1>3, <1>4, <1>6, <1>7, <1>9, <1>10

(* Ids as many as items are different ones.                                *)
LEMMA ValidIsDistinct ==
    ASSUME NEW d \in Drafts!Config, Drafts!Valid(d)
    PROVE  Drafts!Distinct(d) /\ d.items # <<>>
  <1>1. PICK n : n = Len(d.items)  OBVIOUS
  <1>2. n \in Nat /\ DOMAIN d.items = 1..n  BY <1>1, ConfigIs
  <1>3. PICK f : f = [i \in 1..n |-> d.items[i].id]  OBVIOUS
  <1>4. f \in [1..n -> Drafts!Ids(d)]  BY <1>2, <1>3 DEF Drafts!Ids
  <1>5. f \in Surjection(1..n, Drafts!Ids(d))
    <2>1. \A t \in Drafts!Ids(d) : \E s \in 1..n : f[s] = t  BY <1>2, <1>3 DEF Drafts!Ids
    <2> QED  BY <1>4, <2>1 DEF Surjection
  <1>6. IsFiniteSet(1..n) /\ Cardinality(1..n) = n  BY <1>2, FS_Interval
  <1>7. Cardinality(Drafts!Ids(d)) = n  BY <1>1, DraftReads
  <1>8. f \in Injection(1..n, Drafts!Ids(d))  BY <1>5, <1>6, <1>7, FS_Surjection
  <1>9. \A i, j \in 1..n : f[i] = f[j] => i = j  BY <1>8 DEF Injection, IsInjective
  <1>10. \A i, j \in DOMAIN d.items : d.items[i].id = d.items[j].id => i = j
    BY <1>2, <1>3, <1>9
  <1> QED  BY <1>10 DEF Drafts!Distinct, Drafts!Entries, Drafts!Valid

LEMMA EnsuredIs ==
    ASSUME NEW c \in Drafts!Config
    PROVE  LET d == Drafts!EnsureActiveLegacy(c)
           IN  /\ d \in Drafts!Config /\ d.items = c.items /\ d.profiles = c.profiles
               /\ d.chat = c.chat
               /\ c.active \in Drafts!Ids(c) => d = c
               /\ c.items # <<>> => d.active \in Drafts!Ids(d)
  <1>1. PICK d : d = Drafts!EnsureActiveLegacy(c)  OBVIOUS
  <1>2. CASE c.active \in Drafts!Ids(c) \/ c.items = <<>>
    <2>1. d = c  BY <1>1, <1>2 DEF Drafts!EnsureActiveLegacy
    <2> QED  BY <1>1, <1>2, <2>1
  <1>3. CASE ~(c.active \in Drafts!Ids(c) \/ c.items = <<>>)
    <2>1. PICK S : S = {i \in DOMAIN c.items : c.active # None /\ c.items[i].provider = c.active[1]}
      OBVIOUS
    <2>2. PICK k : k = IF S = {} THEN 1 ELSE CHOOSE i \in S : \A j \in S : i <= j  OBVIOUS
    <2>3. d = [c EXCEPT !.active = c.items[k].id]
      BY <1>1, <1>3, <2>1, <2>2 DEF Drafts!EnsureActiveLegacy
    <2>4. k \in DOMAIN c.items
      <3>1. CASE S = {}
        <4>1. c.items \in Seq(Drafts!ItemType) /\ c.items # <<>>  BY <1>3, ConfigIs
        <4>2. 1 \in DOMAIN c.items  BY <4>1
        <4> QED  BY <2>2, <3>1, <4>2
      <3>2. CASE S # {}
        <4>1. S \in SUBSET Nat  BY <2>1, ConfigIs
        <4>2. \E i \in S : \A j \in S : i <= j  BY <3>2, <4>1, LeastExists
        <4>3. k = CHOOSE i \in S : \A j \in S : i <= j  BY <2>2, <3>2
        <4>4. k \in S  BY <4>2, <4>3
        <4> QED  BY <2>1, <4>4
      <3> QED  BY <3>1, <3>2
    <2>5. c.items[k].id \in Drafts!Ids(c)  BY <2>4 DEF Drafts!Ids
    <2>6. c.items[k].id \in Name  BY <2>5, ConfigIs
    <2>7. /\ d \in Drafts!Config /\ d.items = c.items /\ d.profiles = c.profiles /\ d.chat = c.chat
          /\ d.active = c.items[k].id
      BY <2>3, <2>6 DEF Drafts!Config
    <2>8. Drafts!Ids(d) = Drafts!Ids(c)  BY <2>7 DEF Drafts!Ids
    <2> QED  BY <1>1, <1>3, <2>5, <2>7, <2>8
  <1> QED  BY <1>2, <1>3

LEMMA RepairedIs ==
    ASSUME NEW d \in Drafts!Config, d.items # <<>>
    PROVE  /\ Drafts!Repaired(d) \in Drafts!Config /\ Drafts!Repaired(d).items = d.items
           /\ Drafts!Repaired(d).profiles = d.profiles /\ Drafts!Repaired(d).chat = d.chat
           /\ Drafts!Ids(Drafts!Repaired(d)) = Drafts!Ids(d)
           /\ Drafts!Repaired(d).active \in Drafts!Ids(d)
           /\ d.active \in Drafts!Ids(d) => Drafts!Repaired(d) = d
  <1>1. PICK r : r = Drafts!Repaired(d)  OBVIOUS
  <1>2. CASE ~d.profiles
    <2>1. r = Drafts!EnsureActiveLegacy(d)  BY <1>1, <1>2 DEF Drafts!Repaired
    <2>2. /\ r \in Drafts!Config /\ r.items = d.items /\ r.profiles = d.profiles /\ r.chat = d.chat
          /\ d.active \in Drafts!Ids(d) => r = d
          /\ r.active \in Drafts!Ids(r)
      BY <2>1, EnsuredIs
    <2>3. Drafts!Ids(r) = Drafts!Ids(d)  BY <2>2 DEF Drafts!Ids
    <2> QED  BY <1>1, <2>2, <2>3
  <1>3. CASE d.profiles
    <2>1. d.items[1].id \in Drafts!Ids(d) /\ Drafts!Ids(d) \subseteq Name  BY ConfigIs
    <2>2. PICK a : a = IF d.active \in Drafts!Ids(d) THEN d.active ELSE d.items[1].id  OBVIOUS
    <2>3. a \in Drafts!Ids(d) /\ a \in Name /\ (d.active \in Drafts!Ids(d) => a = d.active)
      BY <2>1, <2>2
    <2>4. r = [d EXCEPT !.active = a]  BY <1>1, <1>3, <2>2 DEF Drafts!Repaired
    <2>5. /\ r \in Drafts!Config /\ r.items = d.items /\ r.profiles = d.profiles /\ r.chat = d.chat
          /\ r.active = a /\ (a = d.active => r = d)
      BY <2>3, <2>4 DEF Drafts!Config
    <2>6. Drafts!Ids(r) = Drafts!Ids(d)  BY <2>5 DEF Drafts!Ids
    <2> QED  BY <1>1, <2>3, <2>5, <2>6
  <1> QED  BY <1>2, <1>3, ConfigIs

LEMMA SameItems ==
    ASSUME NEW c, NEW d, d.items = c.items
    PROVE  /\ Drafts!Ids(d) = Drafts!Ids(c) /\ (Drafts!Distinct(c) => Drafts!Distinct(d))
           /\ Drafts!Labelled(c) /\ (c.profiles => d.profiles) => Drafts!Labelled(d)
  BY DEF Drafts!Ids, Drafts!Distinct, Drafts!Labelled

LEMMA ItemIs ==
    ASSUME NEW id \in Name, NEW key \in Key \cup {NoKey}
    PROVE  LET x == Drafts!Item(id, id[1], key)
           IN  x \in Drafts!ItemType /\ x.id = id /\ x.provider = id[1] /\ x.key = key
  BY DEF Drafts!Item, Drafts!ItemType

(* What is put behind the items, left of them, changed in them, and put    *)
(* among them.                                                             *)
LEMMA AppendedIs ==
    ASSUME NEW s \in Seq(Drafts!ItemType), NEW x \in Drafts!ItemType
    PROVE  /\ Append(s, x) \in Seq(Drafts!ItemType) /\ Append(s, x) # <<>>
           /\ Drafts!Entries(Append(s, x)) = Drafts!Entries(s) \cup {x}
  <1>1. PICK q : q = Append(s, x)  OBVIOUS
  <1>2. /\ q \in Seq(Drafts!ItemType) /\ DOMAIN q = (DOMAIN s) \cup {Len(s) + 1}
        /\ q[Len(s) + 1] = x
        /\ Len(q) = Len(s) + 1 /\ Len(s) \in Nat
        /\ \A i \in DOMAIN s : q[i] = s[i]
    BY <1>1
  <1>3. Drafts!Entries(q) = Drafts!Entries(s) \cup {x}  BY <1>2 DEF Drafts!Entries
  <1>4. q # <<>>  BY <1>2
  <1> QED  BY <1>1, <1>2, <1>3, <1>4

LEMMA WithoutIs ==
    ASSUME NEW c \in Drafts!Config, NEW ids
    PROVE  /\ Drafts!Without(c, ids) \in Seq(Drafts!ItemType)
           /\ Drafts!Entries(Drafts!Without(c, ids)) = {x \in Drafts!Entries(c.items) : x.id \notin ids}
  <1>1. PICK s : s = c.items  OBVIOUS
  <1>2. s \in Seq(Drafts!ItemType)  BY <1>1, ConfigIs
  <1>3. PICK S : S = {i \in DOMAIN s : s[i].id \notin ids}  OBVIOUS
  <1>4. S \in SUBSET (DOMAIN s)  BY <1>3
  <1>5. PICK q : q = Picked(s, S)  OBVIOUS
  <1>6. PICK n : n = Cardinality(S)  OBVIOUS
  <1>7. /\ q \in Seq(Drafts!ItemType) /\ Len(q) = n /\ n \in Nat
        /\ \A k \in 1..n : Nth(S, k) \in S /\ q[k] = s[Nth(S, k)]
        /\ \A i \in S : Rank(S, i) \in 1..n /\ q[Rank(S, i)] = s[i]
    BY <1>2, <1>4, <1>5, <1>6, PickedIs
  <1>8. DOMAIN q = 1..n  BY <1>7
  <1>9. Drafts!Entries(q) = {s[i] : i \in S}
    <2>1. ASSUME NEW x \in Drafts!Entries(q)  PROVE x \in {s[i] : i \in S}
      BY <1>7, <1>8 DEF Drafts!Entries
    <2>2. ASSUME NEW i \in S  PROVE s[i] \in Drafts!Entries(q)
      BY <1>7, <1>8 DEF Drafts!Entries
    <2> QED  BY <2>1, <2>2
  <1>10. {s[i] : i \in S} = {x \in Drafts!Entries(s) : x.id \notin ids}  BY <1>3 DEF Drafts!Entries
  <1>11. Drafts!Without(c, ids) = q  BY <1>1, <1>3, <1>5, DraftReads
  <1> QED  BY <1>1, <1>7, <1>9, <1>10, <1>11

LEMMA ChangedIs ==
    ASSUME NEW s \in Seq(Drafts!ItemType), NEW q \in [DOMAIN s -> Drafts!ItemType]
    PROVE  /\ q \in Seq(Drafts!ItemType) /\ (q = <<>> <=> s = <<>>)
           /\ \A y \in Drafts!Entries(q) : \E i \in DOMAIN s : y = q[i]
           /\ \A i \in DOMAIN s : q[i] \in Drafts!Entries(q) /\ s[i] \in Drafts!Entries(s)
  <1>1. DOMAIN s = 1..Len(s) /\ Len(s) \in Nat /\ DOMAIN q = 1..Len(s)  OBVIOUS
  <1>2. q \in Seq(Drafts!ItemType)  BY <1>1
  <1>3. Len(q) = Len(s)  BY <1>1, <1>2
  <1> QED  BY <1>1, <1>2, <1>3 DEF Drafts!Entries

LEMMA InsertedIs ==
    ASSUME NEW s \in Seq(Drafts!ItemType), NEW x \in Drafts!ItemType, NEW k \in DOMAIN s
    PROVE  LET q == SubSeq(s, 1, k) \o <<x>> \o SubSeq(s, k + 1, Len(s))
           IN  q \in Seq(Drafts!ItemType) /\ q # <<>>
               /\ Drafts!Entries(q) = Drafts!Entries(s) \cup {x}
  <1>1. PICK n : n = Len(s)  OBVIOUS
  <1>2. n \in Nat /\ DOMAIN s = 1..n /\ k \in Int /\ 1 <= k /\ k <= n  BY <1>1
  <1>3. PICK a : a = SubSeq(s, 1, k)  OBVIOUS
  <1>4. PICK b : b = SubSeq(s, k + 1, n)  OBVIOUS
  <1>5. a \in Seq(Drafts!ItemType) /\ Len(a) = k /\ \A i \in 1..k : a[i] = s[i]
    <2>1. \A i \in 1..k : s[i] \in Drafts!ItemType  BY <1>2
    <2>2. /\ a \in Seq(Drafts!ItemType) /\ Len(a) = k - 1 + 1
          /\ \A i \in 1..(k - 1 + 1) : a[i] = s[1 + i - 1]
      BY <1>2, <1>3, <2>1, SubSeqProperties
    <2>3. k - 1 + 1 = k /\ \A i \in 1..k : 1 + i - 1 = i  BY <1>2
    <2> QED  BY <2>2, <2>3
  <1>6. b \in Seq(Drafts!ItemType) /\ Len(b) = n - k /\ \A i \in 1..(n - k) : b[i] = s[k + i]
    <2>1. \A i \in (k + 1)..n : s[i] \in Drafts!ItemType  BY <1>2
    <2>2. /\ b \in Seq(Drafts!ItemType)
          /\ Len(b) = IF k + 1 <= n THEN n - (k + 1) + 1 ELSE 0
          /\ \A i \in 1..(n - (k + 1) + 1) : b[i] = s[(k + 1) + i - 1]
      BY <1>2, <1>4, <2>1, SubSeqProperties
    <2>3. Len(b) = n - k  BY <1>2, <2>2
    <2>4. \A i \in 1..(n - k) : i \in 1..(n - (k + 1) + 1) /\ (k + 1) + i - 1 = k + i  BY <1>2
    <2> QED  BY <2>2, <2>3, <2>4
  <1>7. PICK p : p = Append(a, x)  OBVIOUS
  <1>8. /\ p \in Seq(Drafts!ItemType) /\ Len(p) = k + 1 /\ p[k + 1] = x
        /\ \A i \in 1..k : p[i] = s[i]
    <2>1. Len(a) + 1 = k + 1 /\ DOMAIN a = 1..k  BY <1>5
    <2>2. /\ p \in Seq(Drafts!ItemType) /\ Len(p) = Len(a) + 1 /\ p[Len(a) + 1] = x
          /\ \A i \in DOMAIN a : p[i] = a[i]
      BY <1>5, <1>7
    <2> QED  BY <1>5, <2>1, <2>2
  <1>9. PICK q : q = p \o b  OBVIOUS
  <1>10. q = SubSeq(s, 1, k) \o <<x>> \o SubSeq(s, k + 1, Len(s))
    <2>1. a \o <<x>> = p  BY <1>5, <1>7, AppendIsConcat
    <2> QED  BY <1>1, <1>3, <1>4, <1>9, <2>1
  <1>11. /\ q \in Seq(Drafts!ItemType) /\ Len(q) = n + 1
         /\ \A i \in 1..(n + 1) : q[i] = IF i <= k + 1 THEN p[i] ELSE b[i - (k + 1)]
    <2>1. p \in Seq(Drafts!ItemType)  BY <1>8
    <2>2. b \in Seq(Drafts!ItemType)  BY <1>6
    <2>3. /\ q \in Seq(Drafts!ItemType) /\ Len(q) = Len(p) + Len(b)
          /\ \A i \in 1..(Len(p) + Len(b)) : q[i] = IF i <= Len(p) THEN p[i] ELSE b[i - Len(p)]
      BY <1>9, <2>1, <2>2, ConcatProperties
    <2>4. Len(p) = k + 1 /\ Len(p) + Len(b) = n + 1  BY <1>2, <1>6, <1>8
    <2> QED  BY <2>3, <2>4
  <1>12. ASSUME NEW y \in Drafts!Entries(q)  PROVE y \in Drafts!Entries(s) \cup {x}
    <2>1. PICK i \in 1..(n + 1) : y = q[i]  BY <1>2, <1>11 DEF Drafts!Entries
    <2>2. i \in Int /\ 1 <= i /\ i <= n + 1  BY <1>2
    <2>3. CASE i <= k
      <3>1. i \in 1..k /\ i <= k + 1 /\ i \in DOMAIN s  BY <1>2, <2>2, <2>3
      <3>2. y = s[i]  BY <1>8, <1>11, <2>1, <3>1
      <3> QED  BY <3>1, <3>2 DEF Drafts!Entries
    <2>4. CASE i = k + 1
      <3>1. i <= k + 1  BY <1>2, <2>4
      <3> QED  BY <1>8, <1>11, <2>1, <2>4, <3>1
    <2>5. CASE i > k + 1
      <3>1. ~(i <= k + 1) /\ i - (k + 1) \in 1..(n - k) /\ k + (i - (k + 1)) = i - 1
            /\ i - 1 \in DOMAIN s
        BY <1>2, <2>2, <2>5
      <3>2. y = s[i - 1]  BY <1>6, <1>11, <2>1, <3>1
      <3> QED  BY <3>1, <3>2 DEF Drafts!Entries
    <2> QED  BY <1>2, <2>2, <2>3, <2>4, <2>5
  <1>13. x \in Drafts!Entries(q)
    <2>1. k + 1 \in 1..(n + 1) /\ k + 1 <= k + 1  BY <1>2
    <2>2. q[k + 1] = x /\ k + 1 \in DOMAIN q  BY <1>2, <1>8, <1>11, <2>1
    <2> QED  BY <2>2 DEF Drafts!Entries
  <1>14. ASSUME NEW i \in DOMAIN s  PROVE s[i] \in Drafts!Entries(q)
    <2>1. i \in Int /\ 1 <= i /\ i <= n  BY <1>2
    <2>2. CASE i <= k
      <3>1. i \in 1..k /\ i <= k + 1 /\ i \in 1..(n + 1)  BY <1>2, <2>1, <2>2
      <3>2. q[i] = s[i] /\ i \in DOMAIN q  BY <1>2, <1>8, <1>11, <3>1
      <3> QED  BY <3>2 DEF Drafts!Entries
    <2>3. CASE ~(i <= k)
      <3>1. i + 1 \in 1..(n + 1) /\ ~(i + 1 <= k + 1) /\ (i + 1) - (k + 1) \in 1..(n - k)
            /\ k + ((i + 1) - (k + 1)) = i
        BY <1>2, <2>1, <2>3
      <3>2. q[i + 1] = s[i] /\ i + 1 \in DOMAIN q  BY <1>2, <1>6, <1>11, <3>1
      <3> QED  BY <3>2 DEF Drafts!Entries
    <2> QED  BY <2>2, <2>3
  <1>15. Drafts!Entries(q) = Drafts!Entries(s) \cup {x}
    <2>1. \A y \in Drafts!Entries(s) : y \in Drafts!Entries(q)  BY <1>14 DEF Drafts!Entries
    <2> QED  BY <1>12, <1>13, <2>1
  <1>16. q # <<>>  BY <1>2, <1>11
  <1> QED  BY <1>10, <1>11, <1>15, <1>16

----------------------------------------------------------------------------
(* The edits of a draft: what they leave of it, and what they keep.        *)
LEMMA AddProfileIs ==
    ASSUME NEW c \in Drafts!Config, NEW id \in Name, NEW key \in Key \cup {NoKey}
    PROVE  LET d == Drafts!AddProfile(c, id, key)
           IN  /\ d \in Drafts!Config /\ d.profiles = TRUE /\ d.chat = c.chat
               /\ d.active = IF c.active = None THEN id ELSE c.active
               /\ Drafts!Entries(d.items) = Drafts!Entries(c.items) \cup {Drafts!Item(id, id[1], key)}
  <1>1. PICK q : q = Append(c.items, Drafts!Item(id, id[1], key))  OBVIOUS
  <1>2. q \in Seq(Drafts!ItemType)
        /\ Drafts!Entries(q) = Drafts!Entries(c.items) \cup {Drafts!Item(id, id[1], key)}
    BY <1>1, ItemIs, ConfigIs, AppendedIs
  <1>3. PICK d : d = Drafts!AddProfile(c, id, key)  OBVIOUS
  <1>4. PICK e : e = Drafts!EnsureProfiles(c)  OBVIOUS
  <1>5. /\ e \in Drafts!Config /\ e.profiles = TRUE /\ e.items = c.items /\ e.active = c.active
        /\ e.chat = c.chat
    BY <1>4 DEF Drafts!EnsureProfiles, Drafts!Config
  <1>6. PICK a : a = IF e.active = None THEN id ELSE e.active  OBVIOUS
  <1>7. a \in Name \cup {None}  BY <1>5, <1>6, ConfigIs
  <1>8. d = [e EXCEPT !.items = q, !.active = a]
    BY <1>1, <1>3, <1>4, <1>5, <1>6 DEF Drafts!AddProfile
  <1>9. /\ d \in Drafts!Config /\ d.profiles = TRUE /\ d.items = q /\ d.active = a
        /\ d.chat = e.chat
    BY <1>2, <1>5, <1>7, <1>8 DEF Drafts!Config
  <1> QED  BY <1>2, <1>3, <1>5, <1>6, <1>9

(* Nothing but the entries of one id, or of one provider, is changed.      *)
OnlyOfId(c, d, id, to) ==
    /\ \A y \in Drafts!Entries(d.items) : \E x \in Drafts!Entries(c.items) :
          IF x.id = id THEN y.id = to ELSE y = x
    /\ \A x \in Drafts!Entries(c.items) : \E y \in Drafts!Entries(d.items) :
          IF x.id = id THEN y.id = to ELSE y = x
ProfileChanged(c, d, id, to) ==
    /\ d \in Drafts!Config /\ d.profiles = TRUE /\ d.chat = c.chat
    /\ d.active = IF c.active = id THEN to ELSE c.active
    /\ d.items = <<>> <=> c.items = <<>>
    /\ OnlyOfId(c, d, id, to)
OnlyOfProvider(c, d, p) ==
    \A y \in Drafts!Entries(d.items) : \E x \in Drafts!Entries(c.items) :
       IF x.provider = p THEN y.id = x.id ELSE y = x

LEMMA UpdateProfileIs ==
    ASSUME NEW c \in Drafts!Config, NEW id \in Name, NEW key \in KeyEdit,
           NEW newId \in Name, NEW to, to = IF newId \in Drafts!Ids(c) THEN id ELSE newId
    PROVE  ProfileChanged(c, Drafts!UpdateProfile(c, id, key, newId), id, to)
  <1>1. to \in Name  OBVIOUS
  <1>2. PICK s : s = c.items  OBVIOUS
  <1>3. s \in Seq(Drafts!ItemType)  BY <1>2, ConfigIs
  <1>4. PICK q : q = [i \in DOMAIN s |-> IF s[i].id = id
                                         THEN Drafts!WithKey([s[i] EXCEPT !.id = to], key) ELSE s[i]]
    OBVIOUS
  <1>5. ASSUME NEW i \in DOMAIN s
        PROVE  q[i] \in Drafts!ItemType /\ (IF s[i].id = id THEN q[i].id = to ELSE q[i] = s[i])
    <2>1. s[i] \in Drafts!ItemType  BY <1>3
    <2>2. PICK z : z = [s[i] EXCEPT !.id = to]  OBVIOUS
    <2>3. z \in Drafts!ItemType /\ z.id = to  BY <2>1, <2>2 DEF Drafts!ItemType
    <2>4. Drafts!WithKey(z, key) \in Drafts!ItemType /\ Drafts!WithKey(z, key).id = to
      BY <2>3 DEF Drafts!WithKey, Drafts!ItemType, KeyEdit
    <2> QED  BY <1>4, <2>1, <2>2, <2>4
  <1>6. q \in [DOMAIN s -> Drafts!ItemType]  BY <1>4, <1>5
  <1>7. PICK e : e = Drafts!EnsureProfiles(c)  OBVIOUS
  <1>8. /\ e \in Drafts!Config /\ e.profiles = TRUE /\ e.items = s /\ e.active = c.active
        /\ e.chat = c.chat
    BY <1>2, <1>7 DEF Drafts!EnsureProfiles, Drafts!Config
  <1>9. PICK a : a = IF e.active = id THEN to ELSE e.active  OBVIOUS
  <1>10. a \in Name \cup {None}  BY <1>8, <1>9, ConfigIs
  <1>11. PICK d : d = Drafts!UpdateProfile(c, id, key, newId)  OBVIOUS
  <1>12. d = [e EXCEPT !.items = q, !.active = a]
    BY <1>1, <1>4, <1>7, <1>8, <1>9, <1>11 DEF Drafts!UpdateProfile
  <1>13. q \in Seq(Drafts!ItemType) /\ (q = <<>> <=> s = <<>>)
         /\ (\A y \in Drafts!Entries(q) : \E i \in DOMAIN s : y = q[i])
         /\ (\A i \in DOMAIN s : q[i] \in Drafts!Entries(q) /\ s[i] \in Drafts!Entries(s))
    BY <1>3, <1>6, ChangedIs
  <1>14. d \in Drafts!Config /\ d.profiles = TRUE /\ d.items = q /\ d.active = a /\ d.chat = e.chat
    BY <1>8, <1>10, <1>12, <1>13 DEF Drafts!Config
  <1>15. \A y \in Drafts!Entries(q) : \E x \in Drafts!Entries(s) : IF x.id = id THEN y.id = to ELSE y = x
    BY <1>5, <1>13
  <1>16. \A x \in Drafts!Entries(s) : \E y \in Drafts!Entries(q) : IF x.id = id THEN y.id = to ELSE y = x
    BY SMTT(30), <1>5, <1>13 DEF Drafts!Entries
  <1>17. OnlyOfId(c, d, id, to)  BY <1>2, <1>14, <1>15, <1>16 DEF OnlyOfId
  <1>18. ProfileChanged(c, d, id, to)
    BY <1>2, <1>8, <1>9, <1>13, <1>14, <1>17 DEF ProfileChanged
  <1> QED  BY <1>11, <1>18

LEMMA ActiveIs ==
    ASSUME NEW c \in Drafts!Config, NEW id \in Name
    PROVE  /\ Drafts!SetActiveProfile(c, id) \in Drafts!Config
           /\ Drafts!SetActiveProfile(c, id).profiles = TRUE
           /\ Drafts!SetActiveProfile(c, id).items = c.items
           /\ Drafts!SetActiveModel(c, id) \in Drafts!Config
           /\ Drafts!SetActiveModel(c, id).items = c.items
           /\ c.profiles => Drafts!SetActiveModel(c, id).profiles
  <1>1. PICK e : e = Drafts!EnsureProfiles(c)  OBVIOUS
  <1>2. /\ e \in Drafts!Config /\ e.profiles = TRUE /\ e.items = c.items /\ e.active = c.active
    BY <1>1 DEF Drafts!EnsureProfiles, Drafts!Config
  <1>3. PICK a : a = IF id \in Drafts!Ids(c) THEN id ELSE e.active  OBVIOUS
  <1>4. a \in Name \cup {None}  BY <1>2, <1>3, ConfigIs
  <1>5. PICK d : d = Drafts!SetActiveProfile(c, id)  OBVIOUS
  <1>6. d = [e EXCEPT !.active = a]  BY <1>1, <1>3, <1>5 DEF Drafts!SetActiveProfile
  <1>7. d \in Drafts!Config /\ d.profiles = TRUE /\ d.items = c.items
    BY <1>2, <1>4, <1>6 DEF Drafts!Config
  <1>8. PICK m : m = [c EXCEPT !.active = id]  OBVIOUS
  <1>9. m \in Drafts!Config /\ m.items = c.items /\ m.profiles = c.profiles
    BY <1>8 DEF Drafts!Config
  <1>10. Drafts!SetActiveModel(c, id) = IF c.profiles THEN d ELSE m
    BY <1>5, <1>8 DEF Drafts!SetActiveModel
  <1> QED  BY <1>5, <1>7, <1>9, <1>10

LEMMA AddProviderIs ==
    ASSUME NEW c \in Drafts!Config, Drafts!Labelled(c), NEW id \in Name,
           NEW key \in Key \cup {NoKey}
    PROVE  Drafts!Draft(Drafts!AddProvider(c, id, key))
  <1>1. CASE c.profiles
    <2>1. Drafts!AddProvider(c, id, key) = Drafts!AddProfile(c, id, key)
      BY <1>1 DEF Drafts!AddProvider
    <2>2. PICK d : d = Drafts!AddProfile(c, id, key)  OBVIOUS
    <2>3. d \in Drafts!Config /\ d.profiles = TRUE  BY <2>2, AddProfileIs
    <2> QED  BY <2>1, <2>2, <2>3 DEF Drafts!Draft, Drafts!Labelled
  <1>2. CASE ~c.profiles
    <2>1. PICK x : x = Drafts!Item(id, id[1], key)  OBVIOUS
    <2>2. x \in Drafts!ItemType /\ x.provider = x.id[1]  BY <2>1, ItemIs
    <2>3. PICK q : q = Append(c.items, x)  OBVIOUS
    <2>4. q \in Seq(Drafts!ItemType) /\ Drafts!Entries(q) = Drafts!Entries(c.items) \cup {x}
      BY <2>2, <2>3, ConfigIs, AppendedIs
    <2>5. PICK e : e = [c EXCEPT !.items = q]  OBVIOUS
    <2>6. e \in Drafts!Config /\ e.items = q /\ e.profiles = c.profiles
      BY <2>4, <2>5 DEF Drafts!Config
    <2>7. PICK d : d = Drafts!EnsureActiveLegacy(e)  OBVIOUS
    <2>8. d \in Drafts!Config /\ d.items = q /\ d.profiles = c.profiles  BY <2>6, <2>7, EnsuredIs
    <2>9. Drafts!AddProvider(c, id, key) = d
      BY <1>2, <2>1, <2>3, <2>5, <2>7 DEF Drafts!AddProvider
    <2> QED  BY <1>2, <2>2, <2>4, <2>8, <2>9 DEF Drafts!Draft, Drafts!Labelled
  <1> QED  BY <1>1, <1>2

(* A provider is renamed, in the older structure with the labels of its    *)
(* models; a name that is kept changes keys only.                          *)
LEMMA UpdateProviderIs ==
    ASSUME Drafts!NamesArePairs, NEW c \in Drafts!Config, Drafts!Labelled(c),
           c.active \in Drafts!Ids(c),
           NEW p \in {n[1] : n \in Name}, NEW key \in KeyEdit,
           NEW new \in {n[1] : n \in Name},
           ~c.profiles => \A x \in Drafts!Entries(c.items) : x.provider = p => <<new, x.id[2]>> \in Name
    PROVE  LET d == Drafts!UpdateProvider(c, p, key, new)
           IN  /\ Drafts!Draft(d) /\ d.profiles = c.profiles /\ d.chat = c.chat
               /\ d.items = <<>> <=> c.items = <<>>
               /\ c.profiles \/ new = p =>
                    /\ d.active = c.active /\ Drafts!Ids(d) = Drafts!Ids(c)
                    /\ OnlyOfProvider(c, d, p)
  <1>1. PICK to : to = IF ~c.profiles /\ new \in Drafts!Providers(c) THEN p ELSE new  OBVIOUS
  <1>2. to \in {n[1] : n \in Name} /\ (new = p => to = p)  BY <1>1
  <1>3. PICK s : s = c.items  OBVIOUS
  <1>4. s \in Seq(Drafts!ItemType)
        /\ \A i \in DOMAIN s : s[i] \in Drafts!ItemType /\ s[i] \in Drafts!Entries(s)
    BY <1>3, ConfigIs DEF Drafts!Entries
  <1>5. ASSUME NEW x \in Drafts!Entries(s), x.provider = p, ~c.profiles
        PROVE  <<to, x.id[2]>> \in Name /\ (to = p => <<to, x.id[2]>> = x.id)
    <2>1. x \in Drafts!ItemType /\ x.id \in Name /\ x.id[1] = p
      <3>1. x \in Drafts!ItemType  BY <1>3, <1>5, ConfigIs
      <3>2. x.id \in Name  BY <3>1 DEF Drafts!ItemType
      <3>3. x.provider = x.id[1]  BY <1>3, <1>5 DEF Drafts!Labelled
      <3> QED  BY <1>5, <3>1, <3>2, <3>3
    <2>2. x.id = <<x.id[1], x.id[2]>>  BY <2>1 DEF Drafts!NamesArePairs
    <2>3. <<p, x.id[2]>> = x.id  BY <2>1, <2>2
    <2>4. <<new, x.id[2]>> \in Name  BY <1>3, <1>5
    <2> QED  BY <1>1, <2>1, <2>3, <2>4
  <1>6. PICK q : q = [i \in DOMAIN s |->
                        IF s[i].provider = p
                        THEN Drafts!WithKey([s[i] EXCEPT !.provider = to,
                                        !.id = IF c.profiles THEN s[i].id ELSE <<to, s[i].id[2]>>],
                                     key)
                        ELSE s[i]]
    OBVIOUS
  <1>7. ASSUME NEW i \in DOMAIN s
        PROVE  /\ q[i] \in Drafts!ItemType
               /\ IF s[i].provider = p
                  THEN q[i].id = IF c.profiles THEN s[i].id ELSE <<to, s[i].id[2]>>
                  ELSE q[i] = s[i]
               /\ ~c.profiles => q[i].provider = q[i].id[1]
    <2>1. s[i] \in Drafts!ItemType /\ s[i] \in Drafts!Entries(s)  BY <1>4
    <2>2. CASE s[i].provider = p
      <3>1. PICK id : id = IF c.profiles THEN s[i].id ELSE <<to, s[i].id[2]>>  OBVIOUS
      <3>2. id \in Name
        <4>1. CASE c.profiles  BY <2>1, <3>1, <4>1 DEF Drafts!ItemType
        <4>2. CASE ~c.profiles  BY <1>5, <2>1, <2>2, <3>1, <4>2
        <4> QED  BY <4>1, <4>2
      <3>3. PICK z : z = [s[i] EXCEPT !.provider = to, !.id = id]  OBVIOUS
      <3>4. z = [s[i] EXCEPT !.provider = to,
                             !.id = IF c.profiles THEN s[i].id ELSE <<to, s[i].id[2]>>]
        BY <3>1, <3>3
      <3>5. z \in Drafts!ItemType /\ z.id = id /\ z.provider = to
        BY <1>2, <2>1, <3>2, <3>3 DEF Drafts!ItemType
      <3>6. /\ Drafts!WithKey(z, key) \in Drafts!ItemType /\ Drafts!WithKey(z, key).id = id
            /\ Drafts!WithKey(z, key).provider = to
        BY <3>5 DEF Drafts!WithKey, Drafts!ItemType, KeyEdit
      <3>7. q[i] = Drafts!WithKey(z, key)  BY <1>6, <2>2, <3>4
      <3>8. ~c.profiles => id[1] = to  BY <3>1
      <3> QED  BY <2>2, <3>1, <3>6, <3>7, <3>8
    <2>3. CASE s[i].provider # p
      <3>1. q[i] = s[i]  BY <1>6, <2>3
      <3>2. ~c.profiles => s[i].provider = s[i].id[1]  BY <1>3, <2>1 DEF Drafts!Labelled
      <3> QED  BY <2>1, <2>3, <3>1, <3>2
    <2> QED  BY <2>2, <2>3
  <1>8. PICK a : a = IF c.active # None /\ c.active[1] = p
                     THEN (IF c.profiles THEN c.active ELSE <<to, c.active[2]>>) ELSE c.active
    OBVIOUS
  <1>9. a \in Name /\ (c.profiles \/ to = p => a = c.active)
    <2>1. PICK x \in Drafts!Entries(s) : x.id = c.active  BY <1>3, ConfigIs
    <2>2. c.active \in Name  BY ConfigIs
    <2>3. ASSUME ~c.profiles, c.active[1] = p
          PROVE  <<to, c.active[2]>> \in Name /\ (to = p => <<to, c.active[2]>> = c.active)
      <3>1. x.provider = p  BY <1>3, <2>1, <2>3 DEF Drafts!Labelled
      <3> QED  BY <1>5, <2>1, <2>3, <3>1
    <2> QED  BY <1>8, <2>2, <2>3
  <1>10. PICK d : d = Drafts!UpdateProvider(c, p, key, new)  OBVIOUS
  <1>11. d = [c EXCEPT !.items = q, !.active = a]
    BY <1>1, <1>3, <1>6, <1>8, <1>10 DEF Drafts!UpdateProvider
  <1>12. q \in [DOMAIN s -> Drafts!ItemType]  BY <1>6, <1>7
  <1>13. q \in Seq(Drafts!ItemType) /\ (q = <<>> <=> s = <<>>)
         /\ (\A y \in Drafts!Entries(q) : \E i \in DOMAIN s : y = q[i])
         /\ (\A i \in DOMAIN s : q[i] \in Drafts!Entries(q) /\ s[i] \in Drafts!Entries(s))
    BY <1>4, <1>12, ChangedIs
  <1>14. /\ d \in Drafts!Config /\ d.profiles = c.profiles /\ d.items = q /\ d.active = a
         /\ d.chat = c.chat
    BY <1>9, <1>11, <1>13 DEF Drafts!Config
  <1>15. Drafts!Draft(d)
    <2>1. \A y \in Drafts!Entries(q) : ~c.profiles => y.provider = y.id[1]  BY <1>7, <1>13
    <2>2. Drafts!Labelled(d)
      <3>1. CASE c.profiles  BY <1>14, <3>1 DEF Drafts!Labelled
      <3>2. CASE ~c.profiles  BY <1>14, <2>1, <3>2 DEF Drafts!Labelled
      <3> QED  BY <3>1, <3>2
    <2> QED  BY <1>14, <2>2 DEF Drafts!Draft
  <1>16. ASSUME c.profiles \/ to = p
         PROVE  OnlyOfProvider(c, d, p) /\ Drafts!Ids(d) = Drafts!Ids(c)
    <2>1. ASSUME NEW i \in DOMAIN s
          PROVE  IF s[i].provider = p THEN q[i].id = s[i].id ELSE q[i] = s[i]
      BY <1>4, <1>5, <1>7, <1>16, <2>1
    <2>2. \A i \in DOMAIN s : q[i].id = s[i].id  BY <2>1
    <2>3. Drafts!Ids(d) = Drafts!Ids(c)  BY <1>3, <1>12, <1>14, <2>2 DEF Drafts!Ids
    <2>4. \A y \in Drafts!Entries(q) : \E x \in Drafts!Entries(s) :
             IF x.provider = p THEN y.id = x.id ELSE y = x
      BY <1>13, <2>1
    <2> QED  BY <1>3, <1>14, <2>3, <2>4 DEF OnlyOfProvider
  <1> QED  BY <1>2, <1>3, <1>9, <1>10, <1>13, <1>14, <1>15, <1>16

(* What is removed takes a role with it, and the place of the active       *)
(* profile is the first's of those that are left.                          *)
LEMMA RemoveProfilesIs ==
    ASSUME NEW c \in Drafts!Config, NEW ids
    PROVE  LET d == Drafts!RemoveProfiles(c, ids)
           IN  /\ d \in Drafts!Config /\ d.profiles = TRUE
               /\ Drafts!Entries(d.items) = {x \in Drafts!Entries(c.items) : x.id \notin ids}
               /\ c.active \notin ids => d.active = c.active
               /\ d.items # <<>> => (c.active \in ids => d.active \in Drafts!Ids(d))
               /\ d.chat = IF c.chat \in {Drafts!ById(id) : id \in ids} THEN None ELSE c.chat
  <1>1. PICK q : q = Drafts!Without(c, ids)  OBVIOUS
  <1>2. q \in Seq(Drafts!ItemType)
        /\ Drafts!Entries(q) = {x \in Drafts!Entries(c.items) : x.id \notin ids}
    BY <1>1, WithoutIs
  <1>3. PICK e : e = Drafts!EnsureProfiles(c)  OBVIOUS
  <1>4. /\ e \in Drafts!Config /\ e.profiles = TRUE /\ e.active = c.active /\ e.chat = c.chat
    BY <1>3 DEF Drafts!EnsureProfiles, Drafts!Config
  <1>5. PICK a : a = IF e.active \notin ids THEN e.active ELSE IF q = <<>> THEN None ELSE q[1].id
    OBVIOUS
  <1>6. q # <<>> => q[1] \in Drafts!Entries(q) /\ q[1].id \in Name
    <2>1. q # <<>> => 1 \in DOMAIN q /\ q[1] \in Drafts!ItemType  BY <1>2
    <2> QED  BY <2>1 DEF Drafts!Entries, Drafts!ItemType
  <1>7. a \in Name \cup {None}  BY <1>4, <1>5, <1>6, ConfigIs
  <1>8. PICK r : r = IF e.chat \in {Drafts!ById(id) : id \in ids} THEN None ELSE e.chat  OBVIOUS
  <1>9. r \in {None} \cup ({"id", "label"} \X Name)  BY <1>4, <1>8, ConfigIs
  <1>10. PICK d : d = Drafts!RemoveProfiles(c, ids)  OBVIOUS
  <1>11. d = [e EXCEPT !.items = q, !.active = a, !.chat = r]
    BY <1>1, <1>3, <1>5, <1>8, <1>10 DEF Drafts!RemoveProfiles
  <1>12. d \in Drafts!Config /\ d.profiles = TRUE /\ d.items = q /\ d.active = a /\ d.chat = r
    BY <1>2, <1>4, <1>7, <1>9, <1>11 DEF Drafts!Config
  <1>13. d.items # <<>> => (c.active \in ids => d.active \in Drafts!Ids(d))
    BY <1>4, <1>5, <1>6, <1>12, ConfigIs
  <1> QED  BY <1>2, <1>4, <1>5, <1>8, <1>10, <1>12, <1>13

(* In the older structure the active model is seen to after what is gone.  *)
LEMMA RemoveLegacyIs ==
    ASSUME NEW c \in Drafts!Config, ~c.profiles, Drafts!Labelled(c), NEW ids
    PROVE  LET d == Drafts!EnsureActiveLegacy([c EXCEPT !.items = Drafts!Without(c, ids)])
           IN  /\ Drafts!Draft(d) /\ d.profiles = FALSE /\ d.chat = c.chat
               /\ Drafts!Entries(d.items) = {x \in Drafts!Entries(c.items) : x.id \notin ids}
               /\ c.active \in Drafts!Ids(d) => d.active = c.active
               /\ d.items # <<>> => d.active \in Drafts!Ids(d)
  <1>1. PICK q : q = Drafts!Without(c, ids)  OBVIOUS
  <1>2. q \in Seq(Drafts!ItemType)
        /\ Drafts!Entries(q) = {x \in Drafts!Entries(c.items) : x.id \notin ids}
    BY <1>1, WithoutIs
  <1>3. PICK e : e = [c EXCEPT !.items = q]  OBVIOUS
  <1>4. /\ e \in Drafts!Config /\ e.items = q /\ e.profiles = FALSE /\ e.chat = c.chat
        /\ e.active = c.active
    BY <1>2, <1>3, ConfigIs DEF Drafts!Config
  <1>5. PICK d : d = Drafts!EnsureActiveLegacy(e)  OBVIOUS
  <1>6. /\ d \in Drafts!Config /\ d.items = q /\ d.profiles = FALSE /\ d.chat = c.chat
        /\ e.active \in Drafts!Ids(e) => d = e
        /\ e.items # <<>> => d.active \in Drafts!Ids(d)
    BY <1>4, <1>5, EnsuredIs
  <1>7. Drafts!Ids(d) = Drafts!Ids(e)  BY <1>4, <1>6 DEF Drafts!Ids
  <1>8. Drafts!Labelled(d)  BY <1>2, <1>6 DEF Drafts!Labelled
  <1> QED  BY <1>1, <1>2, <1>3, <1>4, <1>5, <1>6, <1>7, <1>8 DEF Drafts!Draft

LEMMA AddModelIs ==
    ASSUME NEW c \in Drafts!Config, Drafts!Labelled(c), NEW id \in Name,
           id[1] \in Drafts!Providers(c)
    PROVE  LET d == Drafts!AddModel(c, id)
           IN  /\ Drafts!Draft(d) /\ d.profiles = c.profiles /\ d.chat = c.chat
               /\ d.active = c.active
               /\ d.items # <<>>
               /\ \E key \in Key \cup {NoKey} :
                     Drafts!Entries(d.items) = Drafts!Entries(c.items) \cup {Drafts!Item(id, id[1], key)}
  <1>1. PICK s : s = c.items  OBVIOUS
  <1>2. /\ s \in Seq(Drafts!ItemType) /\ DOMAIN s = 1..Len(s) /\ Len(s) \in Nat
        /\ \A i \in DOMAIN s : s[i] \in Drafts!ItemType
    BY <1>1, ConfigIs
  <1>3. PICK S : S = {i \in DOMAIN s : s[i].provider = id[1]}  OBVIOUS
  <1>4. S # {}  BY <1>1, <1>3 DEF Drafts!Providers
  <1>5. PICK last : last = CHOOSE i \in S : \A j \in S : j <= i  OBVIOUS
  <1>6. last \in DOMAIN s
    <2>1. S \in SUBSET (1..Len(s))  BY <1>2, <1>3
    <2>2. S \in SUBSET Int /\ IsFiniteSet(S)  BY <1>2, <2>1, PositionsAre
    <2>3. PICK i : i \in S  BY <1>4
    <2>4. Nth(S, Cardinality(S)) \in S /\ \A j \in S : j <= Nth(S, Cardinality(S))
      BY <2>2, <2>3, NthEnds
    <2>5. last \in S  BY <1>5, <2>4
    <2> QED  BY <1>3, <2>5
  <1>7. s[last].key \in Key \cup {NoKey}  BY <1>2, <1>6 DEF Drafts!ItemType
  <1>8. PICK x : x = Drafts!Item(id, id[1], s[last].key)  OBVIOUS
  <1>9. x \in Drafts!ItemType /\ x.provider = x.id[1]  BY <1>7, <1>8, ItemIs
  <1>10. PICK q : q = SubSeq(s, 1, last) \o <<x>> \o SubSeq(s, last + 1, Len(s))  OBVIOUS
  <1>11. q \in Seq(Drafts!ItemType) /\ q # <<>> /\ Drafts!Entries(q) = Drafts!Entries(s) \cup {x}
    BY <1>2, <1>6, <1>9, <1>10, InsertedIs
  <1>12. PICK d : d = Drafts!AddModel(c, id)  OBVIOUS
  <1>13. d = [c EXCEPT !.items = q]
    BY <1>1, <1>3, <1>5, <1>8, <1>10, <1>12 DEF Drafts!AddModel
  <1>14. /\ d \in Drafts!Config /\ d.items = q /\ d.profiles = c.profiles /\ d.chat = c.chat
         /\ d.active = c.active
    BY <1>11, <1>13 DEF Drafts!Config
  <1>15. Drafts!Draft(d)  BY <1>1, <1>9, <1>11, <1>14 DEF Drafts!Draft, Drafts!Labelled
  <1> QED  BY <1>1, <1>7, <1>8, <1>11, <1>12, <1>14, <1>15

LEMMA UpdateModelIs ==
    ASSUME NEW c \in Drafts!Config, Drafts!Labelled(c), NEW id \in Name, NEW newId \in Name,
           id[1] = newId[1]
    PROVE  Drafts!Draft(Drafts!UpdateModel(c, id, newId))
  <1>1. CASE newId \in Drafts!Ids(c)  BY <1>1 DEF Drafts!UpdateModel, Drafts!Draft
  <1>2. CASE newId \notin Drafts!Ids(c)
    <2>1. PICK s : s = c.items  OBVIOUS
    <2>2. s \in Seq(Drafts!ItemType)
          /\ \A i \in DOMAIN s : s[i] \in Drafts!ItemType /\ s[i] \in Drafts!Entries(s)
      BY <2>1, ConfigIs DEF Drafts!Entries
    <2>3. PICK q :
             q = [i \in DOMAIN s |-> IF s[i].id = id THEN [s[i] EXCEPT !.id = newId] ELSE s[i]]
      OBVIOUS
    <2>4. ASSUME NEW i \in DOMAIN s
          PROVE  q[i] \in Drafts!ItemType /\ (~c.profiles => q[i].provider = q[i].id[1])
      <3>1. s[i] \in Drafts!ItemType /\ (~c.profiles => s[i].provider = s[i].id[1])
        BY <2>1, <2>2 DEF Drafts!Labelled
      <3>2. q[i] = IF s[i].id = id THEN [s[i] EXCEPT !.id = newId] ELSE s[i]  BY <2>3
      <3> QED  BY <3>1, <3>2 DEF Drafts!ItemType
    <2>5. q \in [DOMAIN s -> Drafts!ItemType]  BY <2>3, <2>4
    <2>6. q \in Seq(Drafts!ItemType) /\ \A y \in Drafts!Entries(q) : \E i \in DOMAIN s : y = q[i]
      BY <2>2, <2>5, ChangedIs
    <2>7. PICK a : a = IF c.active = id THEN newId ELSE c.active  OBVIOUS
    <2>8. a \in Name \cup {None}  BY <2>7, ConfigIs
    <2>9. PICK d : d = Drafts!UpdateModel(c, id, newId)  OBVIOUS
    <2>10. d = [c EXCEPT !.items = q, !.active = a]
      BY <1>2, <2>1, <2>3, <2>7, <2>9 DEF Drafts!UpdateModel
    <2>11. d \in Drafts!Config /\ d.items = q /\ d.profiles = c.profiles
      BY <2>6, <2>8, <2>10 DEF Drafts!Config
    <2>12. Drafts!Draft(d)  BY <2>4, <2>6, <2>11 DEF Drafts!Draft, Drafts!Labelled
    <2> QED  BY <2>9, <2>12
  <1> QED  BY <1>1, <1>2

----------------------------------------------------------------------------
(* The invariant: what is in use is whole and has an active item, what is  *)
(* on disk is what save() writes, and but for a switch that was not saved  *)
(* the one is the other.                                                   *)
SettingsInv ==
    /\ Drafts!Sound(live) /\ live.active \in Drafts!Ids(live)
    /\ Drafts!Filed(disk) /\ Drafts!RestartAgrees
    /\ doubt \in {"none", "ahead", "unsynced"}
    /\ live.profiles /\ doubt \in {"none", "ahead"} => shown = Drafts!Resolve(live)

LEMMA LoadedIs ==
    ASSUME NEW f, Drafts!Draft(f)
    PROVE  /\ Drafts!Draft(Drafts!Loaded(f)) /\ Drafts!Loaded(f).items = f.items
           /\ Drafts!Ids(Drafts!Loaded(f)) = Drafts!Ids(f)
           /\ Drafts!Loaded(f).profiles = f.profiles /\ Drafts!Loaded(f).chat = f.chat
           /\ f.active \in Drafts!Ids(f) => Drafts!Loaded(f) = f
           /\ f.items # <<>> /\ ~f.profiles => Drafts!Loaded(f).active \in Drafts!Ids(f)
  <1>1. f \in Drafts!Config /\ Drafts!Labelled(f)  BY DEF Drafts!Draft
  <1>2. PICK g : g = Drafts!Loaded(f)  OBVIOUS
  <1>3. g = f \/ (~f.profiles /\ g = Drafts!EnsureActiveLegacy(f))  BY <1>2 DEF Drafts!Loaded
  <1>4. /\ g \in Drafts!Config /\ g.items = f.items /\ g.profiles = f.profiles /\ g.chat = f.chat
        /\ f.active \in Drafts!Ids(f) => g = f
    <2>1. CASE g = f  BY <1>1, <2>1
    <2>2. CASE g = Drafts!EnsureActiveLegacy(f)  BY <1>1, <2>2, EnsuredIs
    <2> QED  BY <1>3, <2>1, <2>2
  <1>5. Drafts!Ids(g) = Drafts!Ids(f) /\ Drafts!Labelled(g)  BY <1>1, <1>4, SameItems
  <1>6. ASSUME f.items # <<>>, ~f.profiles  PROVE g.active \in Drafts!Ids(f)
    <2>1. g = Drafts!EnsureActiveLegacy(f)  BY <1>2, <1>6 DEF Drafts!Loaded
    <2>2. g.active \in Drafts!Ids(g)  BY <1>1, <1>6, <2>1, EnsuredIs
    <2> QED  BY <1>5, <2>2
  <1> QED  BY <1>2, <1>4, <1>5, <1>6 DEF Drafts!Draft

(* A file that was written is loaded whole.                                *)
LEMMA FiledIs ==
    ASSUME NEW f, Drafts!Filed(f)
    PROVE  Drafts!Sound(Drafts!Loaded(f))
           /\ Drafts!Loaded(f).active \in Drafts!Ids(Drafts!Loaded(f))
           /\ Drafts!Loaded(f).active \in Drafts!Ids(f)
           /\ Drafts!Loaded(f) = IF Drafts!Loaded(f).profiles THEN Drafts!Loaded(f)
                          ELSE [Drafts!Loaded(f) EXCEPT !.chat = None]
  <1>1. Drafts!Draft(f) /\ f.items # <<>> /\ Drafts!Distinct(f)  BY DEF Drafts!Filed, Drafts!Sound
  <1>2. PICK g : g = Drafts!Loaded(f)  OBVIOUS
  <1>3. /\ Drafts!Draft(g) /\ g.items = f.items /\ Drafts!Ids(g) = Drafts!Ids(f)
        /\ g.profiles = f.profiles
        /\ g.chat = f.chat /\ (f.active \in Drafts!Ids(f) => g = f)
        /\ ~f.profiles => g.active \in Drafts!Ids(f)
    BY <1>1, <1>2, LoadedIs
  <1>4. Drafts!Sound(g)  BY <1>1, <1>3, SameItems DEF Drafts!Sound
  <1>5. g.active \in Drafts!Ids(f)  BY <1>3 DEF Drafts!Filed
  <1>6. g = IF g.profiles THEN g ELSE [g EXCEPT !.chat = None]
    <2>1. CASE g.profiles  BY <2>1
    <2>2. CASE ~g.profiles
      <3>1. g.chat = None /\ g \in Drafts!Config  BY <1>3, <2>2 DEF Drafts!Filed, Drafts!Draft
      <3>2. [g EXCEPT !.chat = None] = g  BY <3>1 DEF Drafts!Config
      <3> QED  BY <2>2, <3>2
    <2> QED  BY <2>1, <2>2
  <1> QED  BY <1>2, <1>3, <1>4, <1>5, <1>6

(* What is written of a configuration is a file to load it from.           *)
LEMMA WrittenIs ==
    ASSUME NEW c, Drafts!Sound(c), c.active \in Drafts!Ids(c)
    PROVE  /\ Drafts!Filed(Drafts!Written(c))
           /\ Drafts!Loaded(Drafts!Written(c)) = IF c.profiles THEN c ELSE [c EXCEPT !.chat = None]
  <1>1. c \in Drafts!Config /\ Drafts!Draft(c) /\ c.items # <<>> /\ Drafts!Distinct(c)
    BY DEF Drafts!Sound, Drafts!Draft
  <1>2. PICK f : f = Drafts!Written(c)  OBVIOUS
  <1>3. f = IF c.profiles THEN c ELSE [c EXCEPT !.chat = None]  BY <1>2 DEF Drafts!Written
  <1>4. /\ f \in Drafts!Config /\ f.items = c.items /\ f.profiles = c.profiles
        /\ f.active = c.active
        /\ ~f.profiles => f.chat = None
    BY <1>1, <1>3 DEF Drafts!Config
  <1>5. Drafts!Ids(f) = Drafts!Ids(c) /\ Drafts!Distinct(f) /\ Drafts!Labelled(f)
    BY <1>1, <1>4, SameItems DEF Drafts!Draft
  <1>6. Drafts!Draft(f) /\ Drafts!Filed(f)
    BY <1>1, <1>4, <1>5 DEF Drafts!Filed, Drafts!Sound, Drafts!Draft
  <1>7. Drafts!Loaded(f) = f  BY <1>4, <1>5, <1>6, LoadedIs
  <1> QED  BY <1>2, <1>3, <1>6, <1>7

LEMMA Applied ==
    ASSUME NEW d, Drafts!Draft(d), Drafts!ApplyTo(d)
    PROVE  /\ Drafts!Sound(live') /\ live'.active \in Drafts!Ids(live') /\ Drafts!Filed(disk')
           /\ Drafts!RestartAgrees'
           /\ live' = Drafts!Repaired(d)
  <1>1. Drafts!Valid(d) /\ live' = Drafts!Repaired(d) /\ disk' = Drafts!Written(live')
    BY DEF Drafts!ApplyTo
  <1>2. d \in Drafts!Config  BY DEF Drafts!Draft
  <1>3. Drafts!Distinct(d) /\ d.items # <<>>  BY <1>1, <1>2, ValidIsDistinct
  <1>4. PICK g : g = live'  OBVIOUS
  <1>5. /\ g \in Drafts!Config /\ g.items = d.items /\ g.profiles = d.profiles
        /\ Drafts!Ids(g) = Drafts!Ids(d) /\ g.active \in Drafts!Ids(d)
    BY <1>1, <1>2, <1>3, <1>4, RepairedIs
  <1>6. Drafts!Distinct(g) /\ Drafts!Labelled(g)  BY <1>3, <1>5, SameItems DEF Drafts!Draft
  <1>7. Drafts!Sound(g)  BY <1>3, <1>5, <1>6 DEF Drafts!Sound, Drafts!Draft
  <1>8. Drafts!Filed(Drafts!Written(g))
        /\ Drafts!Loaded(Drafts!Written(g)) = IF g.profiles THEN g ELSE [g EXCEPT !.chat = None]
    BY <1>5, <1>7, WrittenIs
  <1> QED  BY <1>1, <1>4, <1>5, <1>7, <1>8 DEF Drafts!RestartAgrees

LEMMA SaveFailsInv ==
    ASSUME SettingsInv, Drafts!SaveFails
    PROVE  SettingsInv'
  <1>1. live' = Drafts!Loaded(disk) /\ disk' = disk /\ shown' = shown
        /\ doubt' = (IF doubt = "ahead" THEN "unsynced" ELSE doubt)
    BY DEF Drafts!SaveFails
  <1>2. Drafts!Filed(disk)  BY DEF SettingsInv
  <1>3. /\ Drafts!Sound(Drafts!Loaded(disk))
        /\ Drafts!Loaded(disk).active \in Drafts!Ids(Drafts!Loaded(disk))
        /\ Drafts!Loaded(disk) = IF Drafts!Loaded(disk).profiles THEN Drafts!Loaded(disk)
                          ELSE [Drafts!Loaded(disk) EXCEPT !.chat = None]
    BY <1>2, FiledIs
  <1>4. Drafts!RestartAgrees'  BY <1>1, <1>3 DEF Drafts!RestartAgrees
  <1>5. doubt' \in {"none", "ahead", "unsynced"}  BY <1>1 DEF SettingsInv
  <1>6. ASSUME live'.profiles, doubt' \in {"none", "ahead"}  PROVE shown' = Drafts!Resolve(live')
    <2>1. doubt = "none"  BY <1>1, <1>6 DEF SettingsInv
    <2>2. Drafts!Loaded(disk) = IF live.profiles THEN live ELSE [live EXCEPT !.chat = None]
      BY <2>1 DEF SettingsInv, Drafts!RestartAgrees
    <2>3. live.profiles
      <3> SUFFICES ASSUME ~live.profiles  PROVE FALSE  OBVIOUS
      <3>1. Drafts!Loaded(disk) = [live EXCEPT !.chat = None] /\ live \in Drafts!Config
        BY <2>2 DEF SettingsInv, Drafts!Sound, Drafts!Draft
      <3>2. ~Drafts!Loaded(disk).profiles  BY <3>1 DEF Drafts!Config
      <3> QED  BY <1>1, <1>6, <3>2
    <2>4. live' = live  BY <1>1, <2>2, <2>3
    <2> QED  BY <1>1, <2>1, <2>3, <2>4 DEF SettingsInv
  <1>7. Drafts!Sound(live') /\ live'.active \in Drafts!Ids(live') /\ Drafts!Filed(disk')
    BY <1>1, <1>2, <1>3
  <1> QED  BY <1>4, <1>5, <1>6, <1>7 DEF SettingsInv

LEMMA CommitInv ==
    ASSUME SettingsInv, NEW d, Drafts!Draft(d), Drafts!Commit(d)
    PROVE  SettingsInv'
  <1>1. CASE Drafts!SaveFails  BY <1>1, SaveFailsInv
  <1>2. CASE Drafts!ApplyTo(d) /\ Drafts!SwitchAfterSave
    <2>1. Drafts!Sound(live') /\ live'.active \in Drafts!Ids(live') /\ Drafts!Filed(disk')
          /\ Drafts!RestartAgrees'
      BY <1>2, Applied
    <2>2. shown' = Drafts!Resolve(live') /\ doubt' = "none"  BY <1>2 DEF Drafts!SwitchAfterSave
    <2> QED  BY <2>1, <2>2 DEF SettingsInv
  <1> QED  BY <1>1, <1>2 DEF Drafts!Commit

(* Saved as it is, what is in use stays what it is.                        *)
LEMMA WorkspaceSaveInv ==
    ASSUME SettingsInv, Drafts!WorkspaceSave
    PROVE  SettingsInv'
  <1>1. CASE Drafts!SaveFails  BY <1>1, SaveFailsInv
  <1>2. CASE Drafts!ApplyTo(live) /\ doubt' = (IF doubt = "ahead" THEN "none" ELSE doubt) /\ shown' = shown
    <2>0. Drafts!Draft(live) /\ live \in Drafts!Config /\ live.items # <<>>
          /\ live.active \in Drafts!Ids(live)
      BY DEF SettingsInv, Drafts!Sound, Drafts!Draft
    <2>1. Drafts!Sound(live') /\ live'.active \in Drafts!Ids(live') /\ Drafts!Filed(disk')
          /\ Drafts!RestartAgrees'
          /\ live' = Drafts!Repaired(live)
      BY <1>2, <2>0, Applied
    <2>2. live' = live  BY <2>0, <2>1, RepairedIs
    <2> QED  BY <1>2, <2>1, <2>2 DEF SettingsInv
  <1> QED  BY <1>1, <1>2 DEF Drafts!WorkspaceSave, Drafts!CommitOnly

LEMMA RestartInv ==
    ASSUME SettingsInv, Drafts!Restart
    PROVE  SettingsInv'
  <1>1. live' = Drafts!Loaded(disk) /\ disk' = disk /\ shown' = Drafts!Resolve(live')
        /\ doubt' = "none"
    BY DEF Drafts!Restart, Drafts!SwitchAfterSave
  <1>2. Drafts!Filed(disk)  BY DEF SettingsInv
  <1>3. /\ Drafts!Sound(Drafts!Loaded(disk))
        /\ Drafts!Loaded(disk).active \in Drafts!Ids(Drafts!Loaded(disk))
        /\ Drafts!Loaded(disk) = IF Drafts!Loaded(disk).profiles THEN Drafts!Loaded(disk)
                          ELSE [Drafts!Loaded(disk) EXCEPT !.chat = None]
    BY <1>2, FiledIs
  <1>4. Drafts!RestartAgrees'  BY <1>1, <1>3 DEF Drafts!RestartAgrees
  <1> QED  BY <1>1, <1>2, <1>3, <1>4 DEF SettingsInv

LEMMA ConfigRestoreInv ==
    ASSUME SettingsInv, Drafts!FilesAreWritten, Drafts!ConfigRestore
    PROVE  SettingsInv'
  <1>1. PICK b \in Start : disk' = b /\ live' = Drafts!Loaded(b) /\ shown' = Drafts!Resolve(live')
        /\ doubt' = "none"
    BY DEF Drafts!ConfigRestore, Drafts!SwitchAfterSave
  <1>2. Drafts!Filed(b)  BY DEF Drafts!FilesAreWritten
  <1>3. /\ Drafts!Sound(Drafts!Loaded(b))
        /\ Drafts!Loaded(b).active \in Drafts!Ids(Drafts!Loaded(b))
        /\ Drafts!Loaded(b) = IF Drafts!Loaded(b).profiles THEN Drafts!Loaded(b)
                       ELSE [Drafts!Loaded(b) EXCEPT !.chat = None]
    BY <1>2, FiledIs
  <1>4. Drafts!RestartAgrees'  BY <1>1, <1>3 DEF Drafts!RestartAgrees
  <1> QED  BY <1>1, <1>2, <1>3, <1>4 DEF SettingsInv

(* A switch is saved, or the file falls behind.                            *)
LEMMA SwitchInv ==
    ASSUME SettingsInv, Drafts!SwitchModelProfile
    PROVE  SettingsInv'
  <1>1. PICK id \in Drafts!Ids(live) :
           /\ live' = Drafts!Switched(live, id) /\ shown' = Drafts!Resolve(live')
           /\ \/ disk' = Drafts!Written(live') /\ doubt' = "none"
              \/ doubt' = "ahead" /\ disk' = disk
    BY DEF Drafts!SwitchModelProfile
  <1>2. Drafts!Draft(live) /\ live \in Drafts!Config /\ live.items # <<>> /\ Drafts!Distinct(live)
        /\ Drafts!Filed(disk)
    BY DEF SettingsInv, Drafts!Sound, Drafts!Draft
  <1>3. id \in Name  BY <1>2, ConfigIs
  <1>4. PICK role : role = IF live.chat = None THEN None
                           ELSE IF live.profiles THEN Drafts!ById(id) ELSE Drafts!Label(id)
    OBVIOUS
  <1>5. role \in {None} \cup ({"id", "label"} \X Name)  BY <1>3, <1>4 DEF Drafts!ById, Drafts!Label
  <1>6. live' = [live EXCEPT !.active = id, !.chat = role]  BY <1>1, <1>4 DEF Drafts!Switched
  <1>7. /\ live' \in Drafts!Config /\ live'.items = live.items /\ live'.profiles = live.profiles
        /\ live'.active = id
    BY <1>2, <1>3, <1>5, <1>6 DEF Drafts!Config
  <1>8. PICK g : g = live'  OBVIOUS
  <1>9. Drafts!Ids(g) = Drafts!Ids(live) /\ Drafts!Distinct(g) /\ Drafts!Labelled(g)
    BY <1>2, <1>7, <1>8, SameItems DEF Drafts!Draft
  <1>10. Drafts!Sound(g) /\ g.active \in Drafts!Ids(g)
    BY <1>2, <1>7, <1>8, <1>9 DEF Drafts!Sound, Drafts!Draft
  <1>11. CASE disk' = Drafts!Written(live') /\ doubt' = "none"
    <2>1. /\ Drafts!Filed(Drafts!Written(g))
          /\ Drafts!Loaded(Drafts!Written(g)) = IF g.profiles THEN g ELSE [g EXCEPT !.chat = None]
      BY <1>10, WrittenIs
    <2>2. Drafts!RestartAgrees'  BY <1>8, <1>11, <2>1 DEF Drafts!RestartAgrees
    <2> QED  BY <1>1, <1>8, <1>10, <1>11, <2>1, <2>2 DEF SettingsInv
  <1>12. CASE doubt' = "ahead" /\ disk' = disk
    <2>1. Drafts!RestartAgrees'  BY <1>12 DEF Drafts!RestartAgrees
    <2> QED  BY <1>1, <1>2, <1>8, <1>10, <1>12, <2>1 DEF SettingsInv
  <1> QED  BY <1>1, <1>11, <1>12

LEMMA WizardInv ==
    ASSUME SettingsInv, Drafts!RunFirstRunWizard
    PROVE  SettingsInv'
  <1>1. PICK id \in Name \ Drafts!Ids(disk), key \in Key \cup {NoKey} :
           /\ Drafts!ApplyTo(Drafts!SetActiveModel(Drafts!AddProvider(Drafts!Loaded(disk), id, key), id))
           /\ doubt' = "unsynced" /\ disk.profiles
    BY DEF Drafts!RunFirstRunWizard, Drafts!Keys
  <1>2. PICK c : c = Drafts!Loaded(disk)  OBVIOUS
  <1>3. Drafts!Draft(c)  BY <1>2, FiledIs DEF SettingsInv, Drafts!Sound
  <1>4. c \in Drafts!Config /\ Drafts!Labelled(c)  BY <1>3 DEF Drafts!Draft
  <1>5. PICK e : e = Drafts!AddProvider(c, id, key)  OBVIOUS
  <1>6. Drafts!Draft(e) /\ e \in Drafts!Config  BY <1>4, <1>5, AddProviderIs DEF Drafts!Draft
  <1>7. PICK d : d = Drafts!SetActiveModel(e, id)  OBVIOUS
  <1>8. d \in Drafts!Config /\ d.items = e.items /\ (e.profiles => d.profiles)
    BY <1>6, <1>7, ActiveIs
  <1>9. Drafts!Draft(d)  BY <1>6, <1>8, SameItems DEF Drafts!Draft
  <1>10. Drafts!ApplyTo(d)  BY <1>1, <1>2, <1>5, <1>7
  <1>11. Drafts!Sound(live') /\ live'.active \in Drafts!Ids(live') /\ Drafts!Filed(disk')
         /\ Drafts!RestartAgrees'
    BY <1>9, <1>10, Applied
  <1> QED  BY <1>1, <1>11 DEF SettingsInv

----------------------------------------------------------------------------
(* What an edit of one entry spares: the active profile and the role, as   *)
(* long as the profile they name is there, and the keys of other providers.*)
RoleSpared(c, d) ==
    \/ d.chat = c.chat /\ (c.chat # None => c.chat[2] \in Drafts!Ids(d))
    \/ d.chat = None /\ c.chat # None /\ c.chat[2] \notin Drafts!Ids(d)
KeysSpared(c, d) ==
    \E p : \A x \in Drafts!Entries(c.items), y \in Drafts!Entries(d.items) :
              x.id = y.id => x.key = y.key \/ x.provider = p
Spared(c, d) ==
    /\ c.profiles => d.profiles
    /\ c.active \in Drafts!Ids(d) => d.active = c.active
    /\ d.active \in Drafts!Ids(d) /\ RoleSpared(c, d) /\ KeysSpared(c, d)
Edit(c, d) == Drafts!Draft(d) /\ (Drafts!Settled(c) => Spared(c, d))

InUse(c) ==
    c \in Drafts!Config /\ Drafts!Labelled(c) /\ c.items # <<>> /\ Drafts!Distinct(c) /\ c.active \in Drafts!Ids(c)

LEMMA LiveIsInUse ==
    ASSUME SettingsInv
    PROVE  InUse(live) /\ Drafts!Ids(live) \subseteq Name
  <1>1. InUse(live)  BY DEF SettingsInv, Drafts!Sound, Drafts!Draft, InUse
  <1> QED  BY <1>1, ConfigIs DEF InUse

LEMMA RoleIs ==
    ASSUME NEW c, InUse(c), Drafts!Settled(c), c.chat # None
    PROVE  c.profiles /\ c.chat[2] \in Drafts!Ids(c) /\ c.chat = Drafts!ById(c.chat[2])
  <1>1. c.profiles /\ c.chat[2] \in Drafts!Ids(c) /\ c.chat[1] # "label"
    BY DEF Drafts!Settled, Drafts!Names
  <1>2. c.chat \in {"id", "label"} \X Name  BY ConfigIs DEF InUse
  <1>3. c.chat[1] = "id" /\ c.chat = <<c.chat[1], c.chat[2]>>  BY <1>1, <1>2
  <1> QED  BY <1>1, <1>3 DEF Drafts!ById

(* The names stay: the role is spared where it is left alone.              *)
LEMMA RoleStays ==
    ASSUME NEW c, InUse(c), Drafts!Settled(c), NEW d, d.chat = c.chat,
           Drafts!Ids(c) \subseteq Drafts!Ids(d)
    PROVE  RoleSpared(c, d)
  <1>1. c.chat # None => c.chat[2] \in Drafts!Ids(c)  BY RoleIs
  <1> QED  BY <1>1 DEF RoleSpared

LEMMA LeftAsItIs ==
    ASSUME NEW c, InUse(c)
    PROVE  Edit(c, c)
  <1>1. Drafts!Draft(c)  BY DEF InUse, Drafts!Draft
  <1>2. KeysSpared(c, c)  BY DEF KeysSpared, InUse, Drafts!Distinct
  <1>3. Drafts!Settled(c) => RoleSpared(c, c)  BY RoleStays
  <1> QED  BY <1>1, <1>2, <1>3 DEF Edit, Spared, InUse

LEMMA ProfileIsEdited ==
    ASSUME NEW c, InUse(c), NEW id \in Drafts!Ids(c), NEW key \in KeyEdit
    PROVE  Edit(c, Drafts!UpdateProfile(c, id, key, id))
  <1>0. c \in Drafts!Config /\ Drafts!Distinct(c) /\ id \in Name /\ c.active \in Drafts!Ids(c)
    BY ConfigIs DEF InUse
  <1>1. PICK d : d = Drafts!UpdateProfile(c, id, key, id)  OBVIOUS
  <1>2. /\ d \in Drafts!Config /\ d.profiles = TRUE /\ d.chat = c.chat /\ d.active = c.active
        /\ \A y \in Drafts!Entries(d.items) : \E x \in Drafts!Entries(c.items) :
              IF x.id = id THEN y.id = id ELSE y = x
        /\ \A x \in Drafts!Entries(c.items) : \E y \in Drafts!Entries(d.items) :
              IF x.id = id THEN y.id = id ELSE y = x
    <2>1. PICK to : to = IF id \in Drafts!Ids(c) THEN id ELSE id  OBVIOUS
    <2>2. ProfileChanged(c, d, id, to)  BY <1>0, <1>1, <2>1, UpdateProfileIs
    <2>3. to = id  BY <2>1
    <2> QED  BY <2>2, <2>3 DEF ProfileChanged, OnlyOfId
  <1>3. Drafts!Ids(c) = {x.id : x \in Drafts!Entries(c.items)}
        /\ Drafts!Ids(d) = {y.id : y \in Drafts!Entries(d.items)}
    BY <1>0, <1>2, ConfigIs
  <1>4. Drafts!Ids(c) \subseteq Drafts!Ids(d)
    <2>1. ASSUME NEW x \in Drafts!Entries(c.items)
          PROVE x.id \in {y.id : y \in Drafts!Entries(d.items)}
      <3>1. PICK y \in Drafts!Entries(d.items) : IF x.id = id THEN y.id = id ELSE y = x  BY <1>2
      <3>2. y.id = x.id  BY <3>1
      <3> QED  BY <3>2
    <2> QED  BY <1>3, <2>1
  <1>5. PICK z \in Drafts!Entries(c.items) : z.id = id  BY <1>3
  <1>6. ASSUME NEW x \in Drafts!Entries(c.items), NEW y \in Drafts!Entries(d.items), x.id = y.id
        PROVE  x.key = y.key \/ x.provider = z.provider
    <2>1. PICK w \in Drafts!Entries(c.items) : IF w.id = id THEN y.id = id ELSE y = w  BY <1>2
    <2>2. CASE w.id = id
      <3>1. x = z  BY <1>0, <1>5, <1>6, <2>1, <2>2 DEF Drafts!Distinct
      <3> QED  BY <3>1
    <2>3. CASE w.id # id
      <3>1. x = w  BY <1>0, <1>6, <2>1, <2>3 DEF Drafts!Distinct
      <3> QED  BY <2>1, <2>3, <3>1
    <2> QED  BY <2>2, <2>3
  <1>7. KeysSpared(c, d)  BY <1>6 DEF KeysSpared
  <1>8. Drafts!Settled(c) => RoleSpared(c, d)  BY <1>2, <1>4, RoleStays
  <1>9. Drafts!Draft(d)  BY <1>2 DEF Drafts!Draft, Drafts!Labelled
  <1> QED  BY <1>0, <1>1, <1>2, <1>4, <1>7, <1>8, <1>9 DEF Edit, Spared

(* One more entry, whose name was free.                                    *)
LEMMA OneMore ==
    ASSUME NEW c, InUse(c), NEW d, Drafts!Draft(d), NEW x, x.id \notin Drafts!Ids(c),
           Drafts!Entries(d.items) = Drafts!Entries(c.items) \cup {x},
           c.profiles => d.profiles, d.active = c.active, d.chat = c.chat
    PROVE  Edit(c, d)
  <1>0. c \in Drafts!Config /\ d \in Drafts!Config /\ Drafts!Distinct(c)
        /\ c.active \in Drafts!Ids(c)
    BY DEF InUse, Drafts!Draft
  <1>1. Drafts!Ids(c) = {y.id : y \in Drafts!Entries(c.items)}
        /\ Drafts!Ids(d) = {y.id : y \in Drafts!Entries(d.items)}
    BY <1>0, ConfigIs
  <1>2. Drafts!Ids(c) \subseteq Drafts!Ids(d)  BY <1>1
  <1>3. KeysSpared(c, d)
    <2>1. ASSUME NEW v \in Drafts!Entries(c.items), NEW w \in Drafts!Entries(d.items), v.id = w.id
          PROVE  v.key = w.key
      <3>1. w # x  BY <1>1, <2>1
      <3>2. w \in Drafts!Entries(c.items)  BY <3>1
      <3> QED  BY <1>0, <2>1, <3>2 DEF Drafts!Distinct
    <2> QED  BY <2>1 DEF KeysSpared
  <1>4. Drafts!Settled(c) => RoleSpared(c, d)  BY <1>2, RoleStays
  <1> QED  BY <1>0, <1>2, <1>3, <1>4 DEF Edit, Spared

LEMMA ProfileIsAdded ==
    ASSUME Drafts!NamesArePairs, NEW c, InUse(c), NEW id \in Name \ Drafts!Ids(c),
           NEW key \in Key \cup {NoKey}
    PROVE  Edit(c, Drafts!AddProfile(c, id, key))
  <1>0. c \in Drafts!Config /\ c.active \in Drafts!Ids(c) /\ c.active \in Name
    BY ConfigIs DEF InUse
  <1>1. c.active # None  BY <1>0 DEF Drafts!NamesArePairs
  <1>2. PICK d : d = Drafts!AddProfile(c, id, key)  OBVIOUS
  <1>3. PICK x : x = Drafts!Item(id, id[1], key)  OBVIOUS
  <1>4. /\ d \in Drafts!Config /\ d.profiles = TRUE /\ d.chat = c.chat /\ d.active = c.active
        /\ Drafts!Entries(d.items) = Drafts!Entries(c.items) \cup {x}
    BY <1>0, <1>1, <1>2, <1>3, AddProfileIs
  <1>5. x.id \notin Drafts!Ids(c)  BY <1>3, ItemIs
  <1>6. Drafts!Draft(d)  BY <1>4 DEF Drafts!Draft, Drafts!Labelled
  <1> QED  BY <1>2, <1>4, <1>5, <1>6, OneMore

LEMMA ModelIsAdded ==
    ASSUME NEW c, InUse(c), NEW id \in Name \ Drafts!Ids(c), id[1] \in Drafts!Providers(c)
    PROVE  Edit(c, Drafts!AddModel(c, id))
  <1>0. c \in Drafts!Config /\ Drafts!Labelled(c)  BY DEF InUse
  <1>1. PICK d : d = Drafts!AddModel(c, id)  OBVIOUS
  <1>2. /\ Drafts!Draft(d) /\ d.profiles = c.profiles /\ d.chat = c.chat /\ d.active = c.active
        /\ \E key \in Key \cup {NoKey} :
              Drafts!Entries(d.items) = Drafts!Entries(c.items) \cup {Drafts!Item(id, id[1], key)}
    BY <1>0, <1>1, AddModelIs
  <1>3. PICK key \in Key \cup {NoKey} :
           Drafts!Entries(d.items) = Drafts!Entries(c.items) \cup {Drafts!Item(id, id[1], key)}
    BY <1>2
  <1>4. PICK x : x = Drafts!Item(id, id[1], key)  OBVIOUS
  <1>5. x.id \notin Drafts!Ids(c)  BY <1>4, ItemIs
  <1> QED  BY <1>1, <1>2, <1>3, <1>4, <1>5, OneMore

(* Fewer entries: what is left is what it was.                             *)
LEMMA Fewer ==
    ASSUME NEW c, InUse(c), NEW d, d \in Drafts!Config, NEW ids,
           Drafts!Entries(d.items) = {x \in Drafts!Entries(c.items) : x.id \notin ids}
    PROVE  KeysSpared(c, d) /\ Drafts!Ids(d) = Drafts!Ids(c) \ ids
  <1>0. c \in Drafts!Config /\ Drafts!Distinct(c)  BY DEF InUse
  <1>1. Drafts!Ids(c) = {y.id : y \in Drafts!Entries(c.items)}
        /\ Drafts!Ids(d) = {y.id : y \in Drafts!Entries(d.items)}
    BY <1>0, ConfigIs
  <1>2. KeysSpared(c, d)  BY <1>0 DEF KeysSpared, Drafts!Distinct
  <1> QED  BY <1>1, <1>2

LEMMA ProfilesAreRemoved ==
    ASSUME NEW c, InUse(c), NEW ids, Drafts!RemoveProfiles(c, ids).items # <<>>
    PROVE  Edit(c, Drafts!RemoveProfiles(c, ids))
  <1>0. c \in Drafts!Config /\ c.active \in Drafts!Ids(c)  BY DEF InUse
  <1>1. PICK d : d = Drafts!RemoveProfiles(c, ids)  OBVIOUS
  <1>2. /\ d \in Drafts!Config /\ d.profiles = TRUE
        /\ Drafts!Entries(d.items) = {x \in Drafts!Entries(c.items) : x.id \notin ids}
        /\ c.active \notin ids => d.active = c.active
        /\ c.active \in ids => d.active \in Drafts!Ids(d)
        /\ d.chat = IF c.chat \in {Drafts!ById(id) : id \in ids} THEN None ELSE c.chat
    BY <1>0, <1>1, RemoveProfilesIs
  <1>3. KeysSpared(c, d) /\ Drafts!Ids(d) = Drafts!Ids(c) \ ids  BY <1>2, Fewer
  <1>4. ASSUME Drafts!Settled(c)  PROVE RoleSpared(c, d)
    <2>1. CASE c.chat = None
      <3>1. d.chat = None  BY <1>2, <2>1
      <3> QED  BY <2>1, <3>1 DEF RoleSpared
    <2>2. CASE c.chat # None
      <3>1. PICK n : n = c.chat[2]  OBVIOUS
      <3>2. n \in Drafts!Ids(c) /\ c.chat = Drafts!ById(n)  BY <1>4, <2>2, <3>1, RoleIs
      <3>3. CASE n \in ids
        <4>1. c.chat \in {Drafts!ById(id) : id \in ids}  BY <3>2, <3>3
        <4>2. d.chat = None /\ n \notin Drafts!Ids(d)  BY <1>2, <1>3, <3>3, <4>1
        <4> QED  BY <2>2, <3>1, <4>2 DEF RoleSpared
      <3>4. CASE n \notin ids
        <4>1. c.chat \notin {Drafts!ById(id) : id \in ids}  BY <3>2, <3>4 DEF Drafts!ById
        <4>2. d.chat = c.chat /\ n \in Drafts!Ids(d)  BY <1>2, <1>3, <3>2, <3>4, <4>1
        <4> QED  BY <3>1, <4>2 DEF RoleSpared
      <3> QED  BY <3>3, <3>4
    <2> QED  BY <2>1, <2>2
  <1>5. d.active \in Drafts!Ids(d) /\ (c.active \in Drafts!Ids(d) => d.active = c.active)
    BY <1>0, <1>2, <1>3
  <1>6. Drafts!Draft(d)  BY <1>2 DEF Drafts!Draft, Drafts!Labelled
  <1> QED  BY <1>1, <1>2, <1>3, <1>4, <1>5, <1>6 DEF Edit, Spared

LEMMA ModelsAreRemoved ==
    ASSUME NEW c, InUse(c), ~c.profiles, NEW ids, NEW d,
           d = Drafts!EnsureActiveLegacy([c EXCEPT !.items = Drafts!Without(c, ids)]), d.items # <<>>
    PROVE  Edit(c, d)
  <1>0. c \in Drafts!Config /\ Drafts!Labelled(c)  BY DEF InUse
  <1>1. /\ Drafts!Draft(d) /\ d.chat = c.chat
        /\ Drafts!Entries(d.items) = {x \in Drafts!Entries(c.items) : x.id \notin ids}
        /\ c.active \in Drafts!Ids(d) => d.active = c.active
        /\ d.active \in Drafts!Ids(d)
    BY <1>0, RemoveLegacyIs
  <1>2. KeysSpared(c, d)  BY <1>1, Fewer DEF Drafts!Draft
  <1>3. Drafts!Settled(c) => c.chat = None  BY DEF Drafts!Settled
  <1>4. Drafts!Settled(c) => RoleSpared(c, d)  BY <1>1, <1>3 DEF RoleSpared
  <1> QED  BY <1>1, <1>2, <1>4 DEF Edit, Spared

LEMMA ProviderIsRemoved ==
    ASSUME NEW c, InUse(c), NEW p, Drafts!RemoveProvider(c, p).items # <<>>
    PROVE  Edit(c, Drafts!RemoveProvider(c, p))
  <1>1. CASE c.profiles
    <2>1. Drafts!RemoveProvider(c, p) = Drafts!RemoveProfiles(c, Drafts!OfProvider(c, p))
      BY <1>1 DEF Drafts!RemoveProvider
    <2> QED  BY <2>1, ProfilesAreRemoved
  <1>2. CASE ~c.profiles
    <2>1. Drafts!RemoveProvider(c, p)
            = Drafts!EnsureActiveLegacy([c EXCEPT !.items = Drafts!Without(c, Drafts!OfProvider(c, p))])
      BY <1>2 DEF Drafts!RemoveProvider
    <2> QED  BY <1>2, <2>1, ModelsAreRemoved
  <1> QED  BY <1>1, <1>2

(* The keys of a provider.                                                 *)
LEMMA ProviderIsEdited ==
    ASSUME Drafts!NamesArePairs, NEW c, InUse(c), NEW p \in Drafts!Providers(c),
           NEW key \in KeyEdit
    PROVE  Edit(c, Drafts!UpdateProvider(c, p, key, p))
  <1>0. c \in Drafts!Config /\ Drafts!Labelled(c) /\ Drafts!Distinct(c)
        /\ c.active \in Drafts!Ids(c)
    BY DEF InUse
  <1>1. p \in {n[1] : n \in Name} /\ \A x \in Drafts!Entries(c.items) : x \in Drafts!ItemType
    <2>1. PICK x \in Drafts!Entries(c.items) : p = x.provider  BY <1>0, ConfigIs
    <2>2. x \in Drafts!ItemType  BY <1>0, ConfigIs
    <2> QED  BY <1>0, <2>1, <2>2, ConfigIs DEF Drafts!ItemType
  <1>2. ASSUME ~c.profiles, NEW x \in Drafts!Entries(c.items), x.provider = p
        PROVE  <<p, x.id[2]>> \in Name
    <2>1. x.id \in Name /\ x.provider = x.id[1]
      BY <1>0, <1>1, <1>2 DEF Drafts!ItemType, Drafts!Labelled
    <2>2. x.id = <<x.id[1], x.id[2]>>  BY <2>1 DEF Drafts!NamesArePairs
    <2> QED  BY <1>2, <2>1, <2>2
  <1>3. PICK d : d = Drafts!UpdateProvider(c, p, key, p)  OBVIOUS
  <1>4. /\ Drafts!Draft(d) /\ d.profiles = c.profiles /\ d.chat = c.chat /\ d.active = c.active
        /\ Drafts!Ids(d) = Drafts!Ids(c) /\ OnlyOfProvider(c, d, p)
    <2>1. ~c.profiles => \A x \in Drafts!Entries(c.items) : x.provider = p => <<p, x.id[2]>> \in Name
      BY <1>2
    <2>2. c.profiles \/ p = p  OBVIOUS
    <2> QED  BY <1>0, <1>1, <1>3, <2>1, <2>2, UpdateProviderIs
  <1>5. ASSUME NEW x \in Drafts!Entries(c.items), NEW y \in Drafts!Entries(d.items), x.id = y.id
        PROVE  x.key = y.key \/ x.provider = p
    <2>1. PICK w \in Drafts!Entries(c.items) : IF w.provider = p THEN y.id = w.id ELSE y = w
      BY <1>4, <1>5 DEF OnlyOfProvider
    <2>2. x = w  BY <1>0, <1>5, <2>1 DEF Drafts!Distinct
    <2> QED  BY <2>1, <2>2
  <1>6. KeysSpared(c, d)  BY <1>5 DEF KeysSpared
  <1>7. Drafts!Settled(c) => RoleSpared(c, d)  BY <1>4, RoleStays
  <1> QED  BY <1>0, <1>3, <1>4, <1>6, <1>7 DEF Edit, Spared

----------------------------------------------------------------------------
(* Every edit the console and the settings page make is a draft that is    *)
(* committed; the quiet ones spare what they are not about.                *)
LEMMA ProvidersAre ==
    ASSUME NEW c, InUse(c)
    PROVE  /\ Drafts!Providers(c) \subseteq {n[1] : n \in Name} /\ Drafts!Ids(c) \subseteq Name
           /\ \A i \in DOMAIN c.items : c.items[i] \in Drafts!Entries(c.items)
           /\ \A x \in Drafts!Entries(c.items) : \E i \in DOMAIN c.items : x = c.items[i]
  <1>1. c \in Drafts!Config  BY DEF InUse
  <1>2. \A x \in Drafts!Entries(c.items) : x \in Drafts!ItemType  BY <1>1, ConfigIs
  <1>3. \A x \in Drafts!Entries(c.items) : x.provider \in {n[1] : n \in Name}
    BY <1>2 DEF Drafts!ItemType
  <1>4. Drafts!Providers(c) = {x.provider : x \in Drafts!Entries(c.items)}
        /\ Drafts!Ids(c) \subseteq Name
    BY <1>1, ConfigIs
  <1> QED  BY <1>3, <1>4 DEF Drafts!Entries

LEMMA CommitIsValid ==
    ASSUME NEW d, Drafts!Commit(d)
    PROVE  d.items # <<>>
  BY DEF Drafts!Commit, Drafts!Valid

LEMMA EditedIs ==
    ASSUME Drafts!NamesArePairs, InUse(live), NEW p \in Drafts!Providers(live),
           NEW key \in KeyEdit, NEW new,
           new = None \/ new \in {n[1] : n \in Name}, Drafts!Edited(p, key, new)
    PROVE  \E d : Drafts!Draft(d) /\ Drafts!Commit(d) /\ (new = None => Edit(live, d))
  <1>1. CASE new = None
    <2>1. Drafts!Commit(Drafts!UpdateProvider(live, p, key, p))  BY <1>1 DEF Drafts!Edited
    <2>2. Edit(live, Drafts!UpdateProvider(live, p, key, p))  BY ProviderIsEdited
    <2> QED  BY <2>1, <2>2 DEF Edit
  <1>2. CASE new # None /\ new \in {n[1] : n \in Name}
    <2>1. PICK d : d = Drafts!UpdateProvider(live, p, key, new)  OBVIOUS
    <2>2. Drafts!Commit(d)  BY <1>2, <2>1 DEF Drafts!Edited
    <2>3. ~live.profiles => \A x \in Drafts!Entries(live.items) :
                               x.provider = p => <<new, x.id[2]>> \in Name
      BY <1>2, ProvidersAre DEF Drafts!Edited, Drafts!Legacy
    <2>4. live \in Drafts!Config /\ Drafts!Labelled(live) /\ live.active \in Drafts!Ids(live)
      BY DEF InUse
    <2>5. p \in {n[1] : n \in Name}  BY ProvidersAre
    <2>6. Drafts!Draft(d)  BY <1>2, <2>1, <2>3, <2>4, <2>5, UpdateProviderIs
    <2> QED  BY <1>2, <2>2, <2>6
  <1> QED  BY <1>1, <1>2

LEMMA QuietIs ==
    ASSUME Drafts!NamesArePairs, InUse(live), Drafts!Quiet
    PROVE  Drafts!WorkspaceSave \/ \E d : Edit(live, d) /\ Drafts!Commit(d)
  <1>0. live \in Drafts!Config /\ Drafts!Ids(live) \subseteq Name  BY ProvidersAre DEF InUse
  <1>1. CASE Drafts!ProviderRemove
    <2>1. PICK p \in Drafts!Providers(live) : Drafts!Commit(Drafts!RemoveProvider(live, p))
      BY <1>1 DEF Drafts!ProviderRemove
    <2> QED  BY <2>1, CommitIsValid, ProviderIsRemoved
  <1>2. CASE Drafts!ModelAdd
    <2>1. PICK id \in Name \ Drafts!Ids(live) : id[1] \in Drafts!Providers(live)
          /\ Drafts!Commit(Drafts!AddModel(live, id))
      BY <1>2 DEF Drafts!ModelAdd
    <2> QED  BY <2>1, ModelIsAdded
  <1>3. CASE Drafts!ModelRemove
    <2>1. PICK id \in Drafts!Ids(live) : Drafts!Commit(Drafts!RemoveModel(live, id))
          /\ ~live.profiles
      BY <1>3 DEF Drafts!ModelRemove, Drafts!Legacy
    <2>2. PICK d : d = Drafts!RemoveModel(live, id)  OBVIOUS
    <2>3. d = Drafts!EnsureActiveLegacy([live EXCEPT !.items = Drafts!Without(live, {id})])
      BY <2>2 DEF Drafts!RemoveModel
    <2>4. d.items # <<>>  BY <2>1, <2>2, CommitIsValid
    <2> QED  BY <2>1, <2>2, <2>3, <2>4, ModelsAreRemoved
  <1>4. CASE Drafts!KeySet
    <2>1. PICK id \in Drafts!Ids(live), key \in Key :
             Drafts!Commit(Drafts!UpdateProfile(live, id, key, id))
      BY <1>4 DEF Drafts!KeySet
    <2>2. key \in KeyEdit  BY DEF KeyEdit
    <2> QED  BY <2>1, <2>2, ProfileIsEdited
  <1>5. CASE Drafts!KeyClear
    <2>1. PICK id \in Drafts!Ids(live) : Drafts!Commit(Drafts!UpdateProfile(live, id, NoKey, id))
      BY <1>5 DEF Drafts!KeyClear
    <2>2. NoKey \in KeyEdit  BY DEF KeyEdit
    <2> QED  BY <2>1, <2>2, ProfileIsEdited
  <1>6. CASE Drafts!ProviderEdit(None) \/ Drafts!SaveProvider(None)
    <2>1. PICK p \in Drafts!Providers(live), key \in KeyEdit : Drafts!Edited(p, key, None)
      BY <1>6 DEF Drafts!ProviderEdit, Drafts!SaveProvider, Drafts!Keys, KeyEdit
    <2> QED  BY <2>1, EditedIs
  <1>7. CASE Drafts!Mode \/ Drafts!UpdateSettings
    <2>1. Drafts!Commit(live)  BY <1>7 DEF Drafts!Mode, Drafts!UpdateSettings
    <2> QED  BY <2>1, LeftAsItIs
  <1>8. CASE Drafts!CreateProfile
    <2>1. PICK id \in Name \ Drafts!Ids(live), key \in Key \cup {NoKey} :
             Drafts!Commit(Drafts!AddProfile(live, id, key))
      BY <1>8 DEF Drafts!CreateProfile, Drafts!Keys
    <2> QED  BY <2>1, ProfileIsAdded
  <1>9. CASE Drafts!SaveProfile(None, None)
    <2>1. PICK id \in Drafts!Ids(live), key \in KeyEdit :
             Drafts!Commit(Drafts!UpdateProfile(live, id, key, id))
      BY <1>9 DEF Drafts!SaveProfile, Drafts!Keys, KeyEdit
    <2> QED  BY <2>1, ProfileIsEdited
  <1>10. CASE Drafts!DeleteProfile
    <2>1. PICK id \in Drafts!Ids(live) : Drafts!Commit(Drafts!RemoveProfiles(live, {id}))
      BY <1>10 DEF Drafts!DeleteProfile, Drafts!RemoveProfile
    <2> QED  BY <2>1, CommitIsValid, ProfilesAreRemoved
  <1>11. CASE Drafts!DeleteProvider
    <2>1. PICK p \in Drafts!Providers(live) : Drafts!Commit(Drafts!RemoveProvider(live, p))
      BY <1>11 DEF Drafts!DeleteProvider
    <2> QED  BY <2>1, CommitIsValid, ProviderIsRemoved
  <1>12. CASE Drafts!UpdateModels(None)
    <2>1. PICK id \in Name, key \in Key \cup {"keep"} :
             Drafts!Commit(IF id \in Drafts!Ids(live) THEN Drafts!UpdateProfile(live, id, key, id)
                    ELSE Drafts!AddProfile(live, id, IF key = "keep" THEN NoKey ELSE key))
      BY <1>12 DEF Drafts!UpdateModels
    <2>2. CASE id \in Drafts!Ids(live)
      <3>1. key \in KeyEdit  BY DEF KeyEdit
      <3> QED  BY <2>1, <2>2, <3>1, ProfileIsEdited
    <2>3. CASE id \notin Drafts!Ids(live)
      <3>1. PICK k \in Key \cup {NoKey} : k = IF key = "keep" THEN NoKey ELSE key  OBVIOUS
      <3>2. Drafts!Commit(Drafts!AddProfile(live, id, k))  BY <2>1, <2>3, <3>1
      <3> QED  BY <2>3, <3>2, ProfileIsAdded
    <2> QED  BY <2>2, <2>3
  <1> QED
    BY <1>1, <1>2, <1>3, <1>4, <1>5, <1>6, <1>7, <1>8, <1>9, <1>10, <1>11, <1>12
    DEF Drafts!Quiet, Drafts!SettingsMenu

LEMMA ProfileDraft ==
    ASSUME NEW c \in Drafts!Config, NEW id \in Name, NEW key \in KeyEdit, NEW newId \in Name
    PROVE  Drafts!Draft(Drafts!UpdateProfile(c, id, key, newId))
  <1>1. PICK to : to = IF newId \in Drafts!Ids(c) THEN id ELSE newId  OBVIOUS
  <1>2. PICK d : d = Drafts!UpdateProfile(c, id, key, newId)  OBVIOUS
  <1>3. ProfileChanged(c, d, id, to)  BY <1>1, <1>2, UpdateProfileIs
  <1> QED  BY <1>2, <1>3 DEF ProfileChanged, Drafts!Draft, Drafts!Labelled

LEMMA AddedDraft ==
    ASSUME NEW c \in Drafts!Config, NEW id \in Name, NEW key \in Key \cup {NoKey}
    PROVE  Drafts!Draft(Drafts!AddProfile(c, id, key))
  <1>1. PICK d : d = Drafts!AddProfile(c, id, key)  OBVIOUS
  <1>2. d \in Drafts!Config /\ d.profiles = TRUE  BY <1>1, AddProfileIs
  <1> QED  BY <1>1, <1>2 DEF Drafts!Draft, Drafts!Labelled

LEMMA ExportedIs ==
    ASSUME NEW b, Drafts!Draft(b)
    PROVE  Drafts!Draft(Drafts!Exported(b))
  <1>1. b \in Drafts!Config /\ Drafts!Labelled(b)  BY DEF Drafts!Draft
  <1>2. PICK s : s = b.items  OBVIOUS
  <1>3. s \in Seq(Drafts!ItemType)
        /\ \A i \in DOMAIN s : s[i] \in Drafts!ItemType /\ s[i] \in Drafts!Entries(s)
    BY <1>1, <1>2, ConfigIs DEF Drafts!Entries
  <1>4. PICK q : q = [i \in DOMAIN s |-> [s[i] EXCEPT !.key = NoKey]]  OBVIOUS
  <1>5. ASSUME NEW i \in DOMAIN s
        PROVE  /\ q[i] \in Drafts!ItemType /\ q[i].provider = s[i].provider /\ q[i].id = s[i].id
    BY <1>3, <1>4 DEF Drafts!ItemType
  <1>6. q \in [DOMAIN s -> Drafts!ItemType]  BY <1>4, <1>5
  <1>7. q \in Seq(Drafts!ItemType) /\ \A y \in Drafts!Entries(q) : \E i \in DOMAIN s : y = q[i]
    BY <1>3, <1>6, ChangedIs
  <1>8. PICK d : d = Drafts!Exported(b)  OBVIOUS
  <1>9. d = [b EXCEPT !.items = q]  BY <1>2, <1>4, <1>8 DEF Drafts!Exported
  <1>10. d \in Drafts!Config /\ d.items = q /\ d.profiles = b.profiles
    BY <1>1, <1>7, <1>9 DEF Drafts!Config
  <1>11. b.profiles \/ \A i \in DOMAIN s : s[i].provider = s[i].id[1]
    BY <1>1, <1>2, <1>3 DEF Drafts!Labelled
  <1>12. Drafts!Labelled(d)  BY <1>5, <1>7, <1>10, <1>11 DEF Drafts!Labelled
  <1> QED  BY <1>8, <1>10, <1>12 DEF Drafts!Draft

LEMMA ChosenIs ==
    ASSUME NEW c, Drafts!Draft(c), NEW id \in Name
    PROVE  /\ Drafts!Draft([c EXCEPT !.active = id]) /\ Drafts!Draft(Drafts!SetActiveProfile(c, id))
           /\ Drafts!Draft(Drafts!SetActiveModel(c, id))
  <1>1. c \in Drafts!Config /\ Drafts!Labelled(c)  BY DEF Drafts!Draft
  <1>2. PICK m : m = [c EXCEPT !.active = id]  OBVIOUS
  <1>3. m \in Drafts!Config /\ m.items = c.items /\ m.profiles = c.profiles
    BY <1>1, <1>2 DEF Drafts!Config
  <1>4. Drafts!Draft(m)  BY <1>1, <1>3, SameItems DEF Drafts!Draft
  <1>5. PICK a : a = Drafts!SetActiveProfile(c, id)  OBVIOUS
  <1>6. a \in Drafts!Config /\ a.profiles = TRUE  BY <1>1, <1>5, ActiveIs
  <1>7. Drafts!Draft(a)  BY <1>6 DEF Drafts!Draft, Drafts!Labelled
  <1>8. Drafts!SetActiveModel(c, id) = IF c.profiles THEN a ELSE m
    BY <1>2, <1>5 DEF Drafts!SetActiveModel
  <1> QED  BY <1>2, <1>4, <1>5, <1>7, <1>8

LEMMA ChosenModelIs ==
    ASSUME Drafts!NamesArePairs, Drafts!FilesAreWritten, InUse(live), NEW n \in Name,
           \/ Drafts!ProviderEdit(n[1]) \/ Drafts!SaveProfile(n, None) \/ Drafts!SaveProfile(None, n)
           \/ Drafts!SaveProvider(n[1]) \/ Drafts!UpdateModels(n)
    PROVE  \E d : Drafts!Draft(d) /\ Drafts!Commit(d)
  <1>0. live \in Drafts!Config /\ Drafts!Ids(live) \subseteq Name /\ n # None
    BY ProvidersAre DEF InUse, Drafts!NamesArePairs
  <1>1. CASE Drafts!ProviderEdit(n[1]) \/ Drafts!SaveProvider(n[1])
    <2>1. PICK p \in Drafts!Providers(live), key \in KeyEdit : Drafts!Edited(p, key, n[1])
      BY <1>1 DEF Drafts!ProviderEdit, Drafts!SaveProvider, Drafts!Keys, KeyEdit
    <2>2. n[1] \in {m[1] : m \in Name}  OBVIOUS
    <2> QED  BY <2>1, <2>2, EditedIs
  <1>2. CASE Drafts!SaveProfile(n, None)
    <2>1. PICK id \in Drafts!Ids(live), key \in KeyEdit :
             Drafts!Commit(Drafts!UpdateProfile(live, id, key, n))
      BY <1>0, <1>2 DEF Drafts!SaveProfile, Drafts!Keys, KeyEdit
    <2> QED  BY <1>0, <2>1, ProfileDraft
  <1>3. CASE Drafts!SaveProfile(None, n)
    <2>1. PICK id \in Drafts!Ids(live), key \in KeyEdit :
             Drafts!Commit(Drafts!SetActiveProfile(Drafts!UpdateProfile(live, id, key, id), n))
      BY <1>0, <1>3 DEF Drafts!SaveProfile, Drafts!Keys, KeyEdit
    <2>2. Drafts!Draft(Drafts!UpdateProfile(live, id, key, id))  BY <1>0, ProfileDraft
    <2> QED  BY <2>1, <2>2, ChosenIs
  <1>4. CASE Drafts!UpdateModels(n)
    <2>1. PICK id \in Name, key \in Key \cup {"keep"} :
             Drafts!Commit([(IF id \in Drafts!Ids(live) THEN Drafts!UpdateProfile(live, id, key, id)
                      ELSE Drafts!AddProfile(live, id, IF key = "keep" THEN NoKey ELSE key))
                     EXCEPT !.active = n])
      BY <1>0, <1>4 DEF Drafts!UpdateModels
    <2>2. PICK d : d = IF id \in Drafts!Ids(live) THEN Drafts!UpdateProfile(live, id, key, id)
                       ELSE Drafts!AddProfile(live, id, IF key = "keep" THEN NoKey ELSE key)
      OBVIOUS
    <2>3. Drafts!Draft(d)
      <3>1. CASE id \in Drafts!Ids(live)
        <4>1. key \in KeyEdit  BY DEF KeyEdit
        <4> QED  BY <1>0, <2>2, <3>1, <4>1, ProfileDraft
      <3>2. CASE id \notin Drafts!Ids(live)
        <4>1. PICK k \in Key \cup {NoKey} : k = IF key = "keep" THEN NoKey ELSE key  OBVIOUS
        <4>2. d = Drafts!AddProfile(live, id, k)  BY <2>2, <3>2, <4>1
        <4> QED  BY <1>0, <4>2, AddedDraft
      <3> QED  BY <3>1, <3>2
    <2>4. Drafts!Commit([d EXCEPT !.active = n])  BY <2>1, <2>2
    <2> QED  BY <2>3, <2>4, ChosenIs
  <1> QED  BY <1>1, <1>2, <1>3, <1>4

LEMMA OtherEdits ==
    ASSUME Drafts!NamesArePairs, Drafts!FilesAreWritten, InUse(live),
           Drafts!ProviderAdd \/ Drafts!ModelEdit \/ Drafts!Setup \/ Drafts!UpdateRoles \/ Drafts!ConfigImport
    PROVE  \E d : Drafts!Draft(d) /\ Drafts!Commit(d)
  <1>0. live \in Drafts!Config /\ Drafts!Labelled(live) /\ Drafts!Draft(live)
        /\ Drafts!Ids(live) \subseteq Name
    BY ProvidersAre DEF InUse, Drafts!Draft
  <1>1. CASE Drafts!ProviderAdd
    <2>1. PICK id \in Name \ Drafts!Ids(live), key \in Key \cup {NoKey} :
             Drafts!Commit(Drafts!SetActiveModel(Drafts!AddProvider(live, id, key), id))
      BY <1>1 DEF Drafts!ProviderAdd, Drafts!Keys
    <2> QED  BY <1>0, <2>1, AddProviderIs, ChosenIs
  <1>2. CASE Drafts!ModelEdit
    <2>1. PICK id \in Drafts!Ids(live), newId \in Name :
             id[1] = newId[1] /\ Drafts!Commit(Drafts!UpdateModel(live, id, newId))
      BY <1>2 DEF Drafts!ModelEdit
    <2> QED  BY <1>0, <2>1, UpdateModelIs
  <1>3. CASE Drafts!Setup
    <2>1. PICK id \in Name \ Drafts!Ids(live), key \in Key \cup {NoKey} :
             Drafts!Commit(Drafts!SetActiveProfile(Drafts!AddProfile(live, id, key), id))
      BY <1>3 DEF Drafts!Setup, Drafts!Keys
    <2> QED  BY <1>0, <2>1, AddedDraft, ChosenIs
  <1>4. CASE Drafts!UpdateRoles
    <2>1. PICK chat \in {None} \cup {Drafts!ById(id) : id \in Drafts!Ids(live)} :
             Drafts!Commit([live EXCEPT !.chat = chat])
      BY <1>4 DEF Drafts!UpdateRoles
    <2>2. chat \in {None} \cup ({"id", "label"} \X Name)  BY <1>0 DEF Drafts!ById
    <2>3. PICK d : d = [live EXCEPT !.chat = chat]  OBVIOUS
    <2>4. d \in Drafts!Config /\ d.items = live.items /\ d.profiles = live.profiles
      BY <1>0, <2>2, <2>3 DEF Drafts!Config
    <2>5. Drafts!Draft(d)  BY <1>0, <2>4, SameItems DEF Drafts!Draft
    <2> QED  BY <2>1, <2>3, <2>5
  <1>5. CASE Drafts!ConfigImport
    <2>1. PICK f \in Files \cup {Drafts!Exported(b) : b \in Start} : Drafts!Commit(Drafts!Loaded(f))
      BY <1>5 DEF Drafts!ConfigImport
    <2>2. Drafts!Draft(f)
      <3>1. CASE f \in Files  BY <3>1 DEF Drafts!FilesAreWritten
      <3>2. CASE f \in {Drafts!Exported(b) : b \in Start}
        <4>1. PICK b \in Start : f = Drafts!Exported(b)  BY <3>2
        <4>2. Drafts!Draft(b)  BY DEF Drafts!FilesAreWritten, Drafts!Filed, Drafts!Sound
        <4> QED  BY <4>1, <4>2, ExportedIs
      <3> QED  BY <3>1, <3>2
    <2> QED  BY <2>1, <2>2, LoadedIs
  <1> QED  BY <1>1, <1>2, <1>3, <1>4, <1>5

LEMMA SettingsInit ==
    ASSUME Drafts!FilesAreWritten, Drafts!Init
    PROVE  SettingsInv
  <1>1. disk \in Start /\ live = Drafts!Loaded(disk) /\ shown = Drafts!Resolve(live)
        /\ doubt = "none"
    BY DEF Drafts!Init
  <1>2. Drafts!Filed(disk)  BY <1>1 DEF Drafts!FilesAreWritten
  <1>3. /\ Drafts!Sound(Drafts!Loaded(disk))
        /\ Drafts!Loaded(disk).active \in Drafts!Ids(Drafts!Loaded(disk))
        /\ Drafts!Loaded(disk) = IF Drafts!Loaded(disk).profiles THEN Drafts!Loaded(disk)
                          ELSE [Drafts!Loaded(disk) EXCEPT !.chat = None]
    BY <1>2, FiledIs
  <1>4. Drafts!RestartAgrees  BY <1>1, <1>3 DEF Drafts!RestartAgrees
  <1> QED  BY <1>1, <1>2, <1>3, <1>4 DEF SettingsInv

LEMMA SettingsNext ==
    ASSUME Drafts!NamesArePairs, Drafts!FilesAreWritten, SettingsInv,
           [Drafts!Next]_(Drafts!draftVars)
    PROVE  SettingsInv'
  <1>0. InUse(live)  BY LiveIsInUse
  <1>1. CASE Drafts!Quiet
    <2>1. CASE Drafts!WorkspaceSave  BY <2>1, WorkspaceSaveInv
    <2>2. CASE \E d : Edit(live, d) /\ Drafts!Commit(d)
      <3>1. PICK d : Edit(live, d) /\ Drafts!Commit(d)  BY <2>2
      <3> QED  BY <3>1, CommitInv DEF Edit
    <2> QED  BY <1>0, <1>1, <2>1, <2>2, QuietIs
  <1>2. CASE \E d : Drafts!Draft(d) /\ Drafts!Commit(d)
    <2>1. PICK d : Drafts!Draft(d) /\ Drafts!Commit(d)  BY <1>2
    <2> QED  BY <2>1, CommitInv
  <1>3. CASE Drafts!ProviderAdd \/ Drafts!ModelEdit \/ Drafts!Setup \/ Drafts!UpdateRoles \/ Drafts!ConfigImport
    BY <1>0, <1>2, <1>3, OtherEdits
  <1>4. CASE \E n \in Name : Drafts!ProviderEdit(n[1]) \/ Drafts!SaveProfile(n, None) \/ Drafts!SaveProfile(None, n)
                             \/ Drafts!SaveProvider(n[1]) \/ Drafts!UpdateModels(n)
    <2>1. PICK n \in Name : Drafts!ProviderEdit(n[1]) \/ Drafts!SaveProfile(n, None) \/ Drafts!SaveProfile(None, n)
                            \/ Drafts!SaveProvider(n[1]) \/ Drafts!UpdateModels(n)
      BY <1>4
    <2> QED  BY <1>0, <1>2, <2>1, ChosenModelIs
  <1>5. CASE Drafts!SwitchModelProfile  BY <1>5, SwitchInv
  <1>6. CASE Drafts!ConfigRestore  BY <1>6, ConfigRestoreInv
  <1>7. CASE Drafts!Restart  BY <1>7, RestartInv
  <1>8. CASE Drafts!RunFirstRunWizard  BY <1>8, WizardInv
  <1>9. CASE UNCHANGED Drafts!draftVars
    <2>1. live' = live /\ disk' = disk /\ shown' = shown /\ doubt' = doubt
      BY <1>9 DEF Drafts!draftVars
    <2> QED  BY <2>1 DEF SettingsInv, Drafts!RestartAgrees
  <1> QED  BY <1>1, <1>3, <1>4, <1>5, <1>6, <1>7, <1>8, <1>9 DEF Drafts!Next

LEMMA SettingsSound ==
    ASSUME SettingsInv
    PROVE  Drafts!SettingsAreSound
  <1>1. Drafts!Loaded(disk).active \in Drafts!Ids(disk)  BY FiledIs DEF SettingsInv
  <1> QED
    BY <1>1
    DEF Drafts!SettingsAreSound, SettingsInv, Drafts!ActiveExists, Drafts!ShownIsRouted

(* An edit that spares the active profile and the role spares the chat.    *)
LEMMA ChatStays ==
    ASSUME NEW c, InUse(c), Drafts!Settled(c), NEW d, Drafts!Draft(d), Spared(c, d)
    PROVE  Drafts!Settled(d) /\ (Drafts!Resolve(c) \in Drafts!Ids(d) =>
                                  Drafts!Resolve(d) = Drafts!Resolve(c))
  <1>0. c.active \in Drafts!Ids(c) /\ RoleSpared(c, d) /\ (c.active \in Drafts!Ids(d) => d.active = c.active)
        /\ (c.profiles => d.profiles)
    BY DEF InUse, Spared
  <1>1. CASE c.chat = None
    <2>1. d.chat = None  BY <1>0, <1>1 DEF RoleSpared
    <2>2. Drafts!Resolve(c) = c.active  BY <1>0, <1>1 DEF Drafts!Resolve
    <2>3. ASSUME c.active \in Drafts!Ids(d)  PROVE Drafts!Resolve(d) = c.active
      BY <1>0, <2>1, <2>3 DEF Drafts!Resolve
    <2> QED  BY <2>1, <2>2, <2>3 DEF Drafts!Settled
  <1>2. CASE c.chat # None
    <2>1. c.profiles /\ c.chat[2] \in Drafts!Ids(c) /\ Drafts!Names(c, c.chat)
      BY <1>2 DEF Drafts!Settled, Drafts!Names
    <2>2. Drafts!Resolve(c) = c.chat[2]  BY <1>2, <2>1 DEF Drafts!Resolve
    <2>3. c.chat[1] # "label"  BY <1>2, <2>1 DEF Drafts!Names
    <2>4. CASE d.chat = c.chat /\ c.chat[2] \in Drafts!Ids(d)
      <3>1. d.profiles /\ Drafts!Names(d, d.chat)  BY <1>0, <2>1, <2>3, <2>4 DEF Drafts!Names
      <3>2. Drafts!Resolve(d) = c.chat[2]  BY <1>2, <2>4, <3>1 DEF Drafts!Resolve
      <3> QED  BY <2>2, <3>1, <3>2 DEF Drafts!Settled
    <2>5. CASE d.chat = None /\ c.chat[2] \notin Drafts!Ids(d)  BY <2>2, <2>5 DEF Drafts!Settled
    <2> QED  BY <1>0, <1>2, <2>4, <2>5 DEF RoleSpared
  <1> QED  BY <1>1, <1>2

LEMMA FewKeys ==
    ASSUME NEW c, NEW d, KeysSpared(c, d)
    PROVE  Drafts!Cardinality(Drafts!KeysTouched(c, d)) <= 1
  <1>1. PICK p : \A x \in Drafts!Entries(c.items), y \in Drafts!Entries(d.items) :
                    x.id = y.id => x.key = y.key \/ x.provider = p
    BY DEF KeysSpared
  <1>2. Drafts!KeysTouched(c, d) \subseteq {p}  BY <1>1 DEF Drafts!KeysTouched, Drafts!Entries
  <1>3. IsFiniteSet({p}) /\ Cardinality({p}) = 1  BY FS_Singleton
  <1>4. Drafts!Cardinality(Drafts!KeysTouched(c, d)) <= Cardinality({p})
    BY <1>2, <1>3, FS_Subset, DraftCounts
  <1> QED  BY <1>3, <1>4

LEMMA SparesWhatItIsNotAbout ==
    ASSUME Drafts!NamesArePairs, SettingsInv, Drafts!Quiet, Drafts!Settled(live), doubt = "none"
    PROVE  /\ Drafts!Settled(live')
           /\ Drafts!Resolve(live) \in Drafts!Ids(live') => Drafts!Resolve(live') = Drafts!Resolve(live)
           /\ Drafts!Cardinality(Drafts!KeysTouched(live, live')) <= 1
  <1>0. InUse(live) /\ live \in Drafts!Config  BY LiveIsInUse DEF InUse
  <1>1. PICK g : g = live'  OBVIOUS
  <1>2. ASSUME Edit(live, g)
        PROVE  /\ Drafts!Settled(g) /\ (Drafts!Resolve(live) \in Drafts!Ids(g) =>
                                         Drafts!Resolve(g) = Drafts!Resolve(live))
               /\ Drafts!Cardinality(Drafts!KeysTouched(live, g)) <= 1
    BY <1>0, <1>2, ChatStays, FewKeys DEF Edit, Spared
  <1>3. CASE g = live  BY <1>0, <1>1, <1>2, <1>3, LeftAsItIs
  <1>4. CASE Drafts!SaveFails
    <2>1. g = Drafts!Loaded(disk)  BY <1>1, <1>4 DEF Drafts!SaveFails
    <2>2. g = IF live.profiles THEN live ELSE [live EXCEPT !.chat = None]
      BY <2>1 DEF SettingsInv, Drafts!RestartAgrees
    <2>3. ~live.profiles => live.chat = None  BY DEF Drafts!Settled
    <2>4. g = live  BY <1>0, <2>2, <2>3 DEF Drafts!Config
    <2> QED  BY <1>3, <2>4
  <1>5. ASSUME NEW d, Edit(live, d), Drafts!ApplyTo(d)
        PROVE  g = d
    <2>1. Drafts!Draft(d) /\ d \in Drafts!Config /\ d.active \in Drafts!Ids(d)
      BY <1>5 DEF Edit, Spared, Drafts!Draft
    <2>2. d.items # <<>> /\ g = Drafts!Repaired(d)  BY <1>1, <1>5 DEF Drafts!ApplyTo, Drafts!Valid
    <2> QED  BY <2>1, <2>2, RepairedIs
  <1>6. CASE Drafts!WorkspaceSave
    <2>1. Drafts!SaveFails \/ Drafts!ApplyTo(live)
      BY <1>6 DEF Drafts!WorkspaceSave, Drafts!CommitOnly
    <2> QED  BY <1>0, <1>3, <1>4, <1>5, <2>1, LeftAsItIs
  <1>7. CASE \E d : Edit(live, d) /\ Drafts!Commit(d)
    <2>1. PICK d : Edit(live, d) /\ Drafts!Commit(d)  BY <1>7
    <2>2. Drafts!SaveFails \/ Drafts!ApplyTo(d)  BY <2>1 DEF Drafts!Commit
    <2> QED  BY <1>1, <1>2, <1>4, <1>5, <2>1, <2>2
  <1> QED  BY <1>0, <1>6, <1>7, QuietIs

(* Whatever is added, renamed, removed, converted, imported or restored, a  *)
(* save failing or not: the active model exists, a restart finds what was   *)
(* in use, and the conversations know the model that answers (apply_to,     *)
(* _switch_after_save, switch_active_profile, Config.load).                 *)
THEOREM SettingsStaySound == Drafts!Spec => []SettingsAreSound
  <1>1. Drafts!Init => SettingsInv
    BY SettingsInit, FilesAreOurs DEF FilesOfThisProgram
  <1>2. SettingsInv /\ [Drafts!Next]_(Drafts!draftVars) => SettingsInv'
    BY SettingsNext, FilesAreOurs DEF FilesOfThisProgram
  <1>3. SettingsInv => SettingsAreSound  BY SettingsSound DEF SettingsAreSound
  <1> QED  BY <1>1, <1>2, <1>3, PTL DEF Drafts!Spec

(* An edit of one entry, from the console or from the settings page, leaves *)
(* the chat with its model and its role, and changes the keys of one        *)
(* provider at most (update_profile, update_provider, remove_profile,       *)
(* _ensure_profiles, apply_to).                                             *)
THEOREM QuietEditsStayLocal == Drafts!Spec => EditsStayLocal
  <1> DEFINE Local == Drafts!Quiet /\ Drafts!Settled(live) /\ doubt = "none" =>
               /\ Drafts!Settled(live')
               /\ Drafts!Resolve(live) \in Drafts!Ids(live') =>
                    Drafts!Resolve(live') = Drafts!Resolve(live)
               /\ Drafts!Cardinality(Drafts!KeysTouched(live, live')) <= 1
  <1>1. Drafts!Init => SettingsInv
    BY SettingsInit, FilesAreOurs DEF FilesOfThisProgram
  <1>2. SettingsInv /\ [Drafts!Next]_(Drafts!draftVars) => SettingsInv'
    BY SettingsNext, FilesAreOurs DEF FilesOfThisProgram
  <1>3. SettingsInv => Local
    BY SparesWhatItIsNotAbout, FilesAreOurs DEF FilesOfThisProgram
  <1>4. EditsStayLocal <=> [][Local]_(Drafts!draftVars)
    BY DEF EditsStayLocal, Drafts!EditsStayLocal
  <1> HIDE DEF Local
  <1> QED  BY <1>1, <1>2, <1>3, <1>4, PTL DEF Drafts!Spec
=============================================================================
