------------------------------ MODULE EventBus ------------------------------
(***************************************************************************)
(* The event bus and its subscriptions: kairo_kernel/runtime/events.py.    *)
(*                                                                         *)
(* No method suspends while it holds the bus lock, so each is one action.  *)
(* The one suspension is the Queue.get() in receive(): a reader waits, the *)
(* put of an item wakes it, and until its task resumes the item is still   *)
(* in the queue, where further events may displace it.                     *)
(* An event is its sequence number.                                        *)
(***************************************************************************)
EXTENDS Integers, Sequences

CONSTANTS Sub,          \* the subscriptions
          MaxSequence,  \* bound: the events emitted
          MaxBuffer,    \* EventBus.max_buffer
          QueueSize     \* queue_size of a subscription

ASSUME BusAssumption ==
    /\ MaxSequence \in Nat
    /\ MaxBuffer \in Nat \ {0} /\ QueueSize \in Nat \ {0}

VARIABLES sequence, \* _sequence
          events,   \* _events, a deque of at most MaxBuffer
          closed,   \* _closed
          sub       \* the subscriptions; listed ones are in _subscribers

busVars == <<sequence, events, closed, sub>>

CLOSED == 0  \* the sentinel, which is no event

(* since, got and reported are not in the code: where the subscription     *)
(* starts, how many events it delivered and how many losses it reported.   *)
Subscription ==
    [state : {"none", "open", "closed"}, listed : BOOLEAN,
     replay : Seq(Nat), queue : Seq(Nat),
     dropped : Nat, last : Nat,
     pc : {"idle", "waiting", "woken", "ended"},
     since : Nat, got : Nat, reported : Nat]

NewSubscription ==
    [state |-> "none", listed |-> FALSE, replay |-> <<>>, queue |-> <<>>,
     dropped |-> 0, last |-> 0, pc |-> "idle",
     since |-> 0, got |-> 0, reported |-> 0]

BusInit ==
    /\ sequence = 0
    /\ events = <<>>
    /\ closed = FALSE
    /\ sub = [s \in Sub |-> NewSubscription]

----------------------------------------------------------------------------
Full(r) == Len(r.queue) >= QueueSize

(* put_nowait() wakes the reader that waits. *)
Wake(r) == IF r.pc = "waiting" THEN [r EXCEPT !.pc = "woken"] ELSE r

(* Mutant: the displaced event is not counted. *)
OfferUncounted(r, n) ==
    IF r.state # "open" THEN r
    ELSE Wake([r EXCEPT !.queue = IF Full(r) THEN Append(Tail(@), n) ELSE Append(@, n)])

(* _offer(): a full queue loses its oldest event, and counts it. *)
Offer(r, n) ==
    IF r.state # "open" THEN r
    ELSE Wake([r EXCEPT !.queue = Append(IF Full(r) THEN Tail(@) ELSE @, n),
                        !.dropped = IF Full(r) THEN @ + 1 ELSE @])

(* Mutant: the subscription is marked closed and its reader left waiting. *)
CloseQuietly(r) == [r EXCEPT !.state = "closed", !.listed = FALSE]

(* _wake_closed() of a subscription that was marked closed and unlisted. *)
WakeClosed(r) ==
    Wake([r EXCEPT !.state = "closed", !.listed = FALSE,
                   !.queue = Append(IF Full(r) THEN Tail(@) ELSE @, CLOSED)])

Emit ==
    /\ ~closed
    /\ sequence < MaxSequence
    /\ sequence' = sequence + 1
    /\ events' = Append(IF Len(events) >= MaxBuffer THEN Tail(events) ELSE events, sequence + 1)
    /\ sub' = [s \in Sub |-> IF sub[s].listed THEN Offer(sub[s], sequence + 1) ELSE sub[s]]
    /\ UNCHANGED closed

(* _snapshot_locked() *)
Oldest == IF events = <<>> THEN sequence + 1 ELSE Head(events)
Gap(after) == after < Oldest - 1
\* The events past after: the deque is in order, so they are its end.
Replay(after) ==
    LET old == CHOOSE k \in 0..Len(events) :
                  \A i \in 1..Len(events) : i <= k <=> events[i] <= after
    IN  SubSeq(events, old + 1, Len(events))

(* The replay and the listing are one step. *)
Subscribe(s, after) ==
    LET replay == Replay(after)
        start == IF replay = <<>> THEN sequence ELSE Head(replay) - 1
    IN  /\ ~closed
        /\ sub[s].state = "none"
        /\ sub' = [sub EXCEPT ![s] =
              [NewSubscription EXCEPT !.state = "open", !.listed = TRUE,
                                      !.replay = replay,
                                      !.last = start, !.since = start]]
        /\ UNCHANGED <<sequence, events, closed>>

----------------------------------------------------------------------------
(* receive(), by how it goes on or ends. *)
Reads(s, r) == sub' = [sub EXCEPT ![s] = r] /\ UNCHANGED <<sequence, events, closed>>

Delivered(r, n) == [r EXCEPT !.last = n, !.got = @ + 1, !.pc = "idle"]

FromReplay(s) ==
    /\ sub[s].state = "open" /\ sub[s].pc = "idle"
    /\ sub[s].replay # <<>>
    /\ Reads(s, [Delivered(sub[s], Head(sub[s].replay)) EXCEPT !.replay = Tail(@)])

(* raise SubscriberOverflow *)
Overflow(s) ==
    /\ sub[s].state = "open" /\ sub[s].pc = "idle"
    /\ sub[s].replay = <<>>
    /\ sub[s].dropped > 0
    /\ Reads(s, [sub[s] EXCEPT !.dropped = 0, !.reported = @ + sub[s].dropped])

(* An event from the queue, at once or after a wait. *)
FromQueue(s) ==
    /\ \/ /\ sub[s].state = "open" /\ sub[s].pc = "idle"
          /\ sub[s].replay = <<>> /\ sub[s].dropped = 0
       \/ sub[s].pc = "woken"
    /\ sub[s].queue # <<>> /\ Head(sub[s].queue) # CLOSED
    /\ Reads(s, [Delivered(sub[s], Head(sub[s].queue)) EXCEPT !.queue = Tail(@)])

Wait(s) ==
    /\ sub[s].state = "open" /\ sub[s].pc = "idle"
    /\ sub[s].replay = <<>> /\ sub[s].dropped = 0 /\ sub[s].queue = <<>>
    /\ Reads(s, [sub[s] EXCEPT !.pc = "waiting"])

(* receive() raises: the subscription is closed, or the sentinel came.     *)
Ends(s) ==
    /\ \/ sub[s].pc = "idle" /\ sub[s].state = "closed"
       \/ sub[s].pc = "woken" /\ Head(sub[s].queue) = CLOSED
    /\ Reads(s, [sub[s] EXCEPT !.pc = "ended"])

(* The reader's task is cancelled; what is queued stays queued. *)
CancelReceive(s) ==
    /\ sub[s].pc \in {"waiting", "woken"}
    /\ Reads(s, [sub[s] EXCEPT !.pc = "idle"])

CloseSubscription(s) ==
    /\ sub[s].state = "open"
    /\ Reads(s, WakeClosed(sub[s]))

CloseBus ==
    /\ ~closed
    /\ closed' = TRUE
    /\ sub' = [s \in Sub |-> IF sub[s].listed THEN WakeClosed(sub[s]) ELSE sub[s]]
    /\ UNCHANGED <<sequence, events>>

Receive(s) == FromReplay(s) \/ Overflow(s) \/ FromQueue(s) \/ Wait(s) \/ Ends(s)

BusNext ==
    \/ Emit \/ CloseBus
    \/ \E s \in Sub :
          \/ \E after \in 0..MaxSequence : Subscribe(s, after)
          \/ Receive(s) \/ CancelReceive(s) \/ CloseSubscription(s)

BusSpec == BusInit /\ [][BusNext]_busVars

----------------------------------------------------------------------------
BusTypeOK ==
    /\ sequence \in Nat
    /\ events \in Seq(Nat) /\ Len(events) <= MaxBuffer
    /\ closed \in BOOLEAN
    /\ sub \in [Sub -> Subscription]
    /\ \A s \in Sub : Len(sub[s].queue) <= QueueSize

(* No event is lost in silence or seen twice, across replay, live queue    *)
(* and overflow: what a subscription delivered, still holds, and has or    *)
(* will have reported as lost adds up to all that was emitted since it     *)
(* started.                                                                *)
EveryEventAccounted ==
    \A s \in Sub :
        LET r == sub[s] IN
        r.state = "open" =>
            r.got + Len(r.replay) + Len(r.queue) + r.dropped + r.reported
                = sequence - r.since

(* A reader sees sequence numbers grow: what is to come is after what was  *)
(* delivered, the live events after the replay.                            *)
StreamInOrder ==
    \A s \in Sub :
        LET r == sub[s]
            ahead == <<r.last>> \o r.replay \o r.queue
        IN  \A i, j \in 1..Len(ahead) :
                i < j /\ ahead[j] # CLOSED => ahead[i] < ahead[j]

(* A reader that was woken finds an item, whatever displaced the one it    *)
(* was woken for; and one that waits has nothing to read.                  *)
WakeupsAreGood ==
    \A s \in Sub :
        /\ sub[s].pc = "woken" => sub[s].queue # <<>>
        /\ sub[s].pc = "waiting" => sub[s].queue = <<>> /\ sub[s].state = "open"

(* What a subscription hands out is the whole stream in order, with a gap   *)
(* only where a loss is counted.                                            *)
StreamIsWhole == EveryEventAccounted /\ StreamInOrder /\ WakeupsAreGood

(* Closing ends every reader, even one whose queue is full. *)
CloseEndsReaders ==
    \A s \in Sub : sub[s].state = "closed" ~> sub[s].pc = "ended"

(* A loss is reported to a reader that reads on, or its subscription ends. *)
LossIsReported ==
    \A s \in Sub, n \in 0..MaxSequence :
        sub[s].dropped > 0 /\ sub[s].reported = n
            ~> sub[s].reported > n \/ sub[s].state = "closed"

(* No reader waits for ever on a bus that is closed, or in ignorance of a   *)
(* loss.                                                                    *)
ReadersAreServed == CloseEndsReaders /\ LossIsReported
=============================================================================
