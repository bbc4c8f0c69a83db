------------------------------ MODULE RetryQueue ------------------------------
(***************************************************************************)
(* RetryQueueSink (provenex/export/streaming.py): a bounded queue of       *)
(* receipts in front of a downstream sink that may fail.  Threads of the   *)
(* application publish concurrently; a publish first drains the queue,     *)
(* oldest first, then sends its own receipt, and queues that receipt when  *)
(* the downstream sink raises.  All of this happens under one lock, but    *)
(* the `_closed` flag is read before the lock is taken, and every call of  *)
(* the downstream sink is a step of its own.                               *)
(*                                                                         *)
(* A receipt is the number of the publish that carries it, counted in the  *)
(* order in which the lock is taken.  The queue lives in memory and dies   *)
(* with the process, which the documentation says: no crash is modelled.   *)
(***************************************************************************)
EXTENDS Naturals, Sequences, FiniteSets, Functions

CONSTANTS
    Publisher,      \* threads that publish
    Closer,         \* the thread that shuts the application down
    Nobody,         \* the lock is free
    MaxLen,         \* maxlen of the deque
    MaxReceipts,    \* bound: publish() calls that get past the closed check
    MaxCloses       \* bound: close() calls

ASSUME RetryQueueAssumption ==
    /\ IsFiniteSet(Publisher)
    /\ Closer \notin Publisher
    /\ Nobody \notin Publisher \cup {Closer}
    /\ MaxLen \in Nat
    /\ MaxReceipts \in Nat
    /\ MaxCloses \in Nat

VARIABLES
    queue,          \* _queue, oldest first
    closes,         \* close() calls begun; _closed is closes > 0
    warnedFull,     \* _warned_full
    owner,          \* who holds _lock
    entered,        \* publishers past the closed check and not yet returned
    accepted,       \* receipts whose publish has taken the lock
    delivered,      \* what reached the downstream sink, in order
    downClosed,     \* the downstream sink was closed
    dropped,        \* history: receipts the full queue let go
    lateAck,        \* history: receipts that arrived although the call raised
    announced       \* history: a full-queue warning since the queue last had room

vars == <<queue, closes, warnedFull, owner, entered, accepted, delivered,
          downClosed, dropped, lateAck, announced>>

Receipt == 1..MaxReceipts
Closed  == closes > 0

RetryTypeOK ==
    /\ queue \in Seq(Receipt)
    /\ Len(queue) <= MaxLen
    /\ closes \in 0..MaxCloses
    /\ warnedFull \in BOOLEAN
    /\ owner \in entered \cup {Closer, Nobody}
    /\ entered \subseteq Publisher
    /\ accepted \in {0} \cup Receipt
    /\ delivered \in Seq(Receipt)
    /\ downClosed \in BOOLEAN
    /\ dropped \subseteq Receipt
    /\ lateAck \subseteq Receipt
    /\ announced \in BOOLEAN

RetryInit ==
    /\ queue = <<>>
    /\ closes = 0
    /\ warnedFull = FALSE
    /\ owner = Nobody
    /\ entered = {}
    /\ accepted = 0
    /\ delivered = <<>>
    /\ downClosed = FALSE
    /\ dropped = {}
    /\ lateAck = {}
    /\ announced = FALSE

-----------------------------------------------------------------------------
(* The downstream sink's publish(): it takes the receipt, or raises.  A     *)
(* network sink may raise after the receipt arrived (the future of          *)
(* KafkaSink times out); a closed sink raises SinkClosedError.              *)

Accepts(r) ==
    /\ ~downClosed
    /\ delivered' = Append(delivered, r)
    /\ UNCHANGED lateAck

Raises(r) ==
    \/ UNCHANGED <<delivered, lateAck>>
    \/ /\ ~downClosed
       /\ delivered' = Append(delivered, r)
       /\ lateAck' = lateAck \cup {r}

-----------------------------------------------------------------------------
(* publish().                                                              *)

(* deque.append() with a maxlen, after the edge-triggered warning. *)
EnqueueUnbounded(r) ==
    /\ warnedFull' = (warnedFull \/ Len(queue) >= MaxLen)
    /\ queue' = Append(queue, r)
    /\ UNCHANGED dropped

EnqueueFront(r) ==
    /\ warnedFull' = (warnedFull \/ Len(queue) >= MaxLen)
    /\ queue' = IF Len(queue) >= MaxLen THEN queue ELSE <<r>> \o queue
    /\ dropped' = IF Len(queue) >= MaxLen THEN dropped \cup {r} ELSE dropped

Enqueue(r) ==
    LET longer == Append(queue, r) IN
    /\ warnedFull' = (warnedFull \/ Len(queue) >= MaxLen)
    /\ queue' = IF Len(longer) > MaxLen THEN Tail(longer) ELSE longer
    /\ dropped' = IF Len(longer) > MaxLen THEN dropped \cup {Head(longer)} ELSE dropped

(* `if self._closed: raise SinkClosedError`, without the lock. *)
Enter(p) ==
    /\ ~Closed
    /\ p \notin entered
    /\ accepted + Cardinality(entered \ {owner}) < MaxReceipts
    /\ entered' = entered \cup {p}
    /\ UNCHANGED <<queue, closes, warnedFull, owner, accepted, delivered,
                   downClosed, dropped, lateAck>>

Lock(p) ==
    /\ p \in entered
    /\ owner = Nobody
    /\ owner' = p
    /\ accepted' = accepted + 1
    /\ UNCHANGED <<queue, closes, warnedFull, entered, delivered,
                   downClosed, dropped, lateAck>>

(* One turn of the drain loop: the downstream sink takes the oldest one,    *)
(* and the warning is armed again once the queue has room.                  *)
DrainStayingQuiet(p) ==
    /\ owner = p
    /\ queue # <<>>
    /\ Accepts(Head(queue))
    /\ queue' = Tail(queue)
    /\ UNCHANGED <<warnedFull, closes, owner, entered, accepted, downClosed, dropped>>

Drain(p) ==
    /\ owner = p
    /\ queue # <<>>
    /\ Accepts(Head(queue))
    /\ queue' = Tail(queue)
    /\ warnedFull' = (warnedFull /\ Len(queue') >= MaxLen)
    /\ UNCHANGED <<closes, owner, entered, accepted, downClosed, dropped>>

(* The queue is empty: the new receipt is sent. *)
Send(p) ==
    /\ owner = p
    /\ queue = <<>>
    /\ Accepts(accepted)
    /\ owner' = Nobody
    /\ entered' = entered \ {p}
    /\ UNCHANGED <<queue, closes, warnedFull, accepted, downClosed, dropped>>

(* The downstream sink raises, on a queued receipt or on the new one: the   *)
(* former stays where it is, the latter is queued, and publish() returns.   *)
PublishFailsPopping(p) ==
    /\ owner = p
    /\ IF queue = <<>>
       THEN Raises(accepted) /\ Enqueue(accepted)
       ELSE /\ Raises(Head(queue))
            /\ queue' = Append(Tail(queue), accepted)
            /\ UNCHANGED <<warnedFull, dropped>>
    /\ owner' = Nobody
    /\ entered' = entered \ {p}
    /\ UNCHANGED <<closes, accepted, downClosed>>

PublishFailsRetrying(p) ==
    /\ owner = p
    /\ Raises(IF queue = <<>> THEN accepted ELSE Head(queue))
    /\ UNCHANGED <<queue, warnedFull, dropped, owner, entered, closes, accepted, downClosed>>

PublishFails(p) ==
    /\ owner = p
    /\ Raises(IF queue = <<>> THEN accepted ELSE Head(queue))
    /\ Enqueue(accepted)
    /\ owner' = Nobody
    /\ entered' = entered \ {p}
    /\ UNCHANGED <<closes, accepted, downClosed>>

-----------------------------------------------------------------------------
(* close().                                                                *)

CloseLock ==
    /\ owner = Nobody
    /\ closes < MaxCloses
    /\ owner' = Closer
    /\ closes' = closes + 1
    /\ UNCHANGED <<queue, warnedFull, entered, accepted, delivered,
                   downClosed, dropped, lateAck>>

CloseDrain ==
    /\ owner = Closer
    /\ queue # <<>>
    /\ Accepts(Head(queue))
    /\ queue' = Tail(queue)
    /\ UNCHANGED <<closes, warnedFull, owner, entered, accepted, downClosed, dropped>>

(* The loop ends with an empty queue or at the first failure; what is left  *)
(* is reported and the downstream sink is closed.                           *)
CloseEnd ==
    /\ owner = Closer
    /\ IF queue = <<>> THEN UNCHANGED <<delivered, lateAck>> ELSE Raises(Head(queue))
    /\ downClosed' = TRUE
    /\ owner' = Nobody
    /\ UNCHANGED <<queue, closes, warnedFull, entered, accepted, dropped>>

-----------------------------------------------------------------------------
Work(p) == Drain(p) \/ Send(p) \/ PublishFails(p)

Announce ==
    announced' = /\ Len(queue') >= MaxLen
                 /\ announced \/ (warnedFull' /\ ~warnedFull)

RetryNext ==
    /\ \/ \E p \in Publisher : Enter(p) \/ Lock(p) \/ Work(p)
       \/ CloseLock
       \/ CloseDrain
       \/ CloseEnd
    /\ Announce

RetrySpec == RetryInit /\ [][RetryNext]_vars

(* A call that holds the lock goes on, and a call that waits for a lock     *)
(* nobody takes any more gets it: calls are finitely many, so the lock      *)
(* itself need not be fair.  Nothing makes the application publish or       *)
(* close, and nothing makes the downstream sink succeed.                    *)
Fairness ==
    /\ \A p \in Publisher : WF_vars(Lock(p) /\ Announce) /\ WF_vars(Work(p) /\ Announce)
    /\ WF_vars((CloseDrain \/ CloseEnd) /\ Announce)

FairRetrySpec == RetrySpec /\ Fairness

-----------------------------------------------------------------------------
(* Properties.                                                             *)

InHand == IF owner \in Publisher THEN {accepted} ELSE {}

(* "pending receipts drain in FIFO order before the new receipt"            *)
(* (docs/streaming_export.md): whatever the outage pattern and the          *)
(* interleaving of publishers, receipts arrive downstream in the order in   *)
(* which their publishes took the lock.                                     *)
FifoDelivery ==
    \A i, j \in DOMAIN delivered : i < j => delivered[i] <= delivered[j]

(* Receipts are audit records: one that was accepted has arrived, waits in  *)
(* the queue, is in the hand of the publish at work, or was dropped by the  *)
(* bound; no failure pattern makes one vanish in between.  And it arrives   *)
(* twice only if the downstream sink raised after taking it.                *)
NothingVanishes ==
    /\ 1..accepted = Range(delivered) \cup Range(queue) \cup dropped \cup InHand
    /\ \A i, j \in DOMAIN delivered :
           (i # j /\ delivered[i] = delivered[j]) => delivered[i] \in lateAck

(* "silent loss is unacceptable" (_enqueue): while the sink is open, a      *)
(* receipt is dropped only after a warning that belongs to this outage,     *)
(* issued since the queue last had room.  The edge trigger and its          *)
(* re-arming by a partial drain must fit together.                          *)
DropIsAnnounced ==
    [][ (dropped' # dropped /\ ~Closed) => announced' ]_vars

(* "the agent's hot path is never broken": with a downstream sink that may  *)
(* fail forever, every publish still returns.                               *)
PublishReturns ==
    \A p \in Publisher : (p \in entered) ~> (p \notin entered)

=============================================================================
