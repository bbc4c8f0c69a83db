---------------------------- MODULE ReceiptExport ----------------------------
(***************************************************************************)
(* From the judgement of chunks and tool calls to the events in a SIEM:    *)
(* verify_chunks() and admission_check() feed a ReceiptBuilder             *)
(* (provenex/core/receipt.py), _safe_publish() hands the receipt to a sink *)
(* (provenex/export/streaming.py), OCSFAdapter (provenex/export/ocsf.py)   *)
(* maps it to events and forwards them one by one to a destination.        *)
(*                                                                         *)
(* One receipt is followed.  Event number k is that of the k-th source or, *)
(* after the sources, of the k-th action.  The sinks are shared: other     *)
(* calls publish through them, and one of them may close them.  A call     *)
(* that found a retry queue open and gets its lock after close() is left   *)
(* to RetryQueue.                                                          *)
(***************************************************************************)
EXTENDS Naturals, Sequences, FiniteSets

CONSTANTS
    Fingerprint,
    Flagged,        \* the verification outcomes considered besides VERIFIED
    MaxSources,     \* bound: chunks of a call
    MaxActions,     \* bound: tool calls on the receipt
    MaxQueue,       \* maxlen of the deque of a RetryQueueSink
    MaxRaises,      \* bound: failures of the destination
    MaxHour         \* bound: hours that begin

ASSUME ExportAssumption ==
    /\ "VERIFIED" \notin Flagged
    /\ {MaxSources, MaxActions, MaxQueue, MaxRaises, MaxHour} \subseteq Nat

(* How the sinks are composed: "adapter" is OCSFAdapter(destination), alone *)
(* or as a child of a MultiSink; a RetryQueueSink goes before the adapter   *)
(* or behind it; or a MultiSink with the destination goes behind it.        *)
Pipeline == {"adapter", "queue_adapter", "adapter_queue", "adapter_multi"}

(* A destination keeps every message (stdout, a file, SQS, Kafka), keeps    *)
(* objects by receipt_id and hour (S3AppendSink), or reads the receipt_id   *)
(* from the message (PubSubSink): an event has none, KeyError.              *)
Destination == {"stream", "objects", "pubsub"}

VARIABLES
    policy,         \* outcomes verification blocks; whether the other two parts are there
    pipeline, destination,
    sources,        \* SourceRecords: fingerprint and outcome
    accessControl,  \* decisions of policy.access_control, by fingerprint
    actions,        \* ActionRecords: action_index is the position
    toolCallControl, \* decisions of policy.tool_call_control
    phase,          \* "building", then "published", or "refused" by a closed sink
    status,         \* summary.overall_status
    todo,           \* events that publish() of the adapter has yet to forward
    waiting,        \* the deque: of each element, which of the events it carries
    call,           \* whose call of the retry queue holds its lock
    closed,         \* close() of the sinks has begun
    stored,         \* what the destination holds: events with their hours
    hour,
    lost,           \* history: events that no sink holds on to any more
    kept,           \* history: which chunks the model was shown
    executed,       \* history: which calls were allowed
    raises          \* history: how often the destination raised

exportVars == <<policy, pipeline, destination, sources, accessControl, actions,
                toolCallControl, phase, status, todo, waiting, call, closed,
                stored, hour, lost, kept, executed, raises>>

receiptVars == <<policy, sources, accessControl, actions, toolCallControl, kept, executed>>

sinkVars == <<pipeline, destination, todo, waiting, call, closed, stored, hour, lost, raises>>

Decision == {"allow", "deny"}

VerificationPolicy == [blocks : SUBSET Flagged, access : BOOLEAN, tools : BOOLEAN]

SourceRecord == [fingerprint : Fingerprint, outcome : Flagged \cup {"VERIFIED"}]

(* An ActionRecord is its action_index; a decision names it by that.        *)
ActionRecord == 1..MaxActions

EventNumber == 1..(Len(sources) + Len(actions))

ExportTypeOK ==
    /\ policy \in VerificationPolicy
    /\ pipeline \in Pipeline /\ destination \in Destination
    /\ sources \in Seq(SourceRecord)
    /\ accessControl \in Seq([fingerprint : Fingerprint, decision : Decision])
    /\ actions \in Seq(ActionRecord)
    /\ toolCallControl \in Seq([index : DOMAIN actions, decision : Decision])
    /\ phase \in {"building", "published", "refused"}
    /\ status \in {"none", "PASS", "PARTIAL", "FAIL"}
    /\ todo \in Seq(EventNumber)
    /\ waiting \in Seq(SUBSET EventNumber) /\ Len(waiting) <= MaxQueue
    /\ call \in {"none", "receipt", "other", "close"}
    /\ closed \in BOOLEAN
    /\ stored \in Seq([hour : 0..MaxHour, event : EventNumber])
    /\ hour \in 0..MaxHour
    /\ lost \subseteq EventNumber
    /\ kept \in [DOMAIN sources -> BOOLEAN]
    /\ executed \in [DOMAIN actions -> BOOLEAN]
    /\ raises \in 0..MaxRaises

HasQueue == pipeline \in {"queue_adapter", "adapter_queue"}

(* The sinks are older than the receipt: a queue may hold what others       *)
(* published before, and they may be closed already.                        *)
ExportInit ==
    /\ policy \in VerificationPolicy
    /\ pipeline \in Pipeline /\ destination \in Destination
    /\ sources = <<>> /\ accessControl = <<>> /\ kept = <<>>
    /\ actions = <<>> /\ toolCallControl = <<>> /\ executed = <<>>
    /\ phase = "building" /\ status = "none"
    /\ todo = <<>> /\ call = "none" /\ closed \in BOOLEAN
    /\ \E n \in 0..(IF HasQueue THEN MaxQueue ELSE 0) : waiting = [i \in 1..n |-> {}]
    /\ stored = <<>> /\ hour = 0
    /\ lost = {} /\ raises = 0

-----------------------------------------------------------------------------
(* The receipt.                                                            *)

ShouldBlock(outcome) == outcome \in policy.blocks

(* One turn of the loop of verify_chunks(): add_source(), the evaluator's   *)
(* decision where there is an evaluator, kept or blocked.  The index and    *)
(* the metadata may differ from one chunk to the next of the same text.     *)
JudgeChunk(f, outcome, d) ==
    /\ phase = "building"
    /\ Len(sources) < MaxSources
    /\ ~ policy.access => d = "allow"
    /\ sources' = Append(sources, [fingerprint |-> f, outcome |-> outcome])
    /\ accessControl' = IF policy.access
                        THEN Append(accessControl, [fingerprint |-> f, decision |-> d])
                        ELSE accessControl
    /\ kept' = Append(kept, ~ ShouldBlock(outcome) /\ d = "allow")
    /\ UNCHANGED <<sinkVars, policy, actions, toolCallControl, phase, status, executed>>

(* admission_check(): add_action(), and the decision where there is one. *)
AdmitAction(d) ==
    /\ phase = "building"
    /\ Len(actions) < MaxActions
    /\ ~ policy.tools => d = "allow"
    /\ actions' = Append(actions, Len(actions) + 1)
    /\ toolCallControl' = IF policy.tools
                          THEN Append(toolCallControl, [index |-> Len(actions) + 1, decision |-> d])
                          ELSE toolCallControl
    /\ executed' = Append(executed, d = "allow")
    /\ UNCHANGED <<sinkVars, policy, sources, accessControl, phase, status, kept>>

Denied(decisions) == \E i \in DOMAIN decisions : decisions[i].decision = "deny"

(* _summary(), overall_status().  Denied chunks do not count. *)
OverallStatusOfChunks ==
    IF \E i \in DOMAIN sources : ShouldBlock(sources[i].outcome)
    THEN "FAIL"
    ELSE IF \E i \in DOMAIN sources : sources[i].outcome # "VERIFIED" THEN "PARTIAL" ELSE "PASS"

OverallStatus ==
    IF Denied(toolCallControl) \/ \E i \in DOMAIN sources : ShouldBlock(sources[i].outcome)
    THEN "FAIL"
    ELSE IF \E i \in DOMAIN sources : sources[i].outcome # "VERIFIED" THEN "PARTIAL" ELSE "PASS"

-----------------------------------------------------------------------------
(* The events, receipt_to_ocsf().                                          *)

(* ac_decisions_by_fp: the last decision on a fingerprint.  *)
DecisionOn(f) ==
    LET on == {i \in DOMAIN accessControl : accessControl[i].fingerprint = f}
    IN  IF on = {} THEN "none"
        ELSE accessControl[CHOOSE i \in on : \A j \in on : j <= i].decision

IsSourceBlockedByPolicy(s) == DecisionOn(s.fingerprint) = "deny"

IsSourceBlocked(s) == s.outcome \in policy.blocks \/ DecisionOn(s.fingerprint) = "deny"

IsActionDenied(a) ==
    \E i \in DOMAIN toolCallControl :
        toolCallControl[i].index = a /\ toolCallControl[i].decision = "deny"

Finding(severity) == [class |-> "Detection Finding", severity |-> severity]

(* A finding on a source is Critical whenever its outcome is not VERIFIED.  *)
SourceEvent(s) ==
    IF ~ IsSourceBlocked(s)
    THEN [class |-> "Application Activity", severity |-> "Informational"]
    ELSE IF s.outcome # "VERIFIED" THEN Finding("Critical") ELSE Finding("High")

ActionEvent(a) ==
    IF IsActionDenied(a)
    THEN Finding("High")
    ELSE [class |-> "API Activity", severity |-> "Informational"]

Event(k) ==
    IF k <= Len(sources) THEN SourceEvent(sources[k]) ELSE ActionEvent(actions[k - Len(sources)])

EventsFromZero == [k \in EventNumber |-> k - 1]

Events == [k \in EventNumber |-> k]

-----------------------------------------------------------------------------
(* The retry queue.  Its publish() and close() hold the lock to the end.   *)

(* What the call in progress brings, in terms of the receipt followed: all  *)
(* of it, its next event, or nothing, when the receipt or event is another. *)
Carried ==
    IF call # "receipt" THEN {}
    ELSE IF pipeline = "queue_adapter" THEN EventNumber ELSE {Head(todo)}

(* The loop sends the oldest element, and after the last what it was given. *)
ItemNewestFirst == IF call # "receipt" /\ waiting # <<>> THEN Head(waiting) ELSE Carried

Item == IF waiting # <<>> THEN Head(waiting) ELSE Carried

HasItem == call # "none" /\ (call = "close" => waiting # <<>>)

(* _enqueue(): a deque with a maxlen drops its oldest element. *)
EnqueueItem(item) ==
    LET longer == Append(waiting, item) IN
    IF Len(longer) > MaxQueue
    THEN waiting' = Tail(longer) /\ lost' = lost \cup Head(longer)
    ELSE waiting' = longer /\ lost' = lost

(* The downstream sink took the item: popleft(), and the loop goes on, or   *)
(* it was the new one, and publish() returns.                               *)
TurnPassesOnce ==
    /\ waiting' = IF waiting # <<>> THEN Tail(waiting) ELSE waiting
    /\ call' = "none"
    /\ UNCHANGED lost

TurnPasses ==
    /\ waiting' = IF waiting # <<>> THEN Tail(waiting) ELSE waiting
    /\ call' = IF waiting # <<>> THEN call ELSE "none"
    /\ UNCHANGED lost

(* It raised: the item stays, the new one is queued, and the call ends. *)
TurnRaises ==
    /\ call' = "none"
    /\ IF call = "close" THEN UNCHANGED <<waiting, lost>> ELSE EnqueueItem(Carried)

-----------------------------------------------------------------------------
(* publish().                                                              *)

(* finalize() and _safe_publish(): a closed sink raises into the call.  A   *)
(* queue in front has the receipt when it has the lock.                     *)
Publish ==
    /\ phase = "building"
    /\ status' = OverallStatus
    /\ IF closed
       THEN phase' = "refused" /\ UNCHANGED <<todo, call>>
       ELSE /\ phase' = "published"
            /\ IF pipeline = "queue_adapter"
               THEN call = "none" /\ call' = "receipt" /\ UNCHANGED todo
               ELSE todo' = Events /\ UNCHANGED call
    /\ UNCHANGED <<receiptVars, pipeline, destination, waiting, closed, stored, hour,
                   lost, raises>>

(* What publish() of the destination leaves there.  An object that has the  *)
(* key already is replaced: the last one, because hours only go forward.    *)
KeyTaken == destination = "objects" /\ stored # <<>> /\ stored[Len(stored)].hour = hour

Store(k) ==
    stored' = Append(IF KeyTaken THEN SubSeq(stored, 1, Len(stored) - 1) ELSE stored,
                     [hour |-> hour, event |-> k])

Takes(k) == destination # "pubsub" /\ Store(k)

MayRaise ==
    /\ raises < MaxRaises \/ destination = "pubsub"
    /\ raises' = IF raises < MaxRaises THEN raises + 1 ELSE raises

(* It raises, perhaps after the message arrived. *)
Fails(k) == MayRaise /\ (UNCHANGED stored \/ Takes(k))

(* Who takes the adapter's events: the destination, at once. *)
Forwarding ==
    /\ todo # <<>> /\ pipeline # "adapter_queue"
    /\ closed => pipeline = "queue_adapter"

(* The adapter forwards the next event. *)
Forward ==
    /\ Forwarding
    /\ Takes(Head(todo))
    /\ todo' = Tail(todo)
    /\ IF pipeline = "queue_adapter" /\ Len(todo) = 1
       THEN TurnPasses
       ELSE UNCHANGED <<waiting, call, lost>>
    /\ UNCHANGED <<receiptVars, pipeline, destination, phase, status, closed, hour, raises>>

(* The exception ends publish() of the adapter; a MultiSink between it and  *)
(* the destination catches it, and the next event follows.                  *)
ForwardFails ==
    /\ Forwarding
    /\ Fails(Head(todo))
    /\ todo' = IF pipeline = "adapter_multi" THEN Tail(todo) ELSE <<>>
    /\ IF pipeline = "queue_adapter"
       THEN TurnRaises
       ELSE /\ lost' = lost \cup IF pipeline = "adapter_multi" THEN {Head(todo)}
                                 ELSE {todo[i] : i \in DOMAIN todo}
            /\ UNCHANGED <<waiting, call>>
    /\ UNCHANGED <<receiptVars, pipeline, destination, phase, status, closed, hour>>

(* OCSFAdapter.close() takes no lock: in the middle of publish() the sink   *)
(* behind the adapter is closed, and raises SinkClosedError.                *)
Interrupted ==
    /\ closed /\ todo # <<>> /\ pipeline # "queue_adapter"
    /\ todo' = <<>>
    /\ lost' = lost \cup {todo[i] : i \in DOMAIN todo}
    /\ UNCHANGED <<receiptVars, pipeline, destination, phase, status, waiting, call,
                   closed, stored, hour, raises>>

(* publish() of a queue begins, for the next event or on behalf of others.  *)
(* What others do while the receipt is built, Init has done before.         *)
EventCall ==
    /\ pipeline = "adapter_queue" /\ todo # <<>>
    /\ call = "none" /\ ~ closed
    /\ call' = "receipt"
    /\ UNCHANGED <<receiptVars, pipeline, destination, phase, status, todo, waiting,
                   closed, stored, hour, lost, raises>>

OtherCall ==
    /\ HasQueue /\ phase # "building"
    /\ call = "none" /\ ~ closed
    /\ call' = "other"
    /\ UNCHANGED <<receiptVars, pipeline, destination, phase, status, todo, waiting,
                   closed, stored, hour, lost, raises>>

(* close() of the outermost sink, which closes those behind it; a queue     *)
(* tries once more what it holds.                                           *)
BeginClose ==
    /\ phase # "building"
    /\ call = "none" /\ ~ closed
    /\ closed' = TRUE
    /\ call' = IF HasQueue THEN "close" ELSE "none"
    /\ UNCHANGED <<receiptVars, pipeline, destination, phase, status, todo, waiting,
                   stored, hour, lost, raises>>

EndClose ==
    /\ call = "close" /\ waiting = <<>>
    /\ call' = "none"
    /\ UNCHANGED <<receiptVars, pipeline, destination, phase, status, todo, waiting,
                   closed, stored, hour, lost, raises>>

(* The queue sends its item to a queue's downstream sink: the adapter, in   *)
(* front of which the receipt waits as a whole, ...                         *)
SendReceipt ==
    /\ pipeline = "queue_adapter" /\ HasItem /\ Item # {}
    /\ todo = <<>>
    /\ todo' = Events
    /\ UNCHANGED <<receiptVars, pipeline, destination, phase, status, waiting, call,
                   closed, stored, hour, lost, raises>>

(* ... or the destination, for an event of the receipt or of another one.   *)
(* Another one that is a whole receipt may have no events.                  *)
SendItem ==
    /\ HasItem
    /\ IF Item = {}
       THEN (destination = "pubsub" => pipeline = "queue_adapter") /\ UNCHANGED stored
       ELSE pipeline = "adapter_queue" /\ \E k \in Item : Takes(k)
    /\ todo' = IF pipeline = "adapter_queue" /\ call = "receipt" /\ waiting = <<>>
               THEN Tail(todo) ELSE todo
    /\ TurnPasses
    /\ UNCHANGED <<receiptVars, pipeline, destination, phase, status, closed, hour, raises>>

SendFails ==
    /\ HasItem
    /\ IF Item = {}
       THEN MayRaise /\ UNCHANGED stored
       ELSE pipeline = "adapter_queue" /\ \E k \in Item : Fails(k)
    /\ todo' = IF pipeline = "adapter_queue" /\ call = "receipt" THEN Tail(todo) ELSE todo
    /\ TurnRaises
    /\ UNCHANGED <<receiptVars, pipeline, destination, phase, status, closed, hour>>

(* The UTC hour changes, on which the key of an object depends. *)
NextHour ==
    /\ phase = "published" /\ destination = "objects"
    /\ hour < MaxHour
    /\ hour' = hour + 1
    /\ UNCHANGED <<receiptVars, pipeline, destination, phase, status, todo, waiting,
                   call, closed, stored, lost, raises>>

Exporting ==
    \/ Forward \/ ForwardFails \/ Interrupted
    \/ EventCall \/ SendReceipt \/ SendItem \/ SendFails \/ EndClose

ExportNext ==
    \/ \E f \in Fingerprint, o \in Flagged \cup {"VERIFIED"}, d \in Decision : JudgeChunk(f, o, d)
    \/ \E d \in Decision : AdmitAction(d)
    \/ Publish
    \/ Exporting
    \/ OtherCall
    \/ BeginClose
    \/ NextHour

(* A call that has begun goes on.  Nothing makes another one come, which a  *)
(* queue that holds something waits for: there is no thread that drains it. *)
ExportSpec == ExportInit /\ [][ExportNext]_exportVars /\ WF_exportVars(Exporting)

-----------------------------------------------------------------------------
(* Properties.                                                             *)

Stored == {stored[i].event : i \in DOMAIN stored}

IsFinding(k) == Event(k).class = "Detection Finding"

(* The last decision on the text of chunk k is another than that on k.     *)
Overruled(k) ==
    \E j \in DOMAIN accessControl :
        /\ accessControl[j].fingerprint = sources[k].fingerprint
        /\ accessControl[j].decision # accessControl[k].decision
        /\ \A i \in DOMAIN accessControl :
               accessControl[i].fingerprint = sources[k].fingerprint => i <= j

(* What the SIEM is told agrees with what was done: a finding for exactly   *)
(* the chunks that were withheld and the calls that were denied, although   *)
(* the adapter decides it anew from the receipt.  It joins the decisions by *)
(* fingerprint, so that of a text that was decided both ways it reports the *)
(* last decision: a chunk that was withheld before may pass for allowed.    *)
SiemAgrees ==
    phase = "published" =>
        \A k \in Stored :
            IF k <= Len(sources)
            THEN Overruled(k) \/ (IsFinding(k) <=> ~ kept[k])
            ELSE IsFinding(k) <=> ~ executed[k - Len(sources)]

(* The summary tells the same story as the events: it fails exactly if one  *)
(* of them is a finding, findings of the access-control policy alone aside, *)
(* and a PASS means nothing but such findings and plain activity.           *)
StatusAgreesWithEvents ==
    phase = "published" =>
        LET serious(k) == IsFinding(k) /\
                (k <= Len(sources) => sources[k].outcome \in policy.blocks)
        IN  /\ status = "FAIL" <=> \E k \in EventNumber : serious(k)
            /\ status = "PASS" => \A k \in EventNumber : Event(k).severity # "Critical"

(* Whatever fails and is tried again, a stream has an event only after all  *)
(* the events before it, but for those that were let go, by a full queue, a *)
(* MultiSink, an exception or close(): and these never arrive afterwards.   *)
EventsStayInOrder ==
    destination = "stream" =>
        \A i \in DOMAIN stored : \A k \in 1..(stored[i].event - 1) :
            \/ \E j \in 1..(i - 1) : stored[j].event = k
            \/ k \in lost \ Stored

(* If a call of a retry queue ends without a failure, it has emptied the    *)
(* queue: be it publish() for this receipt or another, or close(), every    *)
(* event that was not let go is now at the stream.                          *)
EmptiedUnlessRaised ==
    [][(/\ call # "none" /\ call' = "none" /\ raises' = raises
        /\ phase = "published" /\ destination = "stream" /\ todo' = <<>>)
           => EventNumber \subseteq Stored' \cup lost']_exportVars

(* And every such call ends.  No call need come, for there is no thread     *)
(* that drains the queue: what waits then goes on waiting.                  *)
QueuedReceiptArrives ==
    /\ (call # "none") ~> (call = "none")
    /\ EmptiedUnlessRaised

(* Once publish() is over and nothing raised or was let go, each event is   *)
(* at the destination: the adapter composes with any sink.                  *)
EveryEventIsKept ==
    (/\ phase = "published" /\ todo = <<>> /\ call # "receipt"
     /\ raises = 0 /\ lost = {}) => Stored = EventNumber
=============================================================================
