------------------------------ MODULE SqsQueue ------------------------------
(***************************************************************************)
(* The queues of one account and region: messages, visibility windows,      *)
(* receipt handles, FIFO ordering, deduplication and dead-letter queues.    *)
(*                                                                          *)
(* Every API call runs under the write lock of the SQS state, so each is    *)
(* one action.  A long-polling ReceiveMessage calls try_receive_messages    *)
(* again and again, dropping the lock between the calls: each of its polls  *)
(* is one ReceiveMessage action.  Bodies and attributes are left out; a     *)
(* message is known by its id.  A receipt handle is the id of the message   *)
(* it was minted for and the number of the mint, which makes it unique as   *)
(* a UUID is.  Time is counted in ticks.                                    *)
(***************************************************************************)
EXTENDS Deque

CONSTANTS
    Queues,           \* queue URLs
    NoQueue,          \* no redrive target, no explicit destination
    UrlOrder,         \* the order of `queues`, a BTreeMap keyed by URL
    FifoQueues,       \* the queues with is_fifo
    PerGroupDedup,    \* the FIFO queues with DeduplicationScope = messageGroup
    EncryptedQueues,  \* the queues whose KMS key may become unusable
    Groups, NoGroup,  \* MessageGroupId, and its absence
    DedupIds,         \* effective MessageDeduplicationId (given, or body hash)
    Attempts,         \* ReceiveRequestAttemptId
    NoAttempt,        \* a receive without one
    Delays,           \* DelaySeconds of a send
    DefaultDelays,    \* values SetQueueAttributes gives a queue's DelaySeconds
    Timeouts,         \* VisibilityTimeout of a receive
    NewTimeouts,      \* VisibilityTimeout of ChangeMessageVisibility
    BatchSizes,       \* MaxNumberOfMessages of a receive
    ReceivedQueues,   \* queues consumers call ReceiveMessage on
    MaxReceiveCount,  \* maxReceiveCount of every redrive policy
    Retention,        \* MessageRetentionPeriod
    DedupWindow,      \* the deduplication window (5 minutes)
    InitialRedrive,   \* redrive policy each queue starts with
    DeliveryTargets,  \* queues other services deliver to
    ForcedQueues,     \* queues the force-dlq simulation endpoint is called on
    ManagedQueues,    \* queues that are created, deleted, purged, reconfigured
    RedriveSources,   \* dead-letter queues StartMessageMoveTask is called on
    MaxMessages,      \* bound: messages sent in a behaviour
    MaxMints,         \* bound: receipt handles minted for one message
    MaxTime           \* bound: the clock

None == -1   \* an Option that is None

ASSUME ConstantsAssumption ==
    /\ IsFiniteSet(Queues)
    /\ FifoQueues \subseteq Queues /\ PerGroupDedup \subseteq FifoQueues
    /\ EncryptedQueues \subseteq Queues /\ DeliveryTargets \subseteq Queues
    /\ ForcedQueues \subseteq Queues /\ ManagedQueues \subseteq Queues
    /\ RedriveSources \subseteq Queues
    /\ NoQueue \notin Queues /\ NoGroup \notin Groups /\ NoAttempt \notin Attempts
    /\ Delays \subseteq Nat /\ DefaultDelays \subseteq Nat
    /\ Timeouts \subseteq Nat /\ NewTimeouts \subseteq Nat
    /\ BatchSizes \subseteq Nat /\ ReceivedQueues \subseteq Queues
    /\ MaxReceiveCount \in Nat /\ Retention \in Nat /\ DedupWindow \in Nat \ {0}
    /\ MaxMessages \in Nat /\ MaxMints \in Nat /\ MaxTime \in Nat
    /\ InitialRedrive \in [Queues -> Queues \cup {NoQueue}]
    /\ UrlOrder \in [Queues -> Nat]
    /\ \A p, q \in Queues : UrlOrder[p] = UrlOrder[q] => p = q

MsgIds == 1..MaxMessages
Keys == (Groups \cup {NoGroup}) \X DedupIds

Message ==
    [id : MsgIds, group : Groups \cup {NoGroup}, seq : Nat \cup {None},
     created : Nat, visible_at : Nat \cup {None}, receive_count : Nat,
     receipt_handle : Nat \cup {None}]

\* Entries of the two caches.  Entries with expiry 0 stand for absent ones.
\* `handle` is a history field: the handle each message was delivered under.
DedupEntry == [id : MsgIds \cup {0}, seq : Nat \cup {None}, expiry : Nat]
ReceiveAttemptEntry ==
    [ids : SUBSET MsgIds, expiry : Nat, handle : [MsgIds -> Nat]]

NoDedup == [id |-> 0, seq |-> None, expiry |-> 0]
NoReceive == [ids |-> {}, expiry |-> 0, handle |-> [i \in MsgIds |-> 0]]

Queue ==
    [messages : Seq(Message), inflight : Seq(Message),
     receipt_handle_map : [MsgIds -> SUBSET Nat],
     dedup_cache : [Keys -> DedupEntry],
     receive_attempt_cache : [Attempts -> ReceiveAttemptEntry],
     next_sequence_number : Nat,
     redrive : Queues \cup {NoQueue}]

NewQueue(redrive) ==
    [messages |-> <<>>, inflight |-> <<>>,
     receipt_handle_map |-> [i \in MsgIds |-> {}],
     dedup_cache |-> [k \in Keys |-> NoDedup],
     receive_attempt_cache |-> [a \in Attempts |-> NoReceive],
     next_sequence_number |-> 0,
     redrive |-> redrive]

VARIABLES
    now,       \* the clock
    live,      \* the queues that exist
    queues,    \* their state; NewQueue(NoQueue) for one that does not exist
    sent,      \* how many messages have been accepted; the last id
    minted,    \* how many receipt handles each message has had
    gone,      \* history: ids removed by DeleteMessage, PurgeQueue,
               \*   DeleteQueue or the retention period
    accepted   \* history: what SendMessage put on a FIFO queue

vars == <<now, live, queues, sent, minted, gone, accepted>>

Init ==
    /\ now = 0
    /\ live = Queues
    /\ queues = [q \in Queues |-> NewQueue(InitialRedrive[q])]
    /\ sent = 0
    /\ minted = [i \in MsgIds |-> 0]
    /\ gone = {} /\ accepted = {}

Ids(s) == {s[i].id : i \in DOMAIN s}

\* Time passes.
Tick ==
    /\ now < MaxTime
    /\ now' = now + 1
    /\ UNCHANGED <<live, queues, sent, minted, gone, accepted>>

-----------------------------------------------------------------------------
(* Sending. *)

\* The delay of an entry is the one in force: its own DelaySeconds or, without
\* one, the attribute of the queue at that moment.
Entries ==
    [group : Groups \cup {NoGroup}, dedup : DedupIds, delay : Delays \cup DefaultDelays]

\* dedup_cache_key: scoped to the message group or to the queue.
DedupKey(q, e) == <<IF q \in PerGroupDedup THEN e.group ELSE NoGroup, e.dedup>>

\* Mutant: an entry is dropped one tick too early.
PruneDedupEarly(Q) ==
    [Q EXCEPT !.dedup_cache =
        [k \in Keys |-> IF @[k].expiry > now + 1 THEN @[k] ELSE NoDedup]]

PruneDedup(Q) ==
    [Q EXCEPT !.dedup_cache =
        [k \in Keys |-> IF @[k].expiry > now THEN @[k] ELSE NoDedup]]

\* A FIFO send whose key is in the cache is answered with the original id and
\* sequence number and enqueues nothing.
IsDuplicate(q, e) ==
    /\ q \in FifoQueues
    /\ PruneDedup(queues[q]).dedup_cache[DedupKey(q, e)] # NoDedup

NewMessage(q, Q, e, id) ==
    [id |-> id, group |-> e.group,
     seq |-> IF q \in FifoQueues THEN Q.next_sequence_number ELSE None,
     created |-> now,
     visible_at |-> IF e.delay > 0 THEN now + e.delay ELSE None,
     receive_count |-> 0, receipt_handle |-> None]

\* push_back, and the next sequence number of a FIFO queue.
PushBack(q, Q, e, id) ==
    [Q EXCEPT !.messages = Append(@, NewMessage(q, Q, e, id)),
              !.next_sequence_number = IF q \in FifoQueues THEN @ + 1 ELSE @]

\* One message accepted; on a FIFO queue its key is cached once it is enqueued.
Enqueue(q, Q, e, id) ==
    IF q \in FifoQueues
    THEN [PushBack(q, PruneDedup(Q), e, id) EXCEPT
              !.dedup_cache[DedupKey(q, e)] =
                  [id |-> id, seq |-> Q.next_sequence_number, expiry |-> now + DedupWindow]]
    ELSE PushBack(q, Q, e, id)

\* What the history remembers of an accepted FIFO send.
Accepted(q, e, id, seq) ==
    IF q \in FifoQueues
    THEN {[queue |-> q, key |-> DedupKey(q, e), at |-> now, id |-> id, seq |-> seq]}
    ELSE {}

\* check_fifo_send_constraints: a FIFO send has a group and no DelaySeconds of
\* its own but 0; the attribute of the queue is not looked at.
FifoSendAllowed(q, e) ==
    q \in FifoQueues => e.group # NoGroup /\ (e.delay = 0 \/ e.delay \in DefaultDelays)

SendMessage(q, e) ==
    /\ q \in live
    /\ FifoSendAllowed(q, e)
    /\ sent < MaxMessages
    /\ ~IsDuplicate(q, e)
    /\ queues' = [queues EXCEPT ![q] = Enqueue(q, @, e, sent + 1)]
    /\ sent' = sent + 1
    /\ accepted' = accepted \cup Accepted(q, e, sent + 1, queues[q].next_sequence_number)
    /\ UNCHANGED <<now, live, minted, gone>>

\* The early return of a duplicate: only expired cache entries are dropped.
SendDuplicate(q, e) ==
    /\ q \in live
    /\ FifoSendAllowed(q, e)
    /\ IsDuplicate(q, e)
    /\ queues' = [queues EXCEPT ![q] = PruneDedup(@)]
    /\ UNCHANGED <<now, live, sent, minted, gone, accepted>>

UseNumber(Q) == [Q EXCEPT !.next_sequence_number = @ + 1]

\* Bound: numbers are used up for nothing while the send can still be retried,
\* and not beyond the number of messages.
NumberToWaste(Q) == sent < MaxMessages /\ Q.next_sequence_number <= sent

\* The body cannot be encrypted: the sequence number is used up, nothing is
\* enqueued and nothing is cached, so that a retry is not taken for a
\* duplicate.  (On a standard queue nothing changes.)
SendEncryptFails(q, e) ==
    /\ q \in live \cap EncryptedQueues \cap FifoQueues
    /\ FifoSendAllowed(q, e)
    /\ ~IsDuplicate(q, e)
    /\ NumberToWaste(queues[q])
    /\ queues' = [queues EXCEPT ![q] = UseNumber(PruneDedup(@))]
    /\ UNCHANGED <<now, live, sent, minted, gone, accepted>>

\* SendMessageBatch with two entries.  Each is processed as a send of its own,
\* except that a FIFO queue does not reject a delay here; one that is a
\* duplicate, of the other entry too, enqueues nothing.  An entry that is
\* rejected (a FIFO entry without a group) changes nothing, and what is left of
\* the batch does what the other entry does alone: SendMessageBatch(q, e, e) on
\* a FIFO queue.  All bodies are encrypted before the first entry is processed:
\* a failure changes nothing.
SendMessageBatch(q, e1, e2) ==
    LET Q == queues[q]
        n1 == IF IsDuplicate(q, e1) THEN 0 ELSE 1
        Q1 == IF n1 = 0 THEN PruneDedup(Q) ELSE Enqueue(q, Q, e1, sent + 1)
        n2 == IF /\ q \in FifoQueues
                 /\ PruneDedup(Q1).dedup_cache[DedupKey(q, e2)] # NoDedup
              THEN 0 ELSE 1
    IN  /\ q \in live
        /\ q \in FifoQueues => e1.group # NoGroup /\ e2.group # NoGroup
        /\ sent + n1 + n2 <= MaxMessages
        /\ queues' = [queues EXCEPT ![q] =
              IF n2 = 0 THEN PruneDedup(Q1) ELSE Enqueue(q, Q1, e2, sent + n1 + 1)]
        /\ sent' = sent + n1 + n2
        /\ accepted' = accepted
              \cup (IF n1 = 0 THEN {}
                    ELSE Accepted(q, e1, sent + 1, Q.next_sequence_number))
              \cup (IF n2 = 0 THEN {}
                    ELSE Accepted(q, e2, sent + n1 + 1, Q1.next_sequence_number))
        /\ UNCHANGED <<now, live, minted, gone>>

\* A delivery from SNS, EventBridge, S3 or Scheduler: no deduplication, no
\* delay, and the group may be missing on a FIFO queue too.
Deliver(q, g) ==
    LET e == [group |-> g, delay |-> 0]
    IN  /\ q \in live \cap DeliveryTargets
        /\ sent < MaxMessages
        /\ queues' = [queues EXCEPT ![q] = PushBack(q, @, e, sent + 1)]
        /\ sent' = sent + 1
        /\ UNCHANGED <<now, live, minted, gone, accepted>>

\* Its encryption fails: the sequence number is used up.
DeliverEncryptFails(q) ==
    /\ q \in live \cap DeliveryTargets \cap EncryptedQueues \cap FifoQueues
    /\ NumberToWaste(queues[q])
    /\ queues' = [queues EXCEPT ![q] = UseNumber(@)]
    /\ UNCHANGED <<now, live, sent, minted, gone, accepted>>

-----------------------------------------------------------------------------
(* Receiving. *)

\* The messages the retention period has not run out for.
Retained(s) == Keep(s, {i \in DOMAIN s : now - s[i].created < Retention})

DropExpired(Q) ==
    [Q EXCEPT !.messages = Retained(@), !.inflight = Retained(@)]

\* The ids DropExpired removes.
ExpiredIds(Q) ==
    (Ids(Q.messages) \ Ids(Retained(Q.messages)))
        \cup (Ids(Q.inflight) \ Ids(Retained(Q.inflight)))

\* In-flight messages whose visibility window has lapsed.
Lapsed(Q) ==
    {i \in DOMAIN Q.inflight : Q.inflight[i].visible_at # None
                               /\ Q.inflight[i].visible_at <= now}

\* A message that is nobody's: it has no handle and is visible.
Unleased(m) == [m EXCEPT !.receipt_handle = None, !.visible_at = None]
UnleaseAll(s) == [i \in DOMAIN s |-> Unleased(s[i])]

\* Mutants of ReturnLapsed: the handle map keeps the lapsed handle; a FIFO queue
\* gets the message at the back.
ReturnLapsedKeepsHandles(q, Q) ==
    LET back == UnleaseAll(Keep(Q.inflight, Lapsed(Q)))
    IN  [Q EXCEPT !.inflight = Keep(@, DOMAIN @ \ Lapsed(Q)),
                  !.messages = IF q \in FifoQueues THEN back \o @ ELSE @ \o back]

ReturnLapsedToBack(q, Q) ==
    LET back == UnleaseAll(Keep(Q.inflight, Lapsed(Q)))
    IN  [Q EXCEPT !.inflight = Keep(@, DOMAIN @ \ Lapsed(Q)),
                  !.messages = @ \o back,
                  !.receipt_handle_map =
                      [i \in MsgIds |-> IF i \in Ids(back) THEN {} ELSE @[i]]]

\* They become visible: at the front of a FIFO queue and in their order, at the
\* back of a standard one; their handles are forgotten.
ReturnLapsed(q, Q) ==
    LET back == UnleaseAll(Keep(Q.inflight, Lapsed(Q)))
    IN  [Q EXCEPT
            !.inflight = Keep(@, DOMAIN @ \ Lapsed(Q)),
            !.messages = IF q \in FifoQueues THEN back \o @ ELSE @ \o back,
            !.receipt_handle_map =
                [i \in MsgIds |-> IF i \in Ids(back) THEN {} ELSE @[i]]]

\* Mutant: remembered attempts are never dropped.
PruneAttemptsNever(Q) ==
    [Q EXCEPT !.receive_attempt_cache =
        [a \in Attempts |-> IF @[a].expiry > 0 THEN [@[a] EXCEPT !.expiry = now + 1] ELSE @[a]]]

PruneAttempts(Q) ==
    [Q EXCEPT !.receive_attempt_cache =
        [a \in Attempts |-> IF @[a].expiry > now THEN @[a] ELSE NoReceive]]

\* A retried FIFO receive whose attempt is remembered and has a message still
\* in flight is answered with those messages.
Replays(q, a) ==
    /\ q \in FifoQueues /\ a \in Attempts
    /\ PruneAttempts(queues[q]).receive_attempt_cache[a].ids
           \cap Ids(queues[q].inflight) # {}

\* The queue as the selection of messages finds it.
Refreshed(q) ==
    LET Q == queues[q]
    IN  ReturnLapsed(q, DropExpired(IF q \in FifoQueues THEN PruneAttempts(Q) ELSE Q))

IsVisible(m) == m.visible_at = None \/ m.visible_at <= now

\* The message groups a FIFO receive skips.
InflightGroups(Q) == {Q.inflight[i].group : i \in DOMAIN Q.inflight} \ {NoGroup}

Eligible(q, Q) ==
    {i \in DOMAIN Q.messages :
        /\ IsVisible(Q.messages[i])
        /\ q \in FifoQueues => Q.messages[i].group \notin InflightGroups(Q)}

\* Fair queues: how many messages of m's group are in flight.
Load(Q, m) ==
    IF m.group = NoGroup THEN 0
    ELSE Cardinality({i \in DOMAIN Q.inflight : Q.inflight[i].group = m.group})

\* FIFO queues hand out in queue order, standard ones by load (a stable sort).
PickOrder(q, Q) ==
    [i \in Eligible(q, Q) |->
        IF q \in FifoQueues THEN i
        ELSE Load(Q, Q.messages[i]) * (Len(Q.messages) + 1) + i]

Candidates(q, Q) == Arrange(Q.messages, PickOrder(q, Q))

\* Mutant: one receive too late.
ExhaustedLate(Q, m) == Q.redrive # NoQueue /\ m.receive_count > MaxReceiveCount

\* One more receive would exceed maxReceiveCount.
Exhausted(Q, m) == Q.redrive # NoQueue /\ m.receive_count + 1 > MaxReceiveCount

\* The candidates the loop takes out of the queue: until `max` are received.
\* Exhausted ones do not count.
Taken(Q, c, max) ==
    {k \in DOMAIN c : Cardinality({j \in 1..(k - 1) : ~Exhausted(Q, c[j])}) < max}

Received(q, Q, max) ==
    LET c == Candidates(q, Q)
    IN  Keep(c, {k \in Taken(Q, c, max) : ~Exhausted(Q, c[k])})

Dead(q, Q, max) ==
    LET c == Candidates(q, Q)
    IN  Keep(c, {k \in Taken(Q, c, max) : Exhausted(Q, c[k])})

\* What stays: in its order on a FIFO queue; on a standard one the hidden
\* messages first, then the other candidates as sorted.
Remaining(q, Q, max) ==
    LET c == Candidates(q, Q)
        taken == Ids(Keep(c, Taken(Q, c, max)))
    IN  IF q \in FifoQueues
        THEN Keep(Q.messages, {i \in DOMAIN Q.messages : Q.messages[i].id \notin taken})
        ELSE Keep(Q.messages, DOMAIN Q.messages \ Eligible(q, Q))
                 \o Keep(c, DOMAIN c \ Taken(Q, c, max))

\* Mutant: the count goes down.
HandOutCountsDown(m, vt) ==
    [m EXCEPT !.receive_count = @ - 1, !.visible_at = now + vt,
              !.receipt_handle = minted[m.id] + 1]

\* A received message: counted, hidden, under a new receipt handle.
HandOut(m, vt) ==
    [m EXCEPT !.receive_count = @ + 1, !.visible_at = now + vt,
              !.receipt_handle = minted[m.id] + 1]

\* Mutant: the receive count moves along.
RestartKeepsCount(s) ==
    [i \in DOMAIN s |-> [s[i] EXCEPT !.receipt_handle = None, !.visible_at = None,
                                     !.receive_count = @ + 1]]

\* A message on its way to another queue starts a fresh receive history.
Restarted(m) == [Unleased(m) EXCEPT !.receive_count = 0]
Restart(s) ==
    [i \in DOMAIN s |-> Restarted(s[i])]

\* A replayed receive only drops expired attempts.
ReplayReceive(q, a) ==
    /\ q \in live
    /\ Replays(q, a)
    /\ queues' = [queues EXCEPT ![q] = PruneAttempts(@)]
    /\ UNCHANGED <<now, live, sent, minted, gone, accepted>>

\* The queue after handing out: the handles are remembered, and on a FIFO queue
\* the attempt.
HandedOut(q, Q, max, vt, a) ==
    LET received == Received(q, Q, max)
        handed == [i \in DOMAIN received |-> HandOut(received[i], vt)]
    IN  [Q EXCEPT
            !.messages = Remaining(q, Q, max),
            !.inflight = @ \o handed,
            !.receipt_handle_map =
                [i \in MsgIds |-> IF i \in Ids(handed) THEN @[i] \cup {minted[i] + 1} ELSE @[i]],
            !.receive_attempt_cache =
                [b \in Attempts |->
                    IF b = a /\ q \in FifoQueues /\ received # <<>>
                    THEN [ids |-> Ids(handed), expiry |-> now + vt,
                          handle |-> [i \in MsgIds |-> minted[i] + 1]]
                    ELSE @[b]]]

\* push_back of messages that come from elsewhere.
Arrive(Q, s) == [Q EXCEPT !.messages = @ \o s]

ReceiveMessage(q, max, vt, a) ==
    LET Q == Refreshed(q)
        received == Received(q, Q, max)
        \* A dead-letter queue that does not exist: back to the source.
        target == IF Q.redrive \in live THEN Q.redrive ELSE q
        queues1 == [queues EXCEPT ![q] = HandedOut(q, Q, max, vt, a)]
    IN  /\ q \in live
        /\ ~Replays(q, a)
        /\ \A i \in Ids(received) : minted[i] < MaxMints
        /\ queues' = [queues1 EXCEPT ![target] = Arrive(@, Restart(Dead(q, Q, max)))]
        /\ minted' = [i \in MsgIds |-> IF i \in Ids(received) THEN minted[i] + 1 ELSE minted[i]]
        /\ gone' = gone \cup ExpiredIds(queues[q])
        /\ UNCHANGED <<now, live, sent, accepted>>

\* A body cannot be decrypted: the received messages go back to the front with
\* their receive counts restored.  The exhausted ones were taken out of the
\* queue as well; the early return drops them.
ReceiveDecryptFails(q, max, a) ==
    LET Q == Refreshed(q)
        received == Received(q, Q, max)
    IN  /\ q \in live \cap EncryptedQueues
        /\ ~Replays(q, a)
        /\ received # <<>>
        /\ queues' = [queues EXCEPT ![q] =
                         [Q EXCEPT !.messages = UnleaseAll(received) \o Remaining(q, Q, max)]]
        /\ gone' = gone \cup ExpiredIds(queues[q])
        /\ UNCHANGED <<now, live, sent, minted, accepted>>

-----------------------------------------------------------------------------
(* Receipt handles. *)

\* find_message_id_for_receipt: the map first, then the messages themselves.
Resolves(Q, i, n) ==
    \/ n \in Q.receipt_handle_map[i]
    \/ \E j \in DOMAIN Q.inflight : Q.inflight[j].id = i /\ Q.inflight[j].receipt_handle = n
    \/ \E j \in DOMAIN Q.messages : Q.messages[j].id = i /\ Q.messages[j].receipt_handle = n

\* The messages some handle given to a consumer resolves to.
Reachable(Q) == {i \in MsgIds : \E n \in 1..minted[i] : Resolves(Q, i, n)}

Without(s, ids) == Keep(s, {i \in DOMAIN s : s[i].id \notin ids})

\* DeleteMessage and DeleteMessageBatch: the map is kept, so that a second
\* delete succeeds too.  Entries that do not resolve only yield an error.
Deleted(Q, ids) ==
    [Q EXCEPT !.inflight = Without(@, ids), !.messages = Without(@, ids)]

DeleteMessageBatch(q, ids) ==
    /\ q \in live
    /\ ids \subseteq Reachable(queues[q])
    /\ queues' = [queues EXCEPT ![q] = Deleted(@, ids)]
    /\ gone' = gone \cup (ids \cap (Ids(queues[q].inflight) \cup Ids(queues[q].messages)))
    /\ UNCHANGED <<now, live, sent, minted, accepted>>

DeleteMessage(q, i) == DeleteMessageBatch(q, {i})

VisibleAt(m, time) == [m EXCEPT !.visible_at = time]

Revisible(s, ids, t) ==
    [k \in DOMAIN s |-> IF s[k].id \in ids THEN VisibleAt(s[k], now + t) ELSE s[k]]

\* In flight first; a message that is visible again is hidden in place.
WithVisibility(Q, ids, t) ==
    LET flying == ids \cap Ids(Q.inflight)
    IN  [Q EXCEPT !.inflight = Revisible(@, flying, t),
                  !.messages = Revisible(@, ids \ flying, t)]

ChangeMessageVisibilityBatch(q, ids, t) ==
    /\ q \in live
    /\ ids \subseteq Reachable(queues[q])
    /\ queues' = [queues EXCEPT ![q] = WithVisibility(@, ids, t)]
    /\ UNCHANGED <<now, live, sent, minted, gone, accepted>>

ChangeMessageVisibility(q, i, t) == ChangeMessageVisibilityBatch(q, {i}, t)

-----------------------------------------------------------------------------
(* Queues. *)

\* validate_redrive_policy_target: it exists, and is FIFO if the source is.
RedriveAllowed(q, target) ==
    target = NoQueue \/ (target \in live /\ (q \in FifoQueues => target \in FifoQueues))

\* An existing queue of that name and attributes is left as it is.
CreateQueue(q, target) ==
    /\ q \in ManagedQueues \ live
    /\ RedriveAllowed(q, target)
    /\ live' = live \cup {q}
    /\ queues' = [queues EXCEPT ![q] = NewQueue(target)]
    /\ UNCHANGED <<now, sent, minted, gone, accepted>>

DeleteQueue(q) ==
    /\ q \in live \cap ManagedQueues
    /\ live' = live \ {q}
    /\ queues' = [queues EXCEPT ![q] = NewQueue(NoQueue)]
    /\ gone' = gone \cup Ids(queues[q].messages) \cup Ids(queues[q].inflight)
    /\ accepted' = {s \in accepted : s.queue # q}
    /\ UNCHANGED <<now, sent, minted>>

\* The handle map and the caches survive a purge.
PurgeQueue(q) ==
    /\ q \in live \cap ManagedQueues
    /\ queues' = [queues EXCEPT ![q] = [@ EXCEPT !.messages = <<>>, !.inflight = <<>>]]
    /\ gone' = gone \cup Ids(queues[q].messages) \cup Ids(queues[q].inflight)
    /\ UNCHANGED <<now, live, sent, minted, accepted>>

\* SetQueueAttributes of a redrive policy, or of an empty one.
SetRedrivePolicy(q, target) ==
    /\ q \in live \cap ManagedQueues
    /\ RedriveAllowed(q, target)
    /\ queues' = [queues EXCEPT ![q].redrive = target]
    /\ UNCHANGED <<now, live, sent, minted, gone, accepted>>

-----------------------------------------------------------------------------
(* Moving messages between queues. *)

\* The simulation endpoint that runs the retention period on every queue.
TickExpiration ==
    /\ queues' = [q \in Queues |-> IF q \in live THEN DropExpired(queues[q]) ELSE queues[q]]
    /\ gone' = gone \cup UNION {ExpiredIds(queues[q]) : q \in live}
    /\ UNCHANGED <<now, live, sent, minted, accepted>>

\* The messages that have reached maxReceiveCount, and a queue without them.
AtLimit(s) == {i \in DOMAIN s : s[i].receive_count >= MaxReceiveCount}
Limited(Q) ==
    UnleaseAll(Keep(Q.messages, AtLimit(Q.messages)) \o Keep(Q.inflight, AtLimit(Q.inflight)))

\* Mutant of WithoutLimited: the in-flight messages are moved and not taken out.
WithoutLimitedWaiting(Q) == [Q EXCEPT !.messages = Keep(@, DOMAIN @ \ AtLimit(@))]

WithoutLimited(Q) ==
    [Q EXCEPT !.messages = Keep(@, DOMAIN @ \ AtLimit(@)),
              !.inflight = Keep(@, DOMAIN @ \ AtLimit(@))]

\* The simulation endpoint that dead-letters every message, waiting or in
\* flight, that has reached maxReceiveCount.  The receive count and the
\* source's handle map are left as they are.
ForceDlq(q) ==
    LET Q == queues[q]
        queues1 == [queues EXCEPT ![q] = WithoutLimited(@)]
    IN  /\ q \in live \cap ForcedQueues
        /\ Q.redrive \in live
        /\ queues' = [queues1 EXCEPT ![Q.redrive] = Arrive(@, Limited(Q))]
        /\ UNCHANGED <<now, live, sent, minted, gone, accepted>>

\* The queues whose redrive policy names src, in URL order.
DlqSources(src) == {q \in live : queues[q].redrive = src}

\* Mutant of RedriveNow, with an explicit destination: the messages are copied.
RedriveNowCopies(src, dest) ==
    /\ src \in live \cap RedriveSources
    /\ DlqSources(src) # {}
    /\ dest \in live \ {src}
    /\ queues' = [queues EXCEPT ![dest] = Arrive(@, Restart(queues[src].messages))]
    /\ UNCHANGED <<now, live, sent, minted, gone, accepted>>

\* StartMessageMoveTask without a rate: everything in `messages` of a
\* dead-letter queue moves at once, to the given destination or round-robin to
\* the queues it is the dead-letter queue of.  In-flight messages stay.
Redriven(m) == [m EXCEPT !.visible_at = None, !.receive_count = 0]

RedriveNow(src, dest) ==
    LET order == [q \in DlqSources(src) |-> UrlOrder[q]]
        count == Cardinality(DlqSources(src))
        Target(i) == IF dest # NoQueue THEN dest ELSE Nth(order, ((i - 1) % count) + 1)
        waiting == queues[src].messages
        Share(q) == Keep(waiting, {i \in DOMAIN waiting : Target(i) = q})
        Moved(q) == [i \in DOMAIN Share(q) |-> Redriven(Share(q)[i])]
        queues1 == [queues EXCEPT ![src] = [@ EXCEPT !.messages = <<>>]]
    IN  /\ src \in live \cap RedriveSources
        /\ DlqSources(src) # {}
        /\ dest \in live \cup {NoQueue}
        /\ queues' = [q \in Queues |-> Arrive(queues1[q], Moved(q))]
        /\ UNCHANGED <<now, live, sent, minted, gone, accepted>>

-----------------------------------------------------------------------------
Send(q) ==
    \E e \in Entries :
        \/ SendMessage(q, e) \/ SendDuplicate(q, e) \/ SendEncryptFails(q, e)
        \/ \E e2 \in Entries : SendMessageBatch(q, e, e2)

Receive(q) ==
    \E max \in BatchSizes, a \in Attempts \cup {NoAttempt} :
        \/ \E vt \in Timeouts : ReceiveMessage(q, max, vt, a)
        \/ ReceiveDecryptFails(q, max, a)
        \/ ReplayReceive(q, a)

UseHandle(q) ==
    \/ \E i \in MsgIds : \/ DeleteMessage(q, i)
                          \/ \E t \in NewTimeouts : ChangeMessageVisibility(q, i, t)
    \/ \E i, j \in MsgIds :
          /\ i < j
          /\ \/ DeleteMessageBatch(q, {i, j})
             \/ \E t \in NewTimeouts : ChangeMessageVisibilityBatch(q, {i, j}, t)

Manage(q) ==
    \/ DeleteQueue(q) \/ PurgeQueue(q)
    \/ \E target \in Queues \cup {NoQueue} : CreateQueue(q, target) \/ SetRedrivePolicy(q, target)

Next ==
    \/ Tick
    \/ TickExpiration
    \/ \E q \in Queues :
          \/ Send(q) \/ UseHandle(q) \/ Manage(q)
          \/ q \in ReceivedQueues /\ Receive(q)
          \/ \E g \in Groups \cup {NoGroup} : Deliver(q, g)
          \/ DeliverEncryptFails(q)
          \/ ForceDlq(q)
          \/ \E dest \in Queues \cup {NoQueue} : RedriveNow(q, dest)

Spec == Init /\ [][Next]_vars

-----------------------------------------------------------------------------
(* Properties. *)

\* The values of the variables: the fields of SqsQueue and SqsMessage.
TypeOK ==
    /\ now \in Nat
    /\ live \subseteq Queues
    /\ queues \in [Queues -> Queue]
    /\ sent \in 0..MaxMessages
    /\ minted \in [MsgIds -> Nat]
    /\ gone \subseteq MsgIds
    /\ accepted \subseteq
          [queue : Queues, key : Keys, at : Nat, id : MsgIds, seq : Nat]

\* How many times message i is in the queues.
Copies(i) ==
    LET At(s) == {k \in DOMAIN s : s[k].id = i}
    IN  UNION {({q} \X {"messages"} \X At(queues[q].messages))
                  \cup ({q} \X {"inflight"} \X At(queues[q].inflight)) : q \in Queues}

\* A message is never in two places: not waiting and in flight, not in a queue
\* and its dead-letter queue, not twice in one; and a deleted message does not
\* come back, whatever receives, expirations and moves ran in between.
NeverTwice ==
    \A i \in MsgIds : Cardinality(Copies(i)) <= (IF i \in gone THEN 0 ELSE 1)

\* An accepted message stays in some queue until it is deleted, purged, expired
\* or goes down with its queue: receives, lapsed windows, dead-lettering (to
\* a missing queue too), failed receives and moves never lose it.
NothingLost == \A i \in (1..sent) \ gone : Copies(i) # {}

\* The receipt handles that act on a message a queue holds are those of its
\* current delivery: exactly one while it is in flight, none while it waits.
\* The handle of a lapsed delivery must not delete the redelivered message.
OnlyCurrentHandle ==
    \A q \in live :
        LET Q == queues[q]
        IN  /\ \A k \in DOMAIN Q.messages :
                   Q.messages[k].id \notin Reachable(Q)
            /\ \A k \in DOMAIN Q.inflight :
                   {n \in 1..minted[Q.inflight[k].id] : Resolves(Q, Q.inflight[k].id, n)}
                       = {Q.inflight[k].receipt_handle}

\* Message m has just been handed out by q.
JustHanded(q, m) ==
    \A k \in DOMAIN queues[q].inflight :
        queues[q].inflight[k].id # m.id
            \/ queues[q].inflight[k].receipt_handle # m.receipt_handle

\* Message i was sent to q with SendMessage (not moved there from elsewhere).
SentTo(q, i) == \E s \in accepted : s.queue = q /\ s.id = i

\* FIFO delivery: when a message is handed out, no earlier message of its group
\* that was sent to the same queue is left waiting there, and no message of its
\* group is still with the consumer of an earlier receive.
FifoDelivery ==
    [][\A q \in FifoQueues :
         LET Q == queues'[q]
         IN  \A k \in DOMAIN Q.inflight :
                LET m == Q.inflight[k]
                IN  (JustHanded(q, m) /\ m.group # NoGroup) =>
                      /\ \A j \in DOMAIN Q.messages :
                            (/\ Q.messages[j].group = m.group
                             /\ SentTo(q, m.id) /\ SentTo(q, Q.messages[j].id))
                                => Q.messages[j].seq > m.seq
                      /\ \A j \in DOMAIN Q.inflight :
                            Q.inflight[j].group = m.group => JustHanded(q, Q.inflight[j])]_vars

\* A message that arrives in a queue starts a fresh receive history there; with
\* the count of its old queue it would be dead-lettered again at once.
FreshHistory ==
    [][\A q \in Queues :
         \A k \in DOMAIN queues'[q].messages :
            LET m == queues'[q].messages[k]
            IN  m.id \in Ids(queues[q].messages) \cup Ids(queues[q].inflight)
                    \/ m.receive_count = 0]_vars

\* A message sent to a FIFO queue with a redrive policy is delivered there no
\* more than maxReceiveCount times, and is in the dead-letter queue only after as
\* many deliveries, however often its windows lapsed in between.
DeadLetterOnTime ==
    \A s \in accepted :
        LET Q == queues[s.queue]
        IN  Q.redrive # NoQueue =>
              /\ s.id \in Ids(Q.messages) \cup Ids(Q.inflight)
                     => minted[s.id] <= MaxReceiveCount
              /\ s.id \in Ids(queues[Q.redrive].messages) \cup Ids(queues[Q.redrive].inflight)
                     => minted[s.id] >= MaxReceiveCount

\* A retried receive can only be answered with the deliveries its first try
\* made: a message that was redelivered since is another consumer's.
ReplayIsSameDelivery ==
    \A q \in FifoQueues \cap live, a \in Attempts :
        LET Q == queues[q]
            e == Q.receive_attempt_cache[a]
        IN  e.expiry > now =>
              \A k \in DOMAIN Q.inflight :
                 Q.inflight[k].id \in e.ids =>
                    Q.inflight[k].receipt_handle = e.handle[Q.inflight[k].id]

\* Two messages accepted by SendMessage under one deduplication key are at least
\* the deduplication window apart, however the queue's messages fared meanwhile.
DedupOnce ==
    \A s, t \in accepted :
        (s # t /\ s.queue = t.queue /\ s.key = t.key)
            => (s.at - t.at >= DedupWindow \/ t.at - s.at >= DedupWindow)
=============================================================================
