-------------------------- MODULE SqsQueueContract --------------------------
(***************************************************************************)
(* The queues of SqsQueue keep the promises of MessageLease: the lists of   *)
(* waiting and in-flight messages, the handle map and the caches implement  *)
(* one state per message.                                                   *)
(***************************************************************************)
EXTENDS SqsQueue

\* The state of message i as the queues hold it.  A message that is in no queue
\* or in several, or that came back, has a status the contract does not know.
StoredState(i) ==
    LET Of(s) == {k \in DOMAIN s : s[k].id = i}
        copies == UNION {{<<q, "waiting", queues[q].messages[k], k>> : k \in Of(queues[q].messages)}
                            \cup {<<q, "leased", queues[q].inflight[k], k>> : k \in Of(queues[q].inflight)}
                            : q \in live}
        copy == CHOOSE c \in copies : TRUE
        held == copy[3]
        absent == [status |-> "broken", queue |-> NoQueue, until |-> 0,
                   leases |-> minted[i], created |-> 0]
    IN  IF i > sent THEN [absent EXCEPT !.status = "unsent"]
        ELSE IF copies = {} /\ i \in gone THEN [absent EXCEPT !.status = "ended"]
        ELSE IF Cardinality(copies) = 1 /\ i \notin gone
        THEN [status |-> copy[2], queue |-> copy[1],
              until |-> IF held.visible_at = None THEN 0 ELSE held.visible_at,
              leases |-> minted[i], created |-> held.created]
        ELSE absent

Contract ==
    INSTANCE MessageLease
        WITH Messages <- MsgIds, Nowhere <- NoQueue, clock <- now,
             store <- [i \in MsgIds |-> StoredState(i)]

\* Every call does to each message what the contract allows: an accepted message
\* is in one place until it ends and never comes back, it is handed out only
\* when its delay or the window of its last delivery is over, it is
\* dead-lettered only after maxReceiveCount deliveries, and only the consumer
\* that holds it or an operator takes it out of a queue.
KeepsContract == Contract!Spec
=============================================================================
