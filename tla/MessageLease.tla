---------------------------- MODULE MessageLease ----------------------------
(***************************************************************************)
(* What a set of queues promises about each message, whatever the order of  *)
(* the queue, its caches and its handle maps: a message that was accepted   *)
(* is in one queue until it ends, it is leased to one consumer at a time,   *)
(* it is leased again only when its time has come, and only its consumer    *)
(* or an operator takes it away.  One step may change several messages,     *)
(* since one call does.                                                     *)
(***************************************************************************)
EXTENDS Integers

CONSTANTS
    Messages,
    Queues,
    Nowhere,          \* the queue of a message that is in none, not in Queues
    Retention,        \* how long a message is kept
    MaxReceiveCount   \* leases before a message may be dead-lettered

VARIABLES
    clock,
    store   \* what is known of each message

Stored ==
    [status : {"unsent", "waiting", "leased", "ended"}, queue : Queues \cup {Nowhere},
     until : Nat,      \* it is not leased (again) before this time
     leases : Nat,     \* how often it was leased
     created : Nat]

Unsent ==
    [status |-> "unsent", queue |-> Nowhere, until |-> 0, leases |-> 0, created |-> 0]

Init == clock = 0 /\ store = [m \in Messages |-> Unsent]

\* The state of a message after it was deleted, purged, expired or destroyed.
Ended(s) == [Unsent EXCEPT !.status = "ended", !.leases = s.leases]

\* s, with a status, in queue q, free to be leased from time t on.
Placed(s, status, q, t) == [s EXCEPT !.status = status, !.queue = q, !.until = t]

-----------------------------------------------------------------------------
(* What may become of one message: s is its state before, t its state after. *)

IsAccepted(s, t, q) ==
    /\ s.status = "unsent"
    /\ t.until >= 0
    /\ t = [Placed(s, "waiting", q, t.until) EXCEPT !.created = clock]

\* Leased to a consumer: never before its time, and never while the lease of
\* another consumer runs.
IsLeased(s, t) ==
    /\ s.until <= clock
    /\ t.until >= clock
    /\ t = [Placed(s, "leased", s.queue, t.until) EXCEPT !.leases = @ + 1]

\* A lease that ran out, or a delay.
IsFreed(s, t) == s.until <= clock /\ t = Placed(s, "waiting", s.queue, 0)

\* Its time has come once too often.
IsDeadLettered(s, t) ==
    /\ s.until <= clock
    /\ s.leases >= MaxReceiveCount
    /\ t.queue \in Queues
    /\ t = Placed(s, "waiting", t.queue, 0)

IsExpired(s, t) == clock - s.created >= Retention /\ t = Ended(s)

\* Every message of queue q changes as Change says or not at all; the messages
\* elsewhere do not change.
OnlyIn(q, Change(_, _)) ==
    /\ clock' = clock
    /\ \A m \in Messages :
          LET s == store[m]
              t == store'[m]
          IN  (s.queue = q /\ Change(s, t)) \/ s = t

-----------------------------------------------------------------------------
Accept(q) ==
    /\ clock' = clock
    /\ \A m \in Messages :
          LET s == store[m]
              t == store'[m]
          IN  s = t \/ IsAccepted(s, t, q)

\* One receive: it expires, frees, leases and dead-letters messages of q.
Serve(q) ==
    OnlyIn(q, LAMBDA s, t : IsExpired(s, t) \/ IsFreed(s, t) \/ IsLeased(s, t)
                                \/ IsDeadLettered(s, t))

\* A consumer deletes what is leased to it, or changes how long the lease runs.
Finish(q) == OnlyIn(q, LAMBDA s, t : s.status = "leased" /\ t = Ended(s))

Extend(q) ==
    OnlyIn(q, LAMBDA s, t : /\ s.status = "leased" /\ t.until >= clock
                            /\ t = [s EXCEPT !.until = t.until])

\* An operator empties q or deletes it: everything it holds ends.
Empty(q) ==
    /\ \A m \in Messages :
          store'[m] = IF store[m].queue = q THEN Ended(store[m]) ELSE store[m]
    /\ clock' = clock

\* An operator moves everything that waits in q to other queues; what is leased
\* stays with its consumers.
Redrive(q) ==
    /\ \A m \in Messages :
          IF store[m].queue = q /\ store[m].status = "waiting"
          THEN /\ store'[m].queue \in Queues
               /\ store'[m] = Placed(store[m], "waiting", store'[m].queue, 0)
          ELSE store'[m] = store[m]
    /\ clock' = clock

\* An operator dead-letters what was leased too often, its lease running or not.
ForceDeadLetter(q) ==
    OnlyIn(q, LAMBDA s, t : /\ s.leases >= MaxReceiveCount
                            /\ t.queue \in Queues \ {q}
                            /\ t = Placed(s, "waiting", t.queue, 0))

\* The retention period of every queue.
Expire ==
    /\ \A m \in Messages :
          \/ store'[m] = store[m]
          \/ store[m].queue \in Queues /\ IsExpired(store[m], store'[m])
    /\ clock' = clock

Pass == clock' = clock + 1 /\ store' = store

Next ==
    \/ Pass
    \/ \E q \in Queues : Accept(q) \/ Serve(q)
    \/ \E q \in Queues : Finish(q) \/ Extend(q) \/ Empty(q) \/ Redrive(q) \/ ForceDeadLetter(q)
    \/ Expire

Spec == Init /\ [][Next]_<<clock, store>>
=============================================================================
