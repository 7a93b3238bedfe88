----------------------- MODULE SqsQueueDeliveryProofs -----------------------
(***************************************************************************)
(* Proofs about the queues (SqsQueue): what happens to a message from its   *)
(* arrival to its last delivery.                                            *)
(*                                                                          *)
(* One lemma about every step (StepEvolves) says where each message that    *)
(* waits or is in flight after the step was before it, and what becomes of  *)
(* its receipt handles.  The invariants on receipt handles, on retried      *)
(* receives and on dead-lettering are then shown from that lemma, without   *)
(* looking at the actions again.  Last, action by action, that the queues   *)
(* keep the contract MessageLease states (SqsQueueContract).                *)
(***************************************************************************)
EXTENDS SqsQueueProofs, SqsQueueContract

-----------------------------------------------------------------------------
(* What a step does to the messages of a queue. *)

\* The messages of q that a receive may take: the waiting ones, and those whose
\* window has lapsed.
Ready(q) == Waiting(queues[q]) \cup {Unleased(m) : m \in Flying(queues[q]) \cap Late}

\* Where a message that waits in q after a step comes from: it was there; its
\* visibility was changed; a failed receive put it back; it is new; it was
\* dead-lettered, redriven or forced here.
WaitingFrom(q, m) ==
    \/ m \in Ready(q)
    \/ \E w \in Waiting(queues[q]), x \in Nat :
          m = VisibleAt(w, x) /\ w.id \in Reachable(queues[q]) /\ NewTimeouts # {}
    \/ \E w \in Ready(q) : m = Unleased(w) /\ IsVisible(w)
    \/ m.id \in (sent + 1)..sent' /\ m.receipt_handle = None /\ m.receive_count = 0
    \/ \E p \in live : \E w \in Ready(p) :
          /\ m = Restarted(w) /\ Exhausted(queues[p], w)
          /\ q = IF queues[p].redrive \in live THEN queues[p].redrive ELSE p
    \/ \E p \in RedriveSources : \E w \in Waiting(queues[p]) : m = Redriven(w)
    \/ \E p \in ForcedQueues : \E w \in Waiting(queues[p]) \cup Flying(queues[p]) :
          m = Unleased(w) /\ w \in Full /\ q = queues[p].redrive /\ q \in live

\* Where a message that is in flight in q after a step comes from: it was, with
\* the same handle, or it has just been handed out.
FlyingFrom(q, P, m) ==
    \/ /\ \/ m \in Flying(queues[q])
          \/ \E f \in Flying(queues[q]), x \in Nat : m = VisibleAt(f, x) /\ NewTimeouts # {}
       /\ P.receipt_handle_map[m.id] = queues[q].receipt_handle_map[m.id]
       /\ minted'[m.id] = minted[m.id]
    \/ \E w \in Ready(q), vt \in Nat :
          /\ m = HandOut(w, vt) /\ IsVisible(w) /\ ~Exhausted(queues[q], w)
          /\ \/ P.receipt_handle_map[m.id] = {minted[m.id] + 1}
             \/ /\ P.receipt_handle_map[m.id] = queues[q].receipt_handle_map[m.id] \cup {minted[m.id] + 1}
                /\ w \in Waiting(queues[q])
          /\ minted'[m.id] = minted[m.id] + 1

\* A message in flight stays in flight until it is gone or its window lapses,
\* but for a change of its visibility and forced dead-lettering.
FlyingStays(q, P, m) ==
    \/ m.id \in gone'
    \/ m \in Flying(P)
    \/ m \in Late
    \/ NewTimeouts # {}
    \/ /\ q \in ForcedQueues /\ queues[q].redrive \in live
       /\ queues[q].redrive = q \/ m.id \notin Holds(P)

\* A message hidden in the queue stays there as it is.
WaitingStays(q, P, m) ==
    \/ m.id \in gone'
    \/ m \in Waiting(P)
    \/ IsVisible(m)
    \/ m.id \in Reachable(queues[q])
    \/ q \in ForcedQueues \cup RedriveSources

\* The handles of a message that is not in flight.
HandlesStay(q, P, i) ==
    \/ P.receipt_handle_map[i] = {}
    \/ i \in gone'
    \/ i \in Ids(P.inflight)
    \/ /\ P.receipt_handle_map[i] = queues[q].receipt_handle_map[i]
       /\ i \notin Ids(queues[q].inflight)
    \/ /\ q \in ForcedQueues /\ queues[q].redrive \in live /\ i \in Ids(queues[q].inflight)
       /\ queues[q].redrive = q \/ i \notin Holds(P)

\* A receive attempt is remembered as it was, or its messages are the ones just
\* handed out.
AttemptStays(q, P, a) ==
    LET e == P.receive_attempt_cache[a]
    IN  \/ e = queues[q].receive_attempt_cache[a]
        \/ e.expiry <= now
        \/ \A i \in e.ids : \E m \in Flying(P) :
              m.id = i /\ m.visible_at = e.expiry /\ m.receipt_handle = e.handle[i]

\* Queue q becomes P in a step.
EvolvesTo(q, P) ==
    /\ \A m \in Waiting(P) : WaitingFrom(q, m) /\ minted'[m.id] = minted[m.id]
    /\ \A m \in Flying(P) : FlyingFrom(q, P, m)
    /\ \A m \in Flying(queues[q]) : FlyingStays(q, P, m)
    /\ \A m \in Waiting(queues[q]) : WaitingStays(q, P, m)
    /\ \A i \in MsgIds : HandlesStay(q, P, i)
    /\ \A a \in Attempts : AttemptStays(q, P, a)

\* Every queue.
Evolves == \A q \in Queues : EvolvesTo(q, queues'[q])

\* A queue whose lists and handles are left alone.
LEMMA SameEvolves ==
    ASSUME TypeOK, NEW q \in Queues, NEW P \in Queue, SameLists(P, queues[q]),
           P.receipt_handle_map = queues[q].receipt_handle_map,
           \A a \in Attempts : \/ P.receive_attempt_cache[a] = queues[q].receive_attempt_cache[a]
                               \/ P.receive_attempt_cache[a].expiry <= now,
           \A i \in Holds(queues[q]) : minted'[i] = minted[i]
    PROVE  EvolvesTo(q, P)
<1>1. Waiting(P) = Waiting(queues[q]) /\ Flying(P) = Flying(queues[q]) /\ P.inflight = queues[q].inflight
  BY DEF SameLists, Waiting, Flying
<1>2. \A m \in Waiting(queues[q]) \cup Flying(queues[q]) : m.id \in Holds(queues[q])
  BY IdsElems DEF Holds, Waiting, Flying
<1>3. \A m \in Waiting(P) : WaitingFrom(q, m) /\ minted'[m.id] = minted[m.id]
  BY <1>1, <1>2 DEF WaitingFrom, Ready
<1>4. \A m \in Flying(P) : FlyingFrom(q, P, m)
  BY <1>1, <1>2 DEF FlyingFrom
<1>5. \A m \in Flying(queues[q]) : FlyingStays(q, P, m)
  BY <1>1 DEF FlyingStays
<1>6. \A m \in Waiting(queues[q]) : WaitingStays(q, P, m)
  BY <1>1 DEF WaitingStays
<1>7. \A i \in MsgIds : HandlesStay(q, P, i)
  BY <1>1 DEF HandlesStay
<1>8. \A a \in Attempts : AttemptStays(q, P, a)
  BY DEF AttemptStays
<1> QED BY <1>3, <1>4, <1>5, <1>6, <1>7, <1>8 DEF EvolvesTo

\* Messages that arrive.
LEMMA ArriveEvolves ==
    ASSUME NEW q \in Queues, NEW P \in Queue, EvolvesTo(q, P), NEW s \in Seq(Message),
           \A m \in Elems(s) : WaitingFrom(q, m) /\ minted'[m.id] = minted[m.id],
           \A m \in Flying(queues[q]) : m.id \in Ids(s) => FlyingStays(q, P, m) /\
                  (m.id \in gone' \/ m \in Flying(P) \/ m \in Late \/ NewTimeouts # {}
                     \/ (q \in ForcedQueues \cap live /\ queues[q].redrive = q)),
           \A i \in Ids(s) \cap Ids(queues[q].inflight) :
                  \/ P.receipt_handle_map[i] = {} \/ i \in gone' \/ i \in Ids(P.inflight)
                  \/ queues[q].redrive = q
    PROVE  EvolvesTo(q, Arrive(P, s))
<1> DEFINE R == Arrive(P, s)
<1>1. /\ R.inflight = P.inflight /\ Flying(R) = Flying(P) /\ Waiting(R) = Waiting(P) \cup Elems(s)
      /\ Holds(R) = Holds(P) \cup Ids(s)
      /\ R.receipt_handle_map = P.receipt_handle_map
      /\ R.receive_attempt_cache = P.receive_attempt_cache
  BY ArriveFields DEF SameHandles
<1> HIDE DEF R
<1>3. \A m \in Waiting(R) : WaitingFrom(q, m) /\ minted'[m.id] = minted[m.id]
  BY <1>1 DEF EvolvesTo
<1>4. \A m \in Flying(R) : FlyingFrom(q, R, m)
  BY <1>1 DEF FlyingFrom, EvolvesTo
<1>5. \A m \in Flying(queues[q]) : FlyingStays(q, R, m)
  BY <1>1 DEF FlyingStays, EvolvesTo
<1>6. \A m \in Waiting(queues[q]) : WaitingStays(q, R, m)
  BY <1>1 DEF WaitingStays, EvolvesTo
<1>7. \A i \in MsgIds : HandlesStay(q, R, i)
  BY <1>1 DEF HandlesStay, EvolvesTo
<1>8. \A a \in Attempts : AttemptStays(q, R, a)
  BY <1>1 DEF AttemptStays, EvolvesTo
<1>9. EvolvesTo(q, R)
  BY <1>3, <1>4, <1>5, <1>6, <1>7, <1>8 DEF EvolvesTo
<1> QED BY <1>9 DEF R

\* A queue that loses messages, which are gone.
LEMMA LossEvolves ==
    ASSUME TypeOK, NEW q \in Queues, NEW P \in Queue,
           Waiting(P) \subseteq Waiting(queues[q]), Flying(P) \subseteq Flying(queues[q]),
           \A m \in Waiting(queues[q]) : m \in Waiting(P) \/ m.id \in gone',
           \A m \in Flying(queues[q]) : m \in Flying(P) \/ m.id \in gone',
           \/ P.receipt_handle_map = queues[q].receipt_handle_map
           \/ (\A i \in MsgIds : P.receipt_handle_map[i] = {}) /\ Flying(P) = {},
           \A a \in Attempts : \/ P.receive_attempt_cache[a] = queues[q].receive_attempt_cache[a]
                               \/ P.receive_attempt_cache[a].expiry <= now,
           \A i \in Holds(queues[q]) : minted'[i] = minted[i]
    PROVE  EvolvesTo(q, P)
<1>2. \A m \in Waiting(queues[q]) \cup Flying(queues[q]) : m.id \in Holds(queues[q])
  BY IdsElems DEF Holds, Waiting, Flying
<1>2a. /\ Ids(P.inflight) = {m.id : m \in Flying(P)}
       /\ Ids(queues[q].inflight) = {m.id : m \in Flying(queues[q])}
  BY IdsElems DEF Flying
<1>3. \A m \in Waiting(P) : WaitingFrom(q, m) /\ minted'[m.id] = minted[m.id]
  BY <1>2 DEF WaitingFrom, Ready
<1>4. \A m \in Flying(P) : FlyingFrom(q, P, m)
  BY <1>2 DEF FlyingFrom
<1>5. \A m \in Flying(queues[q]) : FlyingStays(q, P, m)
  BY DEF FlyingStays
<1>6. \A m \in Waiting(queues[q]) : WaitingStays(q, P, m)
  BY DEF WaitingStays
<1>7. \A i \in MsgIds : HandlesStay(q, P, i)
  BY <1>2a DEF HandlesStay
<1>8. \A a \in Attempts : AttemptStays(q, P, a)
  BY DEF AttemptStays
<1> QED BY <1>3, <1>4, <1>5, <1>6, <1>7, <1>8 DEF EvolvesTo

\* What the queue a receive selects from has of the messages of q: a message
\* whose window has lapsed waits without a handle, the others are as they were.
LEMMA RefreshedOrigins ==
    ASSUME TypeOK, NEW q \in Queues, Tidy(queues[q])
    PROVE  LET Q == queues[q]
               R == Refreshed(q)
               lost == ExpiredIds(queues[q])
           IN
           /\ R \in Queue /\ Tidy(R) /\ R.redrive = Q.redrive
           /\ Holds(R) = Holds(Q) \ lost
           /\ Waiting(R) \subseteq Ready(q)
           /\ \A m \in Waiting(R) : \/ R.receipt_handle_map[m.id] = {}
                                    \/ /\ m \in Waiting(Q)
                                       /\ R.receipt_handle_map[m.id] = Q.receipt_handle_map[m.id]
           /\ \A m \in Flying(R) : /\ m \in Flying(Q) /\ m \notin Late
                                   /\ R.receipt_handle_map[m.id] = Q.receipt_handle_map[m.id]
           /\ \A m \in Flying(Q) : m.id \in lost \/ m \in Late \/ m \in Flying(R)
           /\ \A m \in Waiting(Q) : m.id \in lost \/ m \in Waiting(R)
           /\ \A i \in MsgIds : \/ R.receipt_handle_map[i] = {}
                                \/ i \in lost
                                \/ i \in Ids(R.inflight)
                                \/ /\ R.receipt_handle_map[i] = Q.receipt_handle_map[i]
                                   /\ i \notin Ids(Q.inflight)
           /\ \A a \in Attempts : \/ R.receive_attempt_cache[a] = Q.receive_attempt_cache[a]
                                  \/ R.receive_attempt_cache[a].expiry <= now
<1> DEFINE Q == queues[q]
           R == Refreshed(q)
           lost == ExpiredIds(queues[q])
           late == Flying(Q) \cap Fresh \cap Late
<1> SUFFICES
           /\ R \in Queue /\ Tidy(R) /\ R.redrive = Q.redrive
           /\ Holds(R) = Holds(Q) \ lost
           /\ Waiting(R) \subseteq Ready(q)
           /\ \A m \in Waiting(R) : \/ R.receipt_handle_map[m.id] = {}
                                    \/ /\ m \in Waiting(Q)
                                       /\ R.receipt_handle_map[m.id] = Q.receipt_handle_map[m.id]
           /\ \A m \in Flying(R) : /\ m \in Flying(Q) /\ m \notin Late
                                   /\ R.receipt_handle_map[m.id] = Q.receipt_handle_map[m.id]
           /\ \A m \in Flying(Q) : m.id \in lost \/ m \in Late \/ m \in Flying(R)
           /\ \A m \in Waiting(Q) : m.id \in lost \/ m \in Waiting(R)
           /\ \A i \in MsgIds : \/ R.receipt_handle_map[i] = {}
                                \/ i \in lost
                                \/ i \in Ids(R.inflight)
                                \/ /\ R.receipt_handle_map[i] = Q.receipt_handle_map[i]
                                   /\ i \notin Ids(Q.inflight)
           /\ \A a \in Attempts : \/ R.receive_attempt_cache[a] = Q.receive_attempt_cache[a]
                                  \/ R.receive_attempt_cache[a].expiry <= now
  OBVIOUS
<1>1. queues \in [Queues -> Queue] /\ Q \in Queue /\ now \in Nat
  BY DEF TypeOK
<1>2. /\ R \in Queue /\ R.redrive = Q.redrive
      /\ \A a \in Attempts : R.receive_attempt_cache[a] =
            IF q \notin FifoQueues \/ Q.receive_attempt_cache[a].expiry > now
            THEN Q.receive_attempt_cache[a] ELSE NoReceive
      /\ Waiting(R) = (Waiting(Q) \cap Fresh) \cup {Unleased(m) : m \in late}
      /\ Flying(R) = (Flying(Q) \cap Fresh) \ Late
      /\ \A i \in MsgIds : R.receipt_handle_map[i] =
            IF \E m \in late : m.id = i THEN {} ELSE Q.receipt_handle_map[i]
      /\ Tidy(R) /\ Holds(R) = Holds(Q) \ lost
  BY <1>1, RefreshedFields
<1>3. /\ Waiting(Q) \subseteq Message /\ Flying(Q) \subseteq Message
      /\ Ids(Q.inflight) = {m.id : m \in Flying(Q)} /\ Ids(Q.messages) = {m.id : m \in Waiting(Q)}
      /\ Ids(R.inflight) = {m.id : m \in Flying(R)} /\ Ids(R.messages) = {m.id : m \in Waiting(R)}
  BY <1>1, <1>2, QueueFields, IdsElems DEF Waiting, Flying
<1>4. \A m \in Message : m.id \in MsgIds /\ Unleased(m).id = m.id
  BY UnleasedFields DEF Message, Same
<1>5. /\ \A m, n \in Flying(Q) : m.id = n.id => m = n
      /\ \A m, n \in Waiting(Q) : m.id = n.id => m = n
      /\ \A m \in Flying(Q), n \in Waiting(Q) : m.id # n.id
  BY <1>3, DistinctElems DEF Tidy, Waiting, Flying
<1>6. NoReceive.expiry <= now
  BY <1>1 DEF NoReceive
<1>7. /\ \A m \in Waiting(Q) \cup Flying(Q) : m.id \in Holds(Q)
      /\ \A i \in Holds(R) : \E m \in Waiting(R) \cup Flying(R) : m.id = i
  BY <1>3 DEF Holds
<1>8. Waiting(R) \subseteq Ready(q)
  BY <1>2 DEF Ready
<1>9. \A m \in Waiting(R) : \/ \E f \in late : f.id = m.id
                            \/ m \in Waiting(Q) /\ m.id \in MsgIds /\ ~ \E f \in late : f.id = m.id
  BY <1>2, <1>3, <1>4, <1>5
<1>10. \A m \in Flying(R) : m \in Flying(Q) /\ m \notin Late /\ m.id \in MsgIds /\ ~ \E f \in late : f.id = m.id
  BY <1>2, <1>3, <1>4, <1>5
<1>11. \A f \in late : f.id \in MsgIds
  BY <1>3, <1>4
<1>12. ASSUME NEW m \in Flying(Q) PROVE m.id \in lost \/ m \in Late \/ m \in Flying(R)
  <2> SUFFICES ASSUME m.id \notin lost, m \notin Late PROVE m \in Flying(R)
    OBVIOUS
  <2>1. PICK n \in Waiting(R) \cup Flying(R) : n.id = m.id
    BY <1>2, <1>7
  <2>2. n \in Flying(R)
    BY <1>5, <1>9, <2>1
  <2> QED BY <1>5, <1>10, <2>1, <2>2
<1>13. ASSUME NEW m \in Waiting(Q) PROVE m.id \in lost \/ m \in Waiting(R)
  <2> SUFFICES ASSUME m.id \notin lost PROVE m \in Waiting(R)
    OBVIOUS
  <2>1. PICK n \in Waiting(R) \cup Flying(R) : n.id = m.id
    BY <1>2, <1>7
  <2>2. n \in Waiting(R) /\ ~ \E f \in late : f.id = m.id
    BY <1>2, <1>4, <1>5, <2>1
  <2> QED BY <1>5, <1>9, <2>1, <2>2
<1>14. \A m \in Waiting(R) : \/ R.receipt_handle_map[m.id] = {}
                             \/ /\ m \in Waiting(Q)
                                /\ R.receipt_handle_map[m.id] = Q.receipt_handle_map[m.id]
  BY <1>2, <1>9, <1>11
<1>15. \A m \in Flying(R) : R.receipt_handle_map[m.id] = Q.receipt_handle_map[m.id]
  BY <1>2, <1>10
<1>16. ASSUME NEW i \in MsgIds
       PROVE  \/ R.receipt_handle_map[i] = {} \/ i \in lost \/ i \in Ids(R.inflight)
              \/ R.receipt_handle_map[i] = Q.receipt_handle_map[i] /\ i \notin Ids(Q.inflight)
  <2> SUFFICES ASSUME i \notin lost, ~ \E f \in late : f.id = i, i \in Ids(Q.inflight)
               PROVE  i \in Ids(R.inflight)
    BY <1>2
  <2>1. PICK m \in Flying(Q) : m.id = i
    BY <1>3
  <2>2. PICK n \in Waiting(R) \cup Flying(R) : n.id = i
    BY <1>2, <1>7, <2>1
  <2>3. n \in Flying(R)
    BY <1>9, <1>5, <2>1, <2>2
  <2> QED BY <1>3, <2>2, <2>3
<1> QED BY <1>2, <1>6, <1>8, <1>10, <1>12, <1>13, <1>14, <1>15, <1>16

\* The queue a receive leaves behind, before the exhausted messages arrive.
LEMMA HandedOutEvolves ==
    ASSUME TypeOK, NEW q \in Queues, Tidy(queues[q]), NEW max \in Nat, NEW vt \in Nat, NEW a,
           minted' = [i \in MsgIds |-> IF i \in Ids(Received(q, Refreshed(q), max))
                                       THEN minted[i] + 1 ELSE minted[i]],
           ExpiredIds(queues[q]) \subseteq gone'
    PROVE  EvolvesTo(q, HandedOut(q, Refreshed(q), max, vt, a))
<1> DEFINE Q == queues[q]
           R == Refreshed(q)
           P == HandedOut(q, R, max, vt, a)
           r == Received(q, R, max)
           d == Dead(q, R, max)
           s == Remaining(q, R, max)
           lost == ExpiredIds(queues[q])
<1> SUFFICES EvolvesTo(q, P)
  OBVIOUS
<1>1. /\ queues \in [Queues -> Queue] /\ Q \in Queue /\ now \in Nat /\ minted \in [MsgIds -> Nat]
      /\ minted' = [i \in MsgIds |-> IF i \in Ids(r) THEN minted[i] + 1 ELSE minted[i]]
      /\ lost \subseteq gone'
  BY DEF TypeOK
<1>2. /\ R \in Queue /\ Tidy(R) /\ R.redrive = Q.redrive
      /\ Waiting(R) \subseteq Ready(q)
      /\ \A m \in Waiting(R) : \/ R.receipt_handle_map[m.id] = {}
                               \/ /\ m \in Waiting(Q)
                                  /\ R.receipt_handle_map[m.id] = Q.receipt_handle_map[m.id]
      /\ \A m \in Flying(R) : /\ m \in Flying(Q) /\ m \notin Late
                              /\ R.receipt_handle_map[m.id] = Q.receipt_handle_map[m.id]
      /\ \A m \in Flying(Q) : m.id \in lost \/ m \in Late \/ m \in Flying(R)
      /\ \A m \in Waiting(Q) : m.id \in lost \/ m \in Waiting(R)
      /\ \A i \in MsgIds : \/ R.receipt_handle_map[i] = {}
                           \/ i \in lost
                           \/ i \in Ids(R.inflight)
                           \/ /\ R.receipt_handle_map[i] = Q.receipt_handle_map[i]
                              /\ i \notin Ids(Q.inflight)
      /\ \A b \in Attempts : \/ R.receive_attempt_cache[b] = Q.receive_attempt_cache[b]
                             \/ R.receive_attempt_cache[b].expiry <= now
  BY RefreshedOrigins
<1> HIDE DEF R, lost
<1>3. /\ r \in Seq(Message) /\ d \in Seq(Message) /\ s \in Seq(Message)
      /\ Elems(r) \subseteq Ripe(R) /\ Elems(d) \subseteq Ripe(R)
      /\ \A m \in Elems(r) : ~Exhausted(R, m)
      /\ Elems(r) \cup Elems(d) \cup Elems(s) = Waiting(R)
      /\ Ids(r) \cap Ids(d) = {} /\ Ids(r) \cap Ids(s) = {}
  <2>1. Distinct(R.messages)
    BY <1>2 DEF Tidy
  <2> QED BY <1>2, <2>1, Selection
<1>4. /\ P \in Queue
      /\ Waiting(P) = Elems(s)
      /\ Flying(P) = Flying(R) \cup {HandOut(m, vt) : m \in Elems(r)}
      /\ \A i \in Ids(r) : P.receipt_handle_map[i] = R.receipt_handle_map[i] \cup {minted[i] + 1}
      /\ \A i \in MsgIds \ Ids(r) : P.receipt_handle_map[i] = R.receipt_handle_map[i]
      /\ \A b \in Attempts : \/ P.receive_attempt_cache[b] = R.receive_attempt_cache[b]
                             \/ Delivers(P.receive_attempt_cache[b], Ids(r), vt)
  <2>1. R \in Queue /\ now \in Nat /\ minted \in [MsgIds -> Nat]
    BY <1>1, <1>2
  <2>2. P \in Queue /\ Waiting(P) = Elems(s)
    BY <2>1, HandedOutFields
  <2>3. Flying(P) = Flying(R) \cup {HandOut(m, vt) : m \in Elems(r)}
    BY <2>1, HandedOutFields
  <2>4. \A i \in MsgIds \ Ids(r) : P.receipt_handle_map[i] = R.receipt_handle_map[i]
    BY <2>1, HandedOutFields
  <2>6. \A i \in Ids(r) : P.receipt_handle_map[i] = R.receipt_handle_map[i] \cup {minted[i] + 1}
    BY <2>1, HandedOutFields
  <2>5. \A b \in Attempts : \/ P.receive_attempt_cache[b] = R.receive_attempt_cache[b]
                             \/ Delivers(P.receive_attempt_cache[b], Ids(r), vt)
    BY <2>1, HandedOutFields
  <2> QED BY <2>2, <2>3, <2>4, <2>5, <2>6
<1> HIDE DEF P, r, d, s
<1>5. Waiting(R) \subseteq Message /\ Flying(R) \subseteq Message /\ Flying(Q) \subseteq Message
  BY <1>1, <1>2, QueueFields
<1>6. /\ \A m \in Message : m.id \in MsgIds
      /\ \A m \in Message : /\ HandOut(m, vt).id = m.id /\ HandOut(m, vt).visible_at = now + vt
                            /\ HandOut(m, vt).receipt_handle = minted[m.id] + 1
  <2>1. \A m \in Message : m.id \in MsgIds
    BY DEF Message
  <2> QED BY <1>1, <2>1, HandOutFields DEF Same
<1>7. /\ Ids(r) = {m.id : m \in Elems(r)} /\ Ids(s) = {m.id : m \in Elems(s)}
      /\ Ids(P.inflight) = {m.id : m \in Flying(P)} /\ Ids(R.inflight) = {m.id : m \in Flying(R)}
      /\ Ids(R.messages) = {m.id : m \in Waiting(R)}
  BY IdsElems DEF Waiting, Flying
<1>8. Ids(r) \cap Ids(R.inflight) = {}
  BY <1>2, <1>3, <1>7 DEF Tidy
<1>9. \A i \in MsgIds : /\ i \in Ids(r) => minted'[i] = minted[i] + 1
                        /\ i \notin Ids(r) => minted'[i] = minted[i]
  BY <1>1
<1>10. ASSUME NEW m \in Waiting(P) PROVE WaitingFrom(q, m) /\ minted'[m.id] = minted[m.id]
  <2>1. m \in Waiting(R) /\ m.id \notin Ids(r) /\ m.id \in MsgIds
    BY <1>3, <1>4, <1>5, <1>6, <1>7
  <2> QED BY <1>2, <1>9, <2>1 DEF WaitingFrom
<1>11. ASSUME NEW m \in Flying(P) PROVE FlyingFrom(q, P, m)
  <2>1. CASE m \in Flying(R)
    <3>1. m.id \notin Ids(r) /\ m.id \in MsgIds
      BY <1>5, <1>6, <1>7, <1>8, <2>1
    <3>2. m \in Flying(Q) /\ R.receipt_handle_map[m.id] = Q.receipt_handle_map[m.id]
      BY <1>2, <2>1
    <3>3. P.receipt_handle_map[m.id] = R.receipt_handle_map[m.id] /\ minted'[m.id] = minted[m.id]
      BY <1>4, <1>9, <3>1
    <3> QED BY <3>2, <3>3 DEF FlyingFrom
  <2>2. CASE m \notin Flying(R)
    <3>1. PICK w \in Elems(r) : m = HandOut(w, vt)
      BY <1>4, <2>2
    <3>2. /\ w \in Waiting(R) /\ IsVisible(w) /\ w \in Message /\ ~Exhausted(R, w)
      BY <1>3, <1>5 DEF Ripe
    <3>3. m.id = w.id /\ m.id \in MsgIds /\ m.id \in Ids(r)
      BY <1>6, <1>7, <3>1, <3>2
    <3>4. ~Exhausted(Q, w)
      BY <1>2, <3>2 DEF Exhausted
    <3>5. P.receipt_handle_map[m.id] = R.receipt_handle_map[m.id] \cup {minted[m.id] + 1}
      BY <1>4, <3>3
    <3>6. \/ P.receipt_handle_map[m.id] = {minted[m.id] + 1}
          \/ /\ P.receipt_handle_map[m.id] = Q.receipt_handle_map[m.id] \cup {minted[m.id] + 1}
             /\ w \in Waiting(Q)
      BY <1>2, <3>2, <3>3, <3>5
    <3>7. minted'[m.id] = minted[m.id] + 1
      BY <1>9, <3>3
    <3> QED BY <1>2, <3>1, <3>2, <3>4, <3>6, <3>7 DEF FlyingFrom
  <2> QED BY <2>1, <2>2
<1>12. \A m \in Flying(Q) : FlyingStays(q, P, m)
  BY <1>1, <1>2, <1>4 DEF FlyingStays
<1>13. \A m \in Waiting(Q) : WaitingStays(q, P, m)
  BY <1>1, <1>2, <1>3, <1>4 DEF WaitingStays, Ripe
<1>14. ASSUME NEW i \in MsgIds PROVE HandlesStay(q, P, i)
  <2>1. CASE i \in Ids(r)
    <3>1. i \in Ids(P.inflight)
      BY <1>3, <1>4, <1>5, <1>6, <1>7, <2>1 DEF Ripe
    <3> QED BY <3>1 DEF HandlesStay
  <2>2. CASE i \notin Ids(r)
    <3>1. P.receipt_handle_map[i] = R.receipt_handle_map[i]
      BY <1>4, <2>2
    <3>2. Ids(R.inflight) \subseteq Ids(P.inflight)
      BY <1>4, <1>7
    <3> QED BY <1>1, <1>2, <3>1, <3>2 DEF HandlesStay
  <2> QED BY <2>1, <2>2
<1>15. ASSUME NEW b \in Attempts PROVE AttemptStays(q, P, b)
  <2>1. CASE Delivers(P.receive_attempt_cache[b], Ids(r), vt)
    <3>1. /\ P.receive_attempt_cache[b].ids = Ids(r)
          /\ P.receive_attempt_cache[b].expiry = now + vt
          /\ \A i \in MsgIds : P.receive_attempt_cache[b].handle[i] = minted[i] + 1
      BY <2>1 DEF Delivers
    <3>2. ASSUME NEW i \in Ids(r)
          PROVE  \E m \in Flying(P) : m.id = i /\ m.visible_at = now + vt /\ m.receipt_handle = minted[i] + 1
                    /\ i \in MsgIds
      <4>1. PICK w \in Elems(r) : w.id = i
        BY <1>7
      <4>2. w \in Message /\ HandOut(w, vt) \in Flying(P)
        BY <1>3, <1>4, <1>5 DEF Ripe
      <4> QED BY <1>6, <4>1, <4>2
    <3> QED BY <3>1, <3>2 DEF AttemptStays
  <2>2. CASE P.receive_attempt_cache[b] = R.receive_attempt_cache[b]
    BY <1>2, <2>2 DEF AttemptStays
  <2> QED BY <1>4, <2>1, <2>2
<1> QED BY <1>10, <1>11, <1>12, <1>13, <1>14, <1>15 DEF EvolvesTo

\* A queue that gains new messages.
LEMMA GrowEvolves ==
    ASSUME TypeOK, NEW q \in Queues, NEW P \in Queue, SameHandles(P, queues[q]),
           P.inflight = queues[q].inflight, Waiting(queues[q]) \subseteq Waiting(P),
           \A m \in Waiting(P) : \/ m \in Waiting(queues[q])
                                 \/ /\ m.id \in (sent + 1)..sent'
                                    /\ m.receipt_handle = None /\ m.receive_count = 0,
           minted' = minted
    PROVE  EvolvesTo(q, P)
<1>1. Flying(P) = Flying(queues[q])
  BY DEF Flying
<1>2. \A m \in Waiting(P) : WaitingFrom(q, m) /\ minted'[m.id] = minted[m.id]
  BY DEF WaitingFrom, Ready
<1>3. \A m \in Flying(P) : FlyingFrom(q, P, m)
  BY <1>1 DEF FlyingFrom, SameHandles
<1>4. \A m \in Flying(queues[q]) : FlyingStays(q, P, m)
  BY <1>1 DEF FlyingStays
<1>5. \A m \in Waiting(queues[q]) : WaitingStays(q, P, m)
  BY DEF WaitingStays
<1>6. \A i \in MsgIds : HandlesStay(q, P, i)
  BY DEF HandlesStay, SameHandles
<1>7. \A a \in Attempts : AttemptStays(q, P, a)
  BY DEF AttemptStays, SameHandles
<1> QED BY <1>2, <1>3, <1>4, <1>5, <1>6, <1>7 DEF EvolvesTo

\* A step that leaves the receipt handles alone and changes one queue.
LEMMA OneQueueEvolves ==
    ASSUME TypeOK, NEW q \in Queues, NEW P \in Queue, queues' = [queues EXCEPT ![q] = P],
           EvolvesTo(q, P), minted' = minted
    PROVE  Evolves
<1>1. queues \in [Queues -> Queue] /\ \A p \in Queues : queues[p] \in Queue
  BY DEF TypeOK
<1>2. queues'[q] = P /\ \A p \in Queues : p # q => queues'[p] = queues[p]
  BY <1>1
<1>3. ASSUME NEW p \in Queues PROVE EvolvesTo(p, queues[p])
  BY <1>1, SameEvolves DEF SameLists
<1> QED BY <1>2, <1>3 DEF Evolves

\* A step that takes messages out of one queue and puts them into another.
LEMMA MoveEvolves ==
    ASSUME TypeOK, Accounts, NEW q \in Queues, NEW t \in Queues, NEW P \in Queue, EvolvesTo(q, P),
           NEW s \in Seq(Message), Ids(s) \subseteq Holds(queues[q]),
           NEW F, F = [queues EXCEPT ![q] = P], queues' = [F EXCEPT ![t] = Arrive(F[t], s)],
           \A i \in MsgIds \ Holds(queues[q]) : minted'[i] = minted[i],
           \A m \in Elems(s) : WaitingFrom(t, m) /\ minted'[m.id] = minted[m.id],
           t = q => \A m \in Flying(queues[q]) : m.id \in Ids(s) =>
                  (m.id \in gone' \/ m \in Flying(P) \/ m \in Late \/ NewTimeouts # {}
                     \/ (q \in ForcedQueues \cap live /\ queues[q].redrive = q)),
           t = q => \A i \in Ids(s) \cap Ids(queues[q].inflight) :
                  \/ P.receipt_handle_map[i] = {} \/ i \in gone' \/ i \in Ids(P.inflight)
                  \/ queues[q].redrive = q
    PROVE  Evolves
<1>1. queues \in [Queues -> Queue] /\ \A p \in Queues : queues[p] \in Queue
  BY DEF TypeOK
<1>2. F \in [Queues -> Queue] /\ F[q] = P /\ \A p \in Queues : p # q => F[p] = queues[p]
  BY <1>1
<1>3. queues'[t] = Arrive(F[t], s) /\ \A p \in Queues : p # t => queues'[p] = F[p]
  BY <1>2
<1>4. ASSUME NEW p \in Queues, p # q PROVE EvolvesTo(p, queues[p])
  <2>1. Holds(queues[p]) \subseteq MsgIds /\ Holds(queues[p]) \cap Holds(queues[q]) = {}
    BY <1>1, <1>4, QueueFields DEF Accounts, Spread
  <2>2. \A i \in Holds(queues[p]) : minted'[i] = minted[i]
    BY <2>1
  <2> QED BY <1>1, <2>2, SameEvolves DEF SameLists
<1>5. EvolvesTo(t, Arrive(F[t], s))
  <2>1. CASE t = q
    <3>1. \A m \in Flying(queues[t]) : FlyingStays(t, P, m)
      BY <2>1 DEF EvolvesTo
    <3>2. \A m \in Flying(queues[t]) : m.id \in Ids(s) => FlyingStays(t, P, m) /\
                  (m.id \in gone' \/ m \in Flying(P) \/ m \in Late \/ NewTimeouts # {}
                     \/ (t \in ForcedQueues \cap live /\ queues[t].redrive = t))
      BY <2>1, <3>1
    <3>3. \A i \in Ids(s) \cap Ids(queues[t].inflight) :
                  \/ P.receipt_handle_map[i] = {} \/ i \in gone' \/ i \in Ids(P.inflight)
                  \/ queues[t].redrive = t
      BY <2>1
    <3> QED BY <1>2, <2>1, <3>2, <3>3, ArriveEvolves
  <2>2. CASE t # q
    <3>1. F[t] = queues[t] /\ queues[t] \in Queue /\ EvolvesTo(t, queues[t])
      BY <1>1, <1>2, <1>4, <2>2
    <3>2. (\A m \in Flying(queues[t]) : m.id \notin Ids(s)) /\ Ids(s) \cap Ids(queues[t].inflight) = {}
      <4>1. Holds(queues[t]) \cap Holds(queues[q]) = {}
        BY <2>2 DEF Accounts, Spread
      <4>2. \A m \in Flying(queues[t]) : m.id \in Holds(queues[t])
        BY IdsElems DEF Holds, Flying
      <4> QED BY <4>1, <4>2 DEF Holds
    <3> QED BY <3>1, <3>2, ArriveEvolves
  <2> QED BY <2>1, <2>2
<1>6. ASSUME NEW p \in Queues PROVE EvolvesTo(p, queues'[p])
  <2>1. CASE p = t
    BY <1>3, <1>5, <2>1
  <2>2. CASE p # t /\ p = q
    BY <1>2, <1>3, <2>2
  <2>3. CASE p # t /\ p # q
    BY <1>2, <1>3, <1>4, <2>3
  <2> QED BY <2>1, <2>2, <2>3
<1> QED BY <1>6 DEF Evolves

\* A receive.
LEMMA ReceiveMessageEvolves ==
    ASSUME TypeOK, Accounts, NEW q \in Queues, NEW max \in Nat, NEW vt \in Nat, NEW a,
           ReceiveMessage(q, max, vt, a)
    PROVE  Evolves
<1> DEFINE Q == queues[q]
           R == Refreshed(q)
           P == HandedOut(q, R, max, vt, a)
           r == Received(q, R, max)
           d == Dead(q, R, max)
           s == Restart(d)
           t == IF R.redrive \in live THEN R.redrive ELSE q
           F == [queues EXCEPT ![q] = P]
           lost == ExpiredIds(queues[q])
<1>1. /\ queues \in [Queues -> Queue] /\ queues[q] \in Queue /\ now \in Nat
      /\ minted \in [MsgIds -> Nat] /\ Tidy(queues[q]) /\ live \subseteq Queues
  BY DEF TypeOK, Accounts, Spread
<1>2. /\ q \in live /\ gone' = gone \cup lost
      /\ queues' = [F EXCEPT ![t] = Arrive(F[t], s)]
      /\ minted' = [i \in MsgIds |-> IF i \in Ids(r) THEN minted[i] + 1 ELSE minted[i]]
  BY DEF ReceiveMessage
<1>3. EvolvesTo(q, P)
  <2>1. lost \subseteq gone'
    BY <1>2
  <2> QED BY <1>1, <1>2, <2>1, HandedOutEvolves
<1>4. /\ R \in Queue /\ Tidy(R) /\ R.redrive = Q.redrive /\ Holds(R) = Holds(Q) \ lost
      /\ Waiting(R) \subseteq Ready(q)
      /\ \A m \in Flying(R) : m \in Flying(Q)
      /\ \A m \in Flying(Q) : m.id \in lost \/ m \in Late \/ m \in Flying(R)
      /\ \A m \in Waiting(R) : R.receipt_handle_map[m.id] = {} \/ m \in Waiting(Q)
  BY <1>1, RefreshedOrigins
<1>5. t \in Queues /\ t = IF Q.redrive \in live THEN Q.redrive ELSE q
  BY <1>1, <1>4
<1> HIDE DEF R, lost, t
<1>6. P \in Queue /\ \A i \in MsgIds \ Ids(r) : P.receipt_handle_map[i] = R.receipt_handle_map[i]
  BY <1>1, <1>4, HandedOutFields
<1>7. /\ r \in Seq(Message) /\ d \in Seq(Message)
      /\ Elems(r) \subseteq Ripe(R) /\ Elems(d) \subseteq Ripe(R)
      /\ \A m \in Elems(d) : Exhausted(R, m)
      /\ Ids(r) \cap Ids(d) = {}
  <2>1. Distinct(R.messages)
    BY <1>4 DEF Tidy
  <2> QED BY <1>4, <2>1, Selection
<1> HIDE DEF P, r, d, F
<1>8. s \in Seq(Message) /\ Ids(s) = Ids(d) /\ Elems(s) = {Restarted(m) : m \in Elems(d)}
  BY <1>7, RestartList
<1> HIDE DEF s
<1>9. /\ Ids(r) = {m.id : m \in Elems(r)} /\ Ids(d) = {m.id : m \in Elems(d)}
      /\ Ids(s) = {m.id : m \in Elems(s)}
      /\ Ids(R.messages) = {m.id : m \in Waiting(R)} /\ Ids(R.inflight) = {m.id : m \in Flying(R)}
  BY IdsElems DEF Waiting, Flying
<1>10. Ids(r) \subseteq Ids(R.messages) /\ Ids(d) \subseteq Ids(R.messages)
  BY <1>7, <1>9 DEF Ripe
<1>11. Ids(R.messages) \subseteq Holds(Q)
  BY <1>4 DEF Holds
<1>12. \A i \in MsgIds \ Holds(queues[q]) : minted'[i] = minted[i]
  BY <1>2, <1>10, <1>11
<1>13. Holds(Q) \subseteq MsgIds
  BY <1>1, QueueFields
<1>14. ASSUME NEW m \in Elems(s) PROVE WaitingFrom(t, m) /\ minted'[m.id] = minted[m.id]
  <2>1. PICK w \in Elems(d) : m = Restarted(w)
    BY <1>8
  <2>2. w \in Ready(q) /\ Exhausted(Q, w)
    BY <1>4, <1>7 DEF Ripe, Exhausted
  <2>3. WaitingFrom(t, m)
    BY <1>2, <1>5, <2>1, <2>2 DEF WaitingFrom
  <2>4. m.id \in MsgIds /\ m.id \notin Ids(r)
    BY <1>7, <1>8, <1>9, <1>10, <1>11, <1>13
  <2> QED BY <1>2, <2>3, <2>4
<1>15. \A m \in Flying(Q) : m.id \in Ids(s) => m \in Late \/ m.id \in gone'
  <2>1. Ids(s) \cap Ids(R.inflight) = {}
    BY <1>4, <1>8, <1>10 DEF Tidy
  <2> QED BY <1>2, <1>4, <1>9, <2>1
<1>16. Ids(s) \subseteq Holds(queues[q])
  BY <1>8, <1>10, <1>11
<1>17. ASSUME NEW i \in Ids(s) \cap Ids(Q.inflight) PROVE P.receipt_handle_map[i] = {}
  <2>1. i \notin Ids(Q.messages) /\ Ids(Q.messages) = {m.id : m \in Waiting(Q)}
    BY <1>1, IdsElems DEF Tidy, Waiting
  <2>2. PICK m \in Waiting(R) : m.id = i
    BY <1>8, <1>9, <1>10
  <2>3. i \in MsgIds /\ i \notin Ids(r)
    BY <1>7, <1>8, <1>13, <1>16
  <2> QED BY <1>4, <1>6, <2>1, <2>2, <2>3
<1>18. t = q => \A i \in Ids(s) \cap Ids(queues[q].inflight) :
                  \/ P.receipt_handle_map[i] = {} \/ i \in gone' \/ i \in Ids(P.inflight)
                  \/ queues[q].redrive = q
  BY <1>17
<1> QED BY <1>2, <1>3, <1>5, <1>6, <1>8, <1>12, <1>14, <1>15, <1>16, <1>18, MoveEvolves DEF F

\* A receive whose messages cannot be decrypted.
LEMMA ReceiveDecryptFailsEvolves ==
    ASSUME TypeOK, Accounts, NEW q \in Queues, NEW max \in Nat, NEW a, ReceiveDecryptFails(q, max, a)
    PROVE  Evolves
<1> DEFINE Q == queues[q]
           R == Refreshed(q)
           r == Received(q, R, max)
           d == Dead(q, R, max)
           z == Remaining(q, R, max)
           u == UnleaseAll(r)
           s == u \o z
           P == [R EXCEPT !.messages = s]
           lost == ExpiredIds(queues[q])
<1>1. Q \in Queue /\ Tidy(Q)
  BY DEF TypeOK, Accounts, Spread
<1>2. queues' = [queues EXCEPT ![q] = P] /\ lost \subseteq gone' /\ minted' = minted
  BY DEF ReceiveDecryptFails
<1>3. /\ R \in Queue /\ Tidy(R)
      /\ Waiting(R) \subseteq Ready(q)
      /\ \A m \in Flying(R) : /\ m \in Flying(Q) /\ m \notin Late
                              /\ R.receipt_handle_map[m.id] = Q.receipt_handle_map[m.id]
      /\ \A m \in Flying(Q) : m.id \in lost \/ m \in Late \/ m \in Flying(R)
      /\ \A m \in Waiting(Q) : m.id \in lost \/ m \in Waiting(R)
      /\ \A i \in MsgIds : \/ R.receipt_handle_map[i] = {}
                           \/ i \in lost
                           \/ i \in Ids(R.inflight)
                           \/ /\ R.receipt_handle_map[i] = Q.receipt_handle_map[i]
                              /\ i \notin Ids(Q.inflight)
      /\ \A b \in Attempts : \/ R.receive_attempt_cache[b] = Q.receive_attempt_cache[b]
                             \/ R.receive_attempt_cache[b].expiry <= now
  BY <1>1, RefreshedOrigins
<1> HIDE DEF R, lost
<1>4. /\ r \in Seq(Message) /\ d \in Seq(Message) /\ z \in Seq(Message)
      /\ Elems(r) \subseteq Ripe(R) /\ Elems(d) \subseteq Ripe(R)
      /\ Elems(r) \cup Elems(d) \cup Elems(z) = Waiting(R)
  <2>1. Distinct(R.messages)
    BY <1>3 DEF Tidy
  <2> QED BY <1>3, <2>1, Selection
<1> HIDE DEF r, d, z
<1>5. u \in Seq(Message) /\ Elems(u) = {Unleased(m) : m \in Elems(r)}
  BY <1>4, UnleaseAllList
<1> HIDE DEF u
<1>6. s \in Seq(Message) /\ Elems(s) = Elems(u) \cup Elems(z)
  BY <1>4, <1>5, ConcatMessages
<1> HIDE DEF s
<1>7. /\ P \in Queue /\ P.messages = s /\ P.inflight = R.inflight
      /\ SameHandles(P, R)
  BY <1>3, <1>6, MessagesFields
<1> HIDE DEF P
<1>8. Flying(P) = Flying(R) /\ Waiting(P) = Elems(u) \cup Elems(z)
  BY <1>6, <1>7 DEF Flying, Waiting
<1>9. \A m \in Waiting(P) : WaitingFrom(q, m) /\ minted'[m.id] = minted[m.id]
  BY <1>2, <1>3, <1>4, <1>5, <1>8 DEF WaitingFrom, Ripe
<1>10. \A m \in Flying(P) : FlyingFrom(q, P, m)
  BY <1>2, <1>3, <1>7, <1>8 DEF FlyingFrom, SameHandles
<1>11. \A m \in Flying(Q) : FlyingStays(q, P, m)
  BY <1>2, <1>3, <1>8 DEF FlyingStays
<1>12. \A m \in Waiting(Q) : WaitingStays(q, P, m)
  BY <1>2, <1>3, <1>4, <1>8 DEF WaitingStays, Ripe
<1>13. \A i \in MsgIds : HandlesStay(q, P, i)
  BY <1>2, <1>3, <1>7 DEF HandlesStay, SameHandles
<1>14. \A b \in Attempts : AttemptStays(q, P, b)
  BY <1>3, <1>7 DEF AttemptStays, SameHandles
<1>15. EvolvesTo(q, P)
  BY <1>9, <1>10, <1>11, <1>12, <1>13, <1>14 DEF EvolvesTo
<1> QED BY <1>2, <1>7, <1>15, OneQueueEvolves

\* Forced dead-lettering.
LEMMA ForceDlqEvolves ==
    ASSUME TypeOK, Accounts, NEW q \in Queues, ForceDlq(q)
    PROVE  Evolves
<1> DEFINE Q == queues[q]
           P == WithoutLimited(Q)
           s == Limited(Q)
           t == Q.redrive
           F == [queues EXCEPT ![q] = P]
<1>1. Q \in Queue /\ Tidy(Q) /\ live \subseteq Queues
  BY DEF TypeOK, Accounts, Spread
<1>2. /\ q \in ForcedQueues /\ t \in live /\ minted' = minted
      /\ queues' = [F EXCEPT ![t] = Arrive(F[t], s)]
  BY DEF ForceDlq
<1>3. /\ P \in Queue /\ s \in Seq(Message) /\ SameHandles(P, Q)
      /\ Waiting(P) = Waiting(Q) \ Full /\ Flying(P) = Flying(Q) \ Full
      /\ Elems(s) = {Unleased(m) : m \in (Waiting(Q) \cup Flying(Q)) \cap Full}
      /\ Holds(P) \cup Ids(s) = Holds(Q) /\ Holds(P) \cap Ids(s) = {}
  BY <1>1, LimitedFields
<1> HIDE DEF P, s, t, F
<1>4. Ids(s) = {m.id : m \in Elems(s)} /\ Flying(Q) \subseteq Message /\ Waiting(Q) \subseteq Message
  BY <1>1, IdsElems, QueueFields
<1>5. ASSUME NEW m \in Flying(Q) PROVE m \in Flying(P) \/ m.id \notin Holds(P)
  <2> SUFFICES ASSUME m \in Full PROVE m.id \notin Holds(P)
    BY <1>3
  <2>1. Unleased(m) \in Elems(s) /\ Unleased(m).id = m.id
    BY <1>3, <1>4, UnleasedFields DEF Same
  <2> QED BY <1>3, <1>4, <2>1
<1>6. \A m \in Waiting(P) : WaitingFrom(q, m) /\ minted'[m.id] = minted[m.id]
  BY <1>2, <1>3 DEF WaitingFrom, Ready
<1>7. \A m \in Flying(P) : FlyingFrom(q, P, m)
  BY <1>2, <1>3 DEF FlyingFrom, SameHandles
<1>8. \A m \in Flying(Q) : FlyingStays(q, P, m)
  BY <1>2, <1>5 DEF FlyingStays, t
<1>9. \A m \in Waiting(Q) : WaitingStays(q, P, m)
  BY <1>2 DEF WaitingStays
<1>10. \A i \in MsgIds : HandlesStay(q, P, i)
  <2>1. /\ Ids(P.inflight) = {m.id : m \in Flying(P)}
        /\ Ids(Q.inflight) = {m.id : m \in Flying(Q)}
    BY IdsElems DEF Flying
  <2> QED BY <1>2, <1>3, <1>5, <2>1 DEF HandlesStay, SameHandles, t
<1>11. \A b \in Attempts : AttemptStays(q, P, b)
  BY <1>3 DEF AttemptStays, SameHandles
<1>12. EvolvesTo(q, P)
  BY <1>6, <1>7, <1>8, <1>9, <1>10, <1>11 DEF EvolvesTo
<1>13. \A m \in Elems(s) : WaitingFrom(t, m) /\ minted'[m.id] = minted[m.id]
  BY <1>2, <1>3 DEF WaitingFrom, t
<1>14. \A i \in MsgIds \ Holds(queues[q]) : minted'[i] = minted[i]
  BY <1>2
<1>15. Ids(s) \subseteq Holds(queues[q]) /\ t \in Queues
  BY <1>1, <1>2, <1>3
<1>16. P \in Queue /\ s \in Seq(Message)
  BY <1>3
<1>17. F = [queues EXCEPT ![q] = P] /\ queues' = [F EXCEPT ![t] = Arrive(F[t], s)]
  BY <1>2 DEF F
<1>18. t = q => \A m \in Flying(queues[q]) : m.id \in Ids(s) => (q \in ForcedQueues \cap live /\ queues[q].redrive = q)
  BY <1>2 DEF t
<1>19. t = q => \A m \in Flying(queues[q]) : m.id \in Ids(s) =>
                  (m.id \in gone' \/ m \in Flying(P) \/ m \in Late \/ NewTimeouts # {}
                     \/ (q \in ForcedQueues \cap live /\ queues[q].redrive = q))
  BY <1>18
<1>20. t = q => \A i \in Ids(s) \cap Ids(queues[q].inflight) :
                  \/ P.receipt_handle_map[i] = {} \/ i \in gone' \/ i \in Ids(P.inflight)
                  \/ queues[q].redrive = q
  BY DEF t
<1> HIDE DEF Q
<1> QED BY <1>12, <1>13, <1>14, <1>15, <1>16, <1>17, <1>19, <1>20, MoveEvolves, ZenonT(60)

\* A change of visibility.
LEMMA ChangeVisibilityEvolves ==
    ASSUME TypeOK, NEW q \in Queues, NEW ids, NEW t \in NewTimeouts,
           ChangeMessageVisibilityBatch(q, ids, t)
    PROVE  Evolves
<1> DEFINE Q == queues[q]
           P == WithVisibility(Q, ids, t)
           flying == ids \cap Ids(Q.inflight)
           x == now + t
<1>1. Q \in Queue /\ now \in Nat /\ t \in Nat /\ x \in Nat
  BY ConstantsAssumption DEF TypeOK
<1>2. queues' = [queues EXCEPT ![q] = P] /\ ids \subseteq Reachable(Q) /\ minted' = minted
  BY DEF ChangeMessageVisibilityBatch
<1>3. /\ P \in Queue /\ SameHandles(P, Q)
      /\ Waiting(P) = {IF m.id \in ids \ flying THEN VisibleAt(m, x) ELSE m : m \in Waiting(Q)}
      /\ Flying(P) = {IF m.id \in flying THEN VisibleAt(m, x) ELSE m : m \in Flying(Q)}
      /\ Ids(P.inflight) = Ids(Q.inflight)
  BY <1>1, WithVisibilityFields
<1>4. Waiting(Q) \subseteq Message /\ Flying(Q) \subseteq Message
  BY <1>1, QueueFields
<1> HIDE DEF P, flying, x
<1>5. \A m \in Message : VisibleAt(m, x).id = m.id
  BY <1>1, VisibleAtFields DEF Same
<1>6. ASSUME NEW m \in Waiting(P) PROVE WaitingFrom(q, m) /\ minted'[m.id] = minted[m.id]
  <2>1. PICK w \in Waiting(Q) : m = IF w.id \in ids \ flying THEN VisibleAt(w, x) ELSE w
    BY <1>3
  <2> QED BY <1>1, <1>2, <2>1 DEF WaitingFrom, Ready
<1>7. ASSUME NEW m \in Flying(P) PROVE FlyingFrom(q, P, m)
  <2>1. PICK w \in Flying(Q) : m = IF w.id \in flying THEN VisibleAt(w, x) ELSE w
    BY <1>3
  <2> QED BY <1>1, <1>2, <1>3, <2>1 DEF FlyingFrom, SameHandles
<1>8. \A m \in Flying(Q) : FlyingStays(q, P, m)
  BY DEF FlyingStays
<1>9. ASSUME NEW m \in Waiting(Q) PROVE WaitingStays(q, P, m)
  <2>1. m.id \in ids \/ m \in Waiting(P)
    BY <1>3
  <2> QED BY <1>2, <2>1 DEF WaitingStays
<1>10. \A i \in MsgIds : HandlesStay(q, P, i)
  BY <1>3 DEF HandlesStay, SameHandles
<1>11. \A b \in Attempts : AttemptStays(q, P, b)
  BY <1>3 DEF AttemptStays, SameHandles
<1>12. EvolvesTo(q, P)
  BY <1>6, <1>7, <1>8, <1>9, <1>10, <1>11 DEF EvolvesTo
<1> QED BY <1>2, <1>3, <1>12, OneQueueEvolves

\* A message sent, by a client or another service.
LEMMA SendMessageEvolves ==
    ASSUME TypeOK, NEW q \in Queues, NEW e \in Entries, SendMessage(q, e)
    PROVE  Evolves
<1> DEFINE Q == queues[q]
           id == sent + 1
           P == Enqueue(q, Q, e, id)
           m == NewMessage(q, Q, e, id)
<1>1. Q \in Queue /\ now \in Nat /\ sent \in Nat /\ id \in MsgIds /\ id \in (sent + 1)..sent'
  BY ConstantsAssumption DEF TypeOK, SendMessage, MsgIds
<1>2. queues' = [queues EXCEPT ![q] = P] /\ minted' = minted
  BY DEF SendMessage
<1>3. e.group \in Groups \cup {NoGroup} /\ e.delay \in Nat
  BY DedupKeyType
<1> HIDE DEF Q, id
<1>4. m.id = id /\ m.receipt_handle = None /\ m.receive_count = 0
  BY <1>1, <1>3, NewMessageFields
<1>5. P \in Queue /\ SameHandles(P, Q) /\ P.inflight = Q.inflight /\ Waiting(P) = Waiting(Q) \cup {m}
  BY <1>1, EnqueueFields
<1> HIDE DEF P, m
<1>6. EvolvesTo(q, P)
  BY <1>1, <1>2, <1>4, <1>5, GrowEvolves DEF Q
<1> QED BY <1>2, <1>5, <1>6, OneQueueEvolves DEF Q

\* A delivery from another service.
LEMMA DeliverEvolves ==
    ASSUME TypeOK, NEW q \in Queues, NEW g \in Groups \cup {NoGroup}, Deliver(q, g)
    PROVE  Evolves
<1> DEFINE Q == queues[q]
           id == sent + 1
           e == [group |-> g, delay |-> 0]
           P == PushBack(q, Q, e, id)
           m == NewMessage(q, Q, e, id)
<1>1. Q \in Queue /\ now \in Nat /\ sent \in Nat /\ id \in MsgIds /\ id \in (sent + 1)..sent'
  BY ConstantsAssumption DEF TypeOK, Deliver, MsgIds
<1>2. queues' = [queues EXCEPT ![q] = P] /\ minted' = minted
  BY DEF Deliver
<1>3. e.group \in Groups \cup {NoGroup} /\ e.delay \in Nat
  OBVIOUS
<1> HIDE DEF Q, id, e
<1>4. m.id = id /\ m.receipt_handle = None /\ m.receive_count = 0
  BY <1>1, <1>3, NewMessageFields
<1>5. P \in Queue /\ SameHandles(P, Q) /\ P.inflight = Q.inflight /\ Waiting(P) = Waiting(Q) \cup {m}
  BY <1>1, <1>3, PushBackFields
<1> HIDE DEF P, m
<1>6. EvolvesTo(q, P)
  BY <1>1, <1>2, <1>4, <1>5, GrowEvolves DEF Q
<1> QED BY <1>2, <1>5, <1>6, OneQueueEvolves DEF Q

\* A batch.
LEMMA SendMessageBatchEvolves ==
    ASSUME TypeOK, NEW q \in Queues, NEW e1 \in Entries, NEW e2 \in Entries,
           SendMessageBatch(q, e1, e2)
    PROVE  Evolves
<1>1. PICK n1 \in {0, 1}, n2 \in {0, 1}, Q1 \in Queue :
              /\ q \in live
              /\ Q1 = BatchEntry(q, queues[q], e1, n1, sent + 1)
              /\ sent' = sent + n1 + n2 /\ sent + n1 + n2 <= MaxMessages
              /\ queues' = [queues EXCEPT ![q] = BatchEntry(q, Q1, e2, n2, sent + n1 + 1)]
              /\ UNCHANGED <<now, live, minted, gone>>
  BY BatchSteps
<1> DEFINE Q == queues[q]
           i1 == sent + 1
           i2 == sent + n1 + 1
           P == BatchEntry(q, Q1, e2, n2, i2)
           m1 == NewMessage(q, Q, e1, i1)
           m2 == NewMessage(q, Q1, e2, i2)
           N1 == IF n1 = 0 THEN {} ELSE {m1}
           N2 == IF n2 = 0 THEN {} ELSE {m2}
<1>2. Q \in Queue /\ now \in Nat /\ sent \in Nat
  BY DEF TypeOK
<1>3. /\ n1 = 1 => i1 \in MsgIds /\ i1 \in (sent + 1)..sent'
      /\ n2 = 1 => i2 \in MsgIds /\ i2 \in (sent + 1)..sent'
  BY <1>1, <1>2, ConstantsAssumption DEF MsgIds
<1>4. Q1 = BatchEntry(q, Q, e1, n1, i1) /\ queues' = [queues EXCEPT ![q] = P] /\ minted' = minted
  BY <1>1
<1>5. /\ e1.group \in Groups \cup {NoGroup} /\ e1.delay \in Nat
      /\ e2.group \in Groups \cup {NoGroup} /\ e2.delay \in Nat
  BY DedupKeyType
<1> HIDE DEF Q, i1, i2
<1>6. n1 = 1 => m1.id = i1 /\ m1.receipt_handle = None /\ m1.receive_count = 0
  BY <1>2, <1>3, <1>5, NewMessageFields
<1>7. n2 = 1 => m2.id = i2 /\ m2.receipt_handle = None /\ m2.receive_count = 0
  BY <1>1, <1>2, <1>3, <1>5, NewMessageFields
<1>8. SameHandles(Q1, Q) /\ Q1.inflight = Q.inflight /\ Waiting(Q1) = Waiting(Q) \cup N1
  BY <1>2, <1>3, <1>4, BatchEntryFields
<1>9. P \in Queue /\ SameHandles(P, Q1) /\ P.inflight = Q1.inflight /\ Waiting(P) = Waiting(Q1) \cup N2
  BY <1>1, <1>2, <1>3, BatchEntryFields
<1> HIDE DEF P, m1, m2
<1>10. /\ \A m \in N1 : m.id \in (sent + 1)..sent' /\ m.receipt_handle = None /\ m.receive_count = 0
       /\ \A m \in N2 : m.id \in (sent + 1)..sent' /\ m.receipt_handle = None /\ m.receive_count = 0
  BY <1>1, <1>3, <1>6, <1>7
<1> HIDE DEF N1, N2
<1>11. SameHandles(P, Q) /\ P.inflight = Q.inflight
  BY <1>8, <1>9 DEF SameHandles
<1>12. EvolvesTo(q, P)
  BY <1>4, <1>8, <1>9, <1>10, <1>11, GrowEvolves DEF Q
<1> QED BY <1>4, <1>9, <1>12, OneQueueEvolves DEF Q

\* The steps that leave the messages of the queue alone.
LEMMA SameMessagesEvolves ==
    ASSUME TypeOK, NEW q \in Queues, NEW P \in Queue, queues' = [queues EXCEPT ![q] = P],
           minted' = minted, SameLists(P, queues[q]),
           P.receipt_handle_map = queues[q].receipt_handle_map,
           \A a \in Attempts : \/ P.receive_attempt_cache[a] = queues[q].receive_attempt_cache[a]
                               \/ P.receive_attempt_cache[a].expiry <= now
    PROVE  Evolves
<1>1. \A i \in Holds(queues[q]) : minted'[i] = minted[i]
  OBVIOUS
<1>2. EvolvesTo(q, P)
  BY <1>1, SameEvolves
<1> QED BY <1>2, OneQueueEvolves

\* A duplicate, a send or a delivery that cannot be encrypted, a replayed
\* receive, another redrive policy.
LEMMA QuietEvolves ==
    ASSUME TypeOK, NEW q \in Queues,
           \/ \E e \in Entries : SendDuplicate(q, e) \/ SendEncryptFails(q, e)
           \/ DeliverEncryptFails(q)
           \/ \E a : ReplayReceive(q, a)
           \/ \E target \in Queues \cup {NoQueue} : SetRedrivePolicy(q, target)
    PROVE  Evolves
<1> DEFINE Q == queues[q]
           D == PruneDedup(Q)
           A == PruneAttempts(Q)
<1>1. Q \in Queue /\ now \in Nat
  BY DEF TypeOK
<1>2. D \in Queue /\ SameLists(D, Q) /\ SameHandles(D, Q)
  BY <1>1, PruneDedupFields
<1>3. UseNumber(D) \in Queue /\ SameLists(UseNumber(D), Q) /\ SameHandles(UseNumber(D), Q)
  BY <1>2, UseNumberFields DEF SameLists, SameHandles
<1>4. UseNumber(Q) \in Queue /\ SameLists(UseNumber(Q), Q) /\ SameHandles(UseNumber(Q), Q)
  BY <1>1, UseNumberFields
<1>5. NoReceive.expiry <= now
  BY <1>1 DEF NoReceive
<1>6. /\ A \in Queue /\ SameLists(A, Q) /\ A.receipt_handle_map = Q.receipt_handle_map
      /\ \A a \in Attempts : \/ A.receive_attempt_cache[a] = queues[q].receive_attempt_cache[a]
                             \/ A.receive_attempt_cache[a].expiry <= now
  BY <1>1, <1>5, PruneAttemptsFields
<1>7. CASE \E e \in Entries : SendDuplicate(q, e) \/ SendEncryptFails(q, e)
  <2>1. /\ queues' = [queues EXCEPT ![q] = D] \/ queues' = [queues EXCEPT ![q] = UseNumber(D)]
        /\ minted' = minted
    BY <1>7 DEF SendDuplicate, SendEncryptFails
  <2> HIDE DEF D, Q
  <2> QED BY <1>2, <1>3, <2>1, SameMessagesEvolves DEF SameHandles, Q
<1>8. CASE DeliverEncryptFails(q)
  <2>1. queues' = [queues EXCEPT ![q] = UseNumber(Q)] /\ minted' = minted
    BY <1>8 DEF DeliverEncryptFails
  <2> QED BY <1>4, <2>1, SameMessagesEvolves DEF SameHandles
<1>9. CASE \E a : ReplayReceive(q, a)
  <2>1. queues' = [queues EXCEPT ![q] = A] /\ minted' = minted
    BY <1>9 DEF ReplayReceive
  <2> HIDE DEF A
  <2> QED BY <1>6, <2>1, SameMessagesEvolves
<1>10. CASE \E target \in Queues \cup {NoQueue} : SetRedrivePolicy(q, target)
  <2>1. PICK target \in Queues \cup {NoQueue} : SetRedrivePolicy(q, target)
    BY <1>10
  <2> DEFINE P == [queues[q] EXCEPT !.redrive = target]
  <2>2. queues' = [queues EXCEPT ![q] = P] /\ minted' = minted
    BY <2>1 DEF SetRedrivePolicy
  <2>3. P \in Queue /\ SameLists(P, queues[q]) /\ SameHandles(P, queues[q])
    BY <1>1, RedriveFields
  <2> HIDE DEF P
  <2> QED BY <2>2, <2>3, SameMessagesEvolves DEF SameHandles
<1> QED BY <1>7, <1>8, <1>9, <1>10

\* A step that drops messages from one queue.
LEMMA DropEvolves ==
    ASSUME TypeOK, NEW q \in Queues, NEW P \in Queue, queues' = [queues EXCEPT ![q] = P],
           minted' = minted,
           Waiting(P) \subseteq Waiting(queues[q]), Flying(P) \subseteq Flying(queues[q]),
           \A m \in Waiting(queues[q]) : m \in Waiting(P) \/ m.id \in gone',
           \A m \in Flying(queues[q]) : m \in Flying(P) \/ m.id \in gone',
           \/ P.receipt_handle_map = queues[q].receipt_handle_map
           \/ (\A i \in MsgIds : P.receipt_handle_map[i] = {}) /\ Flying(P) = {},
           \A a \in Attempts : \/ P.receive_attempt_cache[a] = queues[q].receive_attempt_cache[a]
                               \/ P.receive_attempt_cache[a].expiry <= now
    PROVE  Evolves
<1>1. \A i \in Holds(queues[q]) : minted'[i] = minted[i]
  OBVIOUS
<1>2. EvolvesTo(q, P)
  BY <1>1, LossEvolves
<1> QED BY <1>2, OneQueueEvolves

\* A delete.
LEMMA DeleteMessageBatchEvolves ==
    ASSUME TypeOK, NEW q \in Queues, NEW ids, DeleteMessageBatch(q, ids)
    PROVE  Evolves
<1> DEFINE Q == queues[q]
           P == Deleted(Q, ids)
<1>1. Q \in Queue
  BY DEF TypeOK
<1>2. /\ queues' = [queues EXCEPT ![q] = P] /\ minted' = minted
      /\ ids \cap Holds(Q) \subseteq gone'
  BY DEF DeleteMessageBatch, Holds
<1>3. /\ P \in Queue /\ SameHandles(P, Q)
      /\ Waiting(P) = {m \in Waiting(Q) : m.id \notin ids}
      /\ Flying(P) = {m \in Flying(Q) : m.id \notin ids}
  BY <1>1, DeletedFields
<1>4. \A m \in Waiting(Q) \cup Flying(Q) : m.id \in Holds(Q)
  BY IdsElems DEF Holds, Waiting, Flying
<1> HIDE DEF P
<1>5. /\ Waiting(P) \subseteq Waiting(queues[q]) /\ Flying(P) \subseteq Flying(queues[q])
      /\ \A m \in Waiting(queues[q]) : m \in Waiting(P) \/ m.id \in gone'
      /\ \A m \in Flying(queues[q]) : m \in Flying(P) \/ m.id \in gone'
  BY <1>2, <1>3, <1>4
<1> QED BY <1>2, <1>3, <1>5, DropEvolves DEF SameHandles

\* A queue created, deleted or purged.
LEMMA EmptyEvolves ==
    ASSUME TypeOK, Accounts, NEW q \in Queues,
           \/ \E target \in Queues \cup {NoQueue} : CreateQueue(q, target)
           \/ DeleteQueue(q)
           \/ PurgeQueue(q)
    PROVE  Evolves
<1> DEFINE Q == queues[q]
<1>1. Q \in Queue /\ now \in Nat
  BY DEF TypeOK
<1>2. \A m \in Waiting(Q) \cup Flying(Q) : m.id \in Holds(Q)
  BY IdsElems DEF Holds, Waiting, Flying
<1>3. NoReceive.expiry <= now
  BY <1>1 DEF NoReceive
<1>4. ASSUME NEW target \in Queues \cup {NoQueue}, queues' = [queues EXCEPT ![q] = NewQueue(target)],
             minted' = minted, Holds(Q) \subseteq gone'
      PROVE  Evolves
  <2> DEFINE P == NewQueue(target)
  <2>1. /\ P \in Queue /\ Waiting(P) = {} /\ Flying(P) = {}
        /\ \A i \in MsgIds : P.receipt_handle_map[i] = {}
        /\ \A a \in Attempts : P.receive_attempt_cache[a] = NoReceive
    BY NewQueueFields
  <2>2. queues' = [queues EXCEPT ![q] = P]
    BY <1>4
  <2> HIDE DEF P
  <2>3. /\ Waiting(P) \subseteq Waiting(queues[q]) /\ Flying(P) \subseteq Flying(queues[q])
        /\ \A m \in Waiting(queues[q]) : m \in Waiting(P) \/ m.id \in gone'
        /\ \A m \in Flying(queues[q]) : m \in Flying(P) \/ m.id \in gone'
    BY <1>2, <1>4, <2>1
  <2>4. \A a \in Attempts : P.receive_attempt_cache[a].expiry <= now
    BY <1>3, <2>1
  <2> QED BY <1>4, <2>1, <2>2, <2>3, <2>4, DropEvolves
<1>5. CASE \E target \in Queues \cup {NoQueue} : CreateQueue(q, target)
  <2>1. PICK target \in Queues \cup {NoQueue} : CreateQueue(q, target)
    BY <1>5
  <2>2. /\ queues' = [queues EXCEPT ![q] = NewQueue(target)] /\ minted' = minted
        /\ q \notin live
    BY <2>1 DEF CreateQueue
  <2>3. Holds(Q) \subseteq gone'
    BY <2>2 DEF Accounts
  <2> QED BY <1>4, <2>2, <2>3
<1>6. CASE DeleteQueue(q)
  <2>1. /\ queues' = [queues EXCEPT ![q] = NewQueue(NoQueue)] /\ minted' = minted
        /\ Holds(Q) \subseteq gone' /\ NoQueue \in Queues \cup {NoQueue}
    BY <1>6 DEF DeleteQueue, Holds
  <2> QED BY <1>4, <2>1
<1>7. CASE PurgeQueue(q)
  <2> DEFINE P == [queues[q] EXCEPT !.messages = <<>>, !.inflight = <<>>]
  <2>1. queues' = [queues EXCEPT ![q] = P] /\ minted' = minted /\ Holds(Q) \subseteq gone'
    BY <1>7 DEF PurgeQueue, Holds
  <2>2. P \in Queue /\ Waiting(P) = {} /\ Flying(P) = {} /\ SameHandles(P, Q)
    BY <1>1, EmptiedFields
  <2> HIDE DEF P
  <2>3. /\ Waiting(P) \subseteq Waiting(queues[q]) /\ Flying(P) \subseteq Flying(queues[q])
        /\ \A m \in Waiting(queues[q]) : m \in Waiting(P) \/ m.id \in gone'
        /\ \A m \in Flying(queues[q]) : m \in Flying(P) \/ m.id \in gone'
    BY <1>2, <2>1, <2>2
  <2> QED BY <2>1, <2>2, <2>3, DropEvolves DEF SameHandles
<1> QED BY <1>5, <1>6, <1>7

\* The retention period on every queue.
LEMMA TickExpirationEvolves == TypeOK /\ Accounts /\ TickExpiration => Evolves
<1> SUFFICES ASSUME TypeOK, Accounts, TickExpiration, NEW q \in Queues
             PROVE  EvolvesTo(q, queues'[q])
  BY DEF Evolves
<1> DEFINE Q == queues[q]
           P == DropExpired(Q)
<1>1. Q \in Queue /\ Tidy(Q)
  BY DEF TypeOK, Accounts, Spread
<1>2. /\ queues'[q] = (IF q \in live THEN P ELSE Q) /\ minted' = minted
      /\ q \in live => ExpiredIds(Q) \subseteq gone'
  BY DEF TickExpiration
<1>3. /\ P \in Queue /\ SameHandles(P, Q)
      /\ Waiting(P) = Waiting(Q) \cap Fresh /\ Flying(P) = Flying(Q) \cap Fresh
      /\ Holds(P) = Holds(Q) \ ExpiredIds(Q) /\ Tidy(P)
  BY <1>1, DropExpiredFields
<1> HIDE DEF P
<1>4. \A i \in Holds(queues[q]) : minted'[i] = minted[i]
  BY <1>2
<1>5. CASE q \notin live
  <2>1. EvolvesTo(q, Q)
    BY <1>1, <1>4, SameEvolves DEF SameLists
  <2> QED BY <1>2, <1>5, <2>1
<1>6. CASE q \in live
  <2>1. /\ Ids(Q.messages) = {m.id : m \in Waiting(Q)} /\ Ids(Q.inflight) = {m.id : m \in Flying(Q)}
        /\ Ids(P.messages) = {m.id : m \in Waiting(P)} /\ Ids(P.inflight) = {m.id : m \in Flying(P)}
    BY IdsElems DEF Waiting, Flying
  <2>2. /\ \A m, n \in Flying(Q) : m.id = n.id => m = n
        /\ \A m, n \in Waiting(Q) : m.id = n.id => m = n
        /\ \A m \in Flying(Q), n \in Waiting(Q) : m.id # n.id
    BY <1>1, <2>1, DistinctElems DEF Tidy, Waiting, Flying
  <2>3. \A m \in Waiting(Q) \cup Flying(Q) : m.id \in Holds(P) \/ m.id \in gone'
    BY <1>2, <1>3, <1>6, <2>1 DEF Holds
  <2>4. /\ \A m \in Waiting(Q) : m \in Waiting(P) \/ m.id \in gone'
        /\ \A m \in Flying(Q) : m \in Flying(P) \/ m.id \in gone'
    BY <1>3, <2>1, <2>2, <2>3 DEF Holds
  <2>5. EvolvesTo(q, P)
    BY <1>3, <1>4, <2>4, LossEvolves DEF SameHandles
  <2> QED BY <1>2, <1>6, <2>5
<1> QED BY <1>5, <1>6

\* A move without a rate.
LEMMA RedriveNowEvolves ==
    ASSUME TypeOK, Accounts, NEW src \in Queues, NEW dest \in Queues \cup {NoQueue},
           RedriveNow(src, dest)
    PROVE  Evolves
<1>0. PICK M \in [Queues -> Seq(Message)] : SharedOut(src, M)
  BY RedriveSteps
<1> SUFFICES ASSUME NEW q \in Queues PROVE EvolvesTo(q, queues'[q])
  BY DEF Evolves
<1> DEFINE Q == queues[q]
           P == IF q = src THEN Emptied(Q) ELSE Q
           s == M[q]
<1>1. /\ src \in RedriveSources /\ queues'[q] = Arrive(P, s)
      /\ Elems(s) \subseteq {Redriven(m) : m \in Waiting(queues[src])}
      /\ UNION {Ids(M[p]) : p \in Queues} = Ids(queues[src].messages)
      /\ minted' = minted
  BY <1>0 DEF SharedOut
<1>2. Q \in Queue /\ s \in Seq(Message) /\ Ids(s) \subseteq Ids(queues[src].messages)
  BY <1>1 DEF TypeOK
<1>3. \A m \in Elems(s) : WaitingFrom(q, m) /\ minted'[m.id] = minted[m.id]
  BY <1>1 DEF WaitingFrom
<1>4. P \in Queue /\ EvolvesTo(q, P) /\ Flying(P) = Flying(Q)
  <2>1. CASE q # src
    <3>1. \A i \in Holds(queues[q]) : minted'[i] = minted[i]
      BY <1>1
    <3>2. EvolvesTo(q, Q)
      BY <1>2, <3>1, SameEvolves DEF SameLists
    <3> QED BY <1>2, <2>1, <3>2
  <2>2. CASE q = src
    <3> DEFINE E == Emptied(Q)
    <3>1. E \in Queue /\ Waiting(E) = {} /\ Flying(E) = Flying(Q) /\ E.inflight = Q.inflight /\ SameHandles(E, Q)
      BY <1>2, EmptiedWaiting
    <3> HIDE DEF E
    <3>2. \A m \in Waiting(E) : WaitingFrom(q, m) /\ minted'[m.id] = minted[m.id]
      BY <3>1
    <3>3. \A m \in Flying(E) : FlyingFrom(q, E, m)
      BY <1>1, <3>1 DEF FlyingFrom, SameHandles
    <3>4. \A m \in Flying(Q) : FlyingStays(q, E, m)
      BY <3>1 DEF FlyingStays
    <3>5. \A m \in Waiting(Q) : WaitingStays(q, E, m)
      BY <1>1, <2>2 DEF WaitingStays
    <3>6. \A i \in MsgIds : HandlesStay(q, E, i)
      BY <3>1 DEF HandlesStay, SameHandles
    <3>7. \A b \in Attempts : AttemptStays(q, E, b)
      BY <3>1 DEF AttemptStays, SameHandles
    <3>8. EvolvesTo(q, E)
      BY <3>2, <3>3, <3>4, <3>5, <3>6, <3>7 DEF EvolvesTo
    <3> QED BY <2>2, <3>1, <3>8 DEF E
  <2> QED BY <2>1, <2>2
<1> HIDE DEF P, s
<1>5. \A m \in Flying(Q) : FlyingStays(q, P, m)
  BY <1>4 DEF EvolvesTo
<1>6. \A i \in Ids(s) \cap Ids(queues[q].inflight) : i \in Ids(P.inflight)
  BY <1>4, IdsElems DEF Flying
<1>7. EvolvesTo(q, Arrive(P, s))
  BY <1>2, <1>3, <1>4, <1>5, <1>6, ArriveEvolves
<1> QED BY <1>1, <1>7

\* What every step does to the messages, and to the histories.
Grows ==
    /\ gone \subseteq gone' /\ sent <= sent' /\ now <= now'
    /\ \A i \in MsgIds : \/ minted'[i] = minted[i]
                         \/ i \in Everything(queues) /\ minted'[i] = minted[i] + 1

\* A step that does not touch the queues.
LEMMA StillEvolves == TypeOK /\ UNCHANGED <<queues, minted>> => Evolves
<1> SUFFICES ASSUME TypeOK, UNCHANGED <<queues, minted>>, NEW q \in Queues PROVE EvolvesTo(q, queues'[q])
  BY DEF Evolves
<1>1. queues[q] \in Queue /\ \A i \in Holds(queues[q]) : minted'[i] = minted[i]
  BY DEF TypeOK
<1>2. EvolvesTo(q, queues[q])
  BY <1>1, SameEvolves DEF SameLists
<1> QED BY <1>2

\* Every step.
LEMMA StepEvolves == TypeOK /\ Accounts /\ [Next]_vars => Evolves
<1> SUFFICES ASSUME TypeOK, Accounts, [Next]_vars PROVE Evolves
  OBVIOUS
<1>1. CASE UNCHANGED vars \/ Tick
  BY <1>1, StillEvolves DEF vars, Tick
<1>2. CASE TickExpiration
  BY <1>2, TickExpirationEvolves
<1>3. ASSUME NEW q \in Queues, Send(q) PROVE Evolves
  <2>1. PICK e \in Entries :
          \/ SendMessage(q, e) \/ SendDuplicate(q, e) \/ SendEncryptFails(q, e)
          \/ \E e2 \in Entries : SendMessageBatch(q, e, e2)
    BY <1>3 DEF Send
  <2> QED BY <2>1, SendMessageEvolves, QuietEvolves, SendMessageBatchEvolves
<1>4. ASSUME NEW q \in Queues, UseHandle(q) PROVE Evolves
  <2>1. \/ \E ids : DeleteMessageBatch(q, ids)
        \/ \E ids : \E t \in NewTimeouts : ChangeMessageVisibilityBatch(q, ids, t)
    BY <1>4 DEF UseHandle, DeleteMessage, ChangeMessageVisibility
  <2> QED BY <2>1, DeleteMessageBatchEvolves, ChangeVisibilityEvolves
<1>5. ASSUME NEW q \in Queues, Manage(q) PROVE Evolves
  <2>1. \/ \E target \in Queues \cup {NoQueue} : CreateQueue(q, target)
        \/ \E target \in Queues \cup {NoQueue} : SetRedrivePolicy(q, target)
        \/ DeleteQueue(q) \/ PurgeQueue(q)
    BY <1>5 DEF Manage
  <2> QED BY <2>1, EmptyEvolves, QuietEvolves
<1>6. ASSUME NEW q \in Queues, Receive(q) PROVE Evolves
  <2>1. PICK max \in BatchSizes, a \in Attempts \cup {NoAttempt} :
          \/ \E vt \in Timeouts : ReceiveMessage(q, max, vt, a)
          \/ ReceiveDecryptFails(q, max, a)
          \/ ReplayReceive(q, a)
    BY <1>6 DEF Receive
  <2>2. max \in Nat /\ Timeouts \subseteq Nat
    BY ConstantsAssumption
  <2> QED BY <2>1, <2>2, ReceiveMessageEvolves, ReceiveDecryptFailsEvolves, QuietEvolves
<1>7. ASSUME NEW q \in Queues,
             (\E g \in Groups \cup {NoGroup} : Deliver(q, g)) \/ DeliverEncryptFails(q)
      PROVE  Evolves
  BY <1>7, DeliverEvolves, QuietEvolves
<1>8. ASSUME NEW q \in Queues, ForceDlq(q) PROVE Evolves
  BY <1>8, ForceDlqEvolves
<1>9. ASSUME NEW q \in Queues, NEW dest \in Queues \cup {NoQueue}, RedriveNow(q, dest) PROVE Evolves
  BY <1>9, RedriveNowEvolves
<1> QED BY <1>1, <1>2, <1>3, <1>4, <1>5, <1>6, <1>7, <1>8, <1>9 DEF Next

\* Messages that are handed out were in a queue.
LEMMA MintedStep ==
    ASSUME TypeOK, Accounts, NEW q \in Queues, NEW max \in Nat, NEW vt, NEW a,
           ReceiveMessage(q, max, vt, a)
    PROVE  \A i \in MsgIds : \/ minted'[i] = minted[i]
                             \/ i \in Everything(queues) /\ minted'[i] = minted[i] + 1
<1> DEFINE R == Refreshed(q)
           r == Received(q, R, max)
<1>1. queues[q] \in Queue /\ Tidy(queues[q])
  BY DEF TypeOK, Accounts, Spread
<1>2. minted' = [i \in MsgIds |-> IF i \in Ids(r) THEN minted[i] + 1 ELSE minted[i]]
  BY DEF ReceiveMessage
<1>3. R \in Queue /\ Holds(R) \subseteq Holds(queues[q])
  BY <1>1, RefreshedOrigins
<1> HIDE DEF R
<1>4. Elems(r) \subseteq Waiting(R)
  BY <1>3, Selection DEF Ripe
<1> HIDE DEF r
<1>5. Ids(r) \subseteq Ids(R.messages)
  BY <1>4, IdsElems DEF Waiting
<1>6. Ids(r) \subseteq Everything(queues)
  BY <1>3, <1>5 DEF Holds, Everything
<1> QED BY <1>2, <1>6

\* The histories only grow.
LEMMA StepGrows == TypeOK /\ Accounts /\ [Next]_vars => Grows
<1> SUFFICES ASSUME TypeOK, Accounts, [Next]_vars PROVE Grows
  OBVIOUS
<1>0. now \in Nat /\ sent \in Nat
  BY DEF TypeOK
<1>1. ASSUME UNCHANGED now, gone \subseteq gone', sent' = sent \/ (sent' \in Nat /\ sent' >= sent), minted' = minted
      PROVE  Grows
  BY <1>0, <1>1 DEF Grows
<1>2. CASE UNCHANGED vars \/ TickExpiration
  BY <1>1, <1>2 DEF vars, TickExpiration
<1>3. CASE Tick
  BY <1>0, <1>3 DEF Tick, Grows
<1>4. ASSUME NEW q \in Queues, Send(q) PROVE Grows
  <2>1. PICK e \in Entries :
          \/ SendMessage(q, e) \/ SendDuplicate(q, e) \/ SendEncryptFails(q, e)
          \/ \E e2 \in Entries : SendMessageBatch(q, e, e2)
    BY <1>4 DEF Send
  <2>2. CASE \E e2 \in Entries : SendMessageBatch(q, e, e2)
    <3>1. PICK e2 \in Entries : SendMessageBatch(q, e, e2)
      BY <2>2
    <3>2. PICK n1 \in {0, 1}, n2 \in {0, 1}, Q1 \in Queue :
              /\ sent' = sent + n1 + n2 /\ UNCHANGED <<now, live, minted, gone>>
      BY <3>1, BatchSteps
    <3>3. sent' \in Nat /\ sent' >= sent
      BY <1>0, <3>2
    <3> QED BY <1>1, <3>2, <3>3
  <2>3. CASE SendMessage(q, e)
    <3>1. sent' \in Nat /\ sent' >= sent
      BY <1>0, <2>3 DEF SendMessage
    <3> QED BY <1>1, <2>3, <3>1 DEF SendMessage
  <2> QED BY <1>1, <2>1, <2>2, <2>3 DEF SendDuplicate, SendEncryptFails
<1>5. ASSUME NEW q \in Queues, UseHandle(q) PROVE Grows
  BY <1>1, <1>5 DEF UseHandle, DeleteMessage, ChangeMessageVisibility, DeleteMessageBatch, ChangeMessageVisibilityBatch
<1>6. ASSUME NEW q \in Queues, Manage(q) PROVE Grows
  BY <1>1, <1>6 DEF Manage, CreateQueue, DeleteQueue, PurgeQueue, SetRedrivePolicy
<1>7. ASSUME NEW q \in Queues, Receive(q) PROVE Grows
  <2>1. PICK max \in BatchSizes, a \in Attempts \cup {NoAttempt} :
          \/ \E vt \in Timeouts : ReceiveMessage(q, max, vt, a)
          \/ ReceiveDecryptFails(q, max, a)
          \/ ReplayReceive(q, a)
    BY <1>7 DEF Receive
  <2>2. max \in Nat
    BY ConstantsAssumption
  <2>3. CASE \E vt \in Timeouts : ReceiveMessage(q, max, vt, a)
    <3>1. PICK vt \in Timeouts : ReceiveMessage(q, max, vt, a)
      BY <2>3
    <3>2. UNCHANGED <<now, sent>> /\ gone \subseteq gone'
      BY <3>1 DEF ReceiveMessage
    <3> QED BY <1>0, <2>2, <3>1, <3>2, MintedStep DEF Grows
  <2> QED BY <1>1, <2>1, <2>3 DEF ReceiveDecryptFails, ReplayReceive
<1>8. ASSUME NEW q \in Queues,
             (\E g \in Groups \cup {NoGroup} : Deliver(q, g)) \/ DeliverEncryptFails(q)
      PROVE  Grows
  <2>1. sent' = sent \/ sent' = sent + 1
    BY <1>8 DEF Deliver, DeliverEncryptFails
  <2>2. sent' = sent \/ (sent' \in Nat /\ sent' >= sent)
    BY <1>0, <2>1
  <2> QED BY <1>1, <1>8, <2>2 DEF Deliver, DeliverEncryptFails
<1>9. ASSUME NEW q \in Queues, ForceDlq(q) PROVE Grows
  BY <1>1, <1>9 DEF ForceDlq
<1>10. ASSUME NEW q \in Queues, NEW dest \in Queues \cup {NoQueue}, RedriveNow(q, dest) PROVE Grows
  BY <1>1, <1>10 DEF RedriveNow
<1> QED BY <1>2, <1>3, <1>4, <1>5, <1>6, <1>7, <1>8, <1>9, <1>10 DEF Next

\* The messages a receive may take, as they were before.
LEMMA ReadyFields ==
    ASSUME TypeOK, NEW q \in Queues, NEW w \in Ready(q)
    PROVE  /\ w \in Message
           /\ \E m \in Waiting(queues[q]) \cup Flying(queues[q]) :
                 m.id = w.id /\ m.receive_count = w.receive_count /\ m.group = w.group
           /\ w.id \in Holds(queues[q])
           /\ w \in Waiting(queues[q]) \/ w.receipt_handle = None
<1> DEFINE Q == queues[q]
<1>1. Waiting(Q) \subseteq Message /\ Flying(Q) \subseteq Message
  BY QueueFields DEF TypeOK
<1>2. \A m \in Waiting(Q) \cup Flying(Q) : m.id \in Holds(Q)
  BY IdsElems DEF Holds, Waiting, Flying
<1>3. CASE w \in Waiting(Q)
  BY <1>1, <1>2, <1>3
<1>4. CASE w \notin Waiting(Q)
  <2>1. PICK m \in Flying(Q) : w = Unleased(m)
    BY <1>4 DEF Ready
  <2> QED BY <1>1, <1>2, <2>1, UnleasedFields DEF Same
<1> QED BY <1>3, <1>4

\* The first state has no messages.
LEMMA InitEmpty ==
    ASSUME Init, NEW q \in Queues
    PROVE  /\ Waiting(queues[q]) = {} /\ Flying(queues[q]) = {} /\ Holds(queues[q]) = {}
           /\ \A i \in MsgIds : queues[q].receipt_handle_map[i] = {}
           /\ \A a \in Attempts : queues[q].receive_attempt_cache[a] = NoReceive
           /\ queues[q].redrive = InitialRedrive[q]
<1>1. queues[q] = NewQueue(InitialRedrive[q]) /\ InitialRedrive[q] \in Queues \cup {NoQueue}
  BY ConstantsAssumption DEF Init
<1> QED BY <1>1, NewQueueFields

-----------------------------------------------------------------------------
(* A queue and its dead-letter queue. *)

\* The usual arrangement: redrive policies are set once, dead-letter queues have
\* none of their own, and no messages are moved back.
TwoLevel ==
    /\ ManagedQueues = {} /\ RedriveSources = {}
    /\ \A q \in Queues : InitialRedrive[q] # NoQueue => InitialRedrive[InitialRedrive[q]] = NoQueue

\* Message i has left queue q, to which nothing comes back.
Away(q, i) ==
    TwoLevel /\ InitialRedrive[q] # NoQueue /\ i \in 1..sent /\ i \notin Holds(queues[q])

\* Then every queue exists and has the policy it started with.
LEMMA TwoLevelSettings ==
    ASSUME TypeOK, Settings, TwoLevel
    PROVE  live = Queues /\ \A q \in Queues : queues[q].redrive = InitialRedrive[q]
  BY DEF TypeOK, Settings, TwoLevel

\* Where a message that waits after a step was: in the queue; nowhere; or, its
\* receives exhausted, in a queue whose dead-letter queue this is.
LEMMA TwoLevelWaiting ==
    ASSUME TypeOK, Settings, TwoLevel, NEW q \in Queues, NEW m, WaitingFrom(q, m)
    PROVE  \/ \E w \in Waiting(queues[q]) \cup Flying(queues[q]) :
                 m.id = w.id /\ m.receive_count = w.receive_count
           \/ m.id \in (sent + 1)..sent' /\ m.receive_count = 0
           \/ \E p \in Queues : \E w \in Waiting(queues[p]) \cup Flying(queues[p]) :
                 /\ m.id = w.id /\ InitialRedrive[p] = q /\ InitialRedrive[q] = NoQueue
                 /\ w.receive_count + 1 > MaxReceiveCount
<1>1. live = Queues /\ \A p \in Queues : queues[p].redrive = InitialRedrive[p]
  BY TwoLevelSettings
<1>2. \A p \in Queues : \A w \in Waiting(queues[p]) \cup Flying(queues[p]) : w \in Message
  BY QueueFields DEF TypeOK
<1>3. RedriveSources = {} /\ ForcedQueues \subseteq Queues /\ MaxReceiveCount \in Nat
  BY ConstantsAssumption DEF TwoLevel
<1>c. \A w \in Message : w.receive_count \in Nat
  BY DEF Message
<1>4. CASE m \in Ready(q)
  BY <1>4, ReadyFields
<1>5. CASE \E w \in Waiting(queues[q]), x \in Nat :
              m = VisibleAt(w, x) /\ w.id \in Reachable(queues[q]) /\ NewTimeouts # {}
  BY <1>2, <1>5, VisibleAtFields DEF Same
<1>6. CASE \E w \in Ready(q) : m = Unleased(w) /\ IsVisible(w)
  <2>1. PICK w \in Ready(q) : m = Unleased(w)
    BY <1>6
  <2>2. m.id = w.id /\ m.receive_count = w.receive_count
    BY <2>1, ReadyFields, UnleasedFields DEF Same
  <2> QED BY <2>2, ReadyFields
<1>7. CASE \E p \in live : \E w \in Ready(p) :
              /\ m = Restarted(w) /\ Exhausted(queues[p], w)
              /\ q = IF queues[p].redrive \in live THEN queues[p].redrive ELSE p
  <2>1. PICK p \in Queues : \E w \in Ready(p) :
              /\ m = Restarted(w) /\ Exhausted(queues[p], w)
              /\ q = IF queues[p].redrive \in live THEN queues[p].redrive ELSE p
    BY <1>1, <1>7
  <2>2. PICK w \in Ready(p) :
              /\ m = Restarted(w) /\ Exhausted(queues[p], w)
              /\ q = IF queues[p].redrive \in live THEN queues[p].redrive ELSE p
    BY <2>1
  <2>3. w.receive_count + 1 > MaxReceiveCount /\ InitialRedrive[p] # NoQueue
    BY <1>1, <2>2 DEF Exhausted
  <2>4. InitialRedrive[p] \in Queues
    BY <2>3, ConstantsAssumption
  <2>5. InitialRedrive[p] = q /\ InitialRedrive[q] = NoQueue
    BY <1>1, <2>2, <2>3, <2>4 DEF TwoLevel
  <2>6. PICK v \in Waiting(queues[p]) \cup Flying(queues[p]) :
              v.id = w.id /\ v.receive_count = w.receive_count
    BY ReadyFields
  <2>7. m.id = w.id
    BY <2>2, ReadyFields, RestartedFields DEF Same
  <2> QED BY <2>3, <2>5, <2>6, <2>7
<1>8. CASE \E p \in ForcedQueues : \E w \in Waiting(queues[p]) \cup Flying(queues[p]) :
              m = Unleased(w) /\ w \in Full /\ q = queues[p].redrive /\ q \in live
  <2>1. PICK p \in Queues : \E w \in Waiting(queues[p]) \cup Flying(queues[p]) :
              m = Unleased(w) /\ w \in Full /\ q = queues[p].redrive /\ q \in live
    BY <1>3, <1>8
  <2>2. PICK w \in Waiting(queues[p]) \cup Flying(queues[p]) :
              m = Unleased(w) /\ w \in Full /\ q = queues[p].redrive
    BY <2>1
  <2>3. m.id = w.id /\ w.receive_count \in Nat /\ w.receive_count >= MaxReceiveCount
    BY <1>2, <1>c, <2>2, UnleasedFields DEF Same, Full
  <2>4. InitialRedrive[p] = q /\ InitialRedrive[p] # NoQueue
    BY <1>1, <2>2, ConstantsAssumption
  <2>5. InitialRedrive[q] = NoQueue
    BY <2>4 DEF TwoLevel
  <2>6. w.receive_count + 1 > MaxReceiveCount
    BY <1>3, <2>3
  <2> QED BY <2>3, <2>4, <2>5, <2>6
<1> QED BY <1>3, <1>4, <1>5, <1>6, <1>7, <1>8 DEF WaitingFrom

\* A message in flight after a step was in the queue.
LEMMA FlyingWas ==
    ASSUME TypeOK, NEW q \in Queues, NEW P, NEW m, FlyingFrom(q, P, m)
    PROVE  m.id \in Holds(queues[q])
<1>1. \A w \in Waiting(queues[q]) \cup Flying(queues[q]) : w \in Message /\ w.id \in Holds(queues[q])
  BY QueueFields, IdsElems DEF TypeOK, Holds, Waiting, Flying
<1>2. now \in Nat /\ minted \in [MsgIds -> Nat]
  BY DEF TypeOK
<1>3. \A w \in Ready(q) : w \in Message /\ w.id \in Holds(queues[q])
  BY ReadyFields
<1>4. \A w \in Message, vt \in Nat : HandOut(w, vt).id = w.id
  BY <1>2, HandOutFields DEF Same
<1>5. \A w \in Message, x \in Nat : VisibleAt(w, x).id = w.id
  BY VisibleAtFields DEF Same
<1> QED BY <1>1, <1>3, <1>4, <1>5 DEF FlyingFrom

\* A queue with a redrive policy gains new messages only.
LEMMA OnlyNew ==
    ASSUME TypeOK, Settings, TwoLevel, Evolves, NEW q \in Queues, InitialRedrive[q] # NoQueue,
           NEW i \in Holds(queues'[q])
    PROVE  i \in Holds(queues[q]) \/ i \in (sent + 1)..sent'
<1> DEFINE P == queues'[q]
<1>1. EvolvesTo(q, P)
  BY DEF Evolves
<1>2. \A w \in Waiting(queues[q]) \cup Flying(queues[q]) : w.id \in Holds(queues[q])
  BY IdsElems DEF Holds, Waiting, Flying
<1>3. \E m \in Waiting(P) \cup Flying(P) : m.id = i
  BY IdsElems DEF Holds, Waiting, Flying
<1> HIDE DEF P
<1>4. PICK m \in Waiting(P) \cup Flying(P) : m.id = i
  BY <1>3
<1>5. CASE m \in Waiting(P)
  <2>1. WaitingFrom(q, m)
    BY <1>1, <1>5 DEF EvolvesTo
  <2> QED BY <1>2, <1>4, <2>1, TwoLevelWaiting
<1>6. CASE m \in Flying(P)
  <2>1. FlyingFrom(q, P, m)
    BY <1>1, <1>6 DEF EvolvesTo
  <2> QED BY <1>4, <2>1, FlyingWas
<1> QED BY <1>4, <1>5, <1>6

\* A message that has left its queue does not come back.
LEMMA AwayStays ==
    ASSUME TypeOK, Settings, Evolves, Grows, sent' \in Nat, NEW q \in Queues, NEW i, Away(q, i)
    PROVE  TwoLevel /\ InitialRedrive[q] # NoQueue /\ i \in 1..sent' /\ i \notin Holds(queues'[q])
<1>1. TwoLevel /\ InitialRedrive[q] # NoQueue /\ i \in 1..sent /\ i \notin Holds(queues[q])
  BY DEF Away
<1>2. sent \in Nat /\ sent <= sent'
  BY DEF TypeOK, Grows
<1>3. i \in 1..sent' /\ i \notin (sent + 1)..sent'
  BY <1>1, <1>2
<1> QED BY <1>1, <1>3, OnlyNew

-----------------------------------------------------------------------------
(* Receipt handles. *)

\* A waiting message has no handle; a message in flight has the one it was handed
\* out under, and the map knows that one only; the map knows no handle of any
\* other message that is or comes back here.
HandleInv ==
    \A q \in Queues :
        /\ \A m \in Waiting(queues[q]) : m.receipt_handle = None
        /\ \A m \in Flying(queues[q]) :
              /\ queues[q].receipt_handle_map[m.id] = {m.receipt_handle}
              /\ m.receipt_handle \in 1..minted[m.id]
        /\ \A i \in MsgIds : \/ queues[q].receipt_handle_map[i] = {}
                             \/ i \in gone
                             \/ i \in Ids(queues[q].inflight)
                             \/ Away(q, i)

\* No handle acts on a message that waits.
LEMMA WaitingUnreachable ==
    ASSUME TypeOK, Accounts, HandleInv, NEW q \in Queues, NEW i \in Ids(queues[q].messages)
    PROVE  queues[q].receipt_handle_map[i] = {} /\ i \notin Reachable(queues[q])
<1> DEFINE Q == queues[q]
<1>1. Q \in Queue /\ Tidy(Q) /\ i \in MsgIds /\ minted[i] \in Nat
  <2>1. Q \in Queue /\ Tidy(Q)
    BY DEF TypeOK, Accounts, Spread
  <2>2. i \in MsgIds
    BY <2>1, QueueFields DEF Holds
  <2> QED BY <2>1, <2>2 DEF TypeOK
<1>2. i \notin Ids(Q.inflight) /\ i \notin gone
  BY <1>1 DEF Tidy, Accounts, Everything, Holds
<1>3. Q.receipt_handle_map[i] = {}
  BY <1>1, <1>2 DEF HandleInv, Away, Holds
<1>4. \A j \in DOMAIN Q.inflight : Q.inflight[j].id # i
  BY <1>2 DEF Ids
<1>5. \A j \in DOMAIN Q.messages : Q.messages[j].receipt_handle = None
  BY DEF HandleInv, Waiting, Elems
<1>6. \A n \in 1..minted[i] : n # None
  BY <1>1 DEF None
<1> QED BY <1>3, <1>4, <1>5, <1>6 DEF Reachable, Resolves

\* The handles of a step.
LEMMA HandleStep ==
    /\ ForcedQueues = {} \/ TwoLevel
    /\ TypeOK /\ sent' \in Nat /\ Accounts /\ Settings /\ Evolves /\ Grows /\ HandleInv
    => HandleInv'
<1> SUFFICES ASSUME ForcedQueues = {} \/ TwoLevel, TypeOK, sent' \in Nat, Accounts, Settings,
                    Evolves, Grows, HandleInv, NEW q \in Queues
             PROVE  /\ \A m \in Waiting(queues'[q]) : m.receipt_handle = None
                    /\ \A m \in Flying(queues'[q]) :
                          /\ queues'[q].receipt_handle_map[m.id] = {m.receipt_handle}
                          /\ m.receipt_handle \in 1..minted'[m.id]
                    /\ \A i \in MsgIds : \/ queues'[q].receipt_handle_map[i] = {}
                                         \/ i \in gone'
                                         \/ i \in Ids(queues'[q].inflight)
                                         \/ /\ TwoLevel /\ InitialRedrive[q] # NoQueue
                                            /\ i \in 1..sent' /\ i \notin Holds(queues'[q])
  BY DEF HandleInv, Waiting, Flying, Elems, Ids, Away, Holds
<1> DEFINE Q == queues[q]
           P == queues'[q]
<1>1. EvolvesTo(q, P)
  BY DEF Evolves
<1>2. /\ Waiting(Q) \subseteq Message /\ Flying(Q) \subseteq Message /\ now \in Nat
      /\ minted \in [MsgIds -> Nat]
  BY QueueFields DEF TypeOK
<1>3. \A p \in Queues : \A m \in Waiting(queues[p]) : m.receipt_handle = None /\ m \in Message
  BY QueueFields DEF HandleInv, TypeOK
<1>4. \A p \in Queues : \A m \in Ready(p) : m.receipt_handle = None /\ m \in Message
  BY <1>3, ReadyFields
<1> HIDE DEF P
<1>5. ASSUME NEW m \in Waiting(P) PROVE m.receipt_handle = None
  <2>1. WaitingFrom(q, m)
    BY <1>1 DEF EvolvesTo
  <2>2. ASSUME NEW w \in Message, NEW x \in Nat PROVE VisibleAt(w, x).receipt_handle = w.receipt_handle
    BY VisibleAtFields
  <2>3. ASSUME NEW w \in Message PROVE /\ Unleased(w).receipt_handle = None
                                       /\ Restarted(w).receipt_handle = None
                                       /\ Redriven(w).receipt_handle = w.receipt_handle
    BY UnleasedFields, RestartedFields, RedrivenFields
  <2>4. live \subseteq Queues /\ RedriveSources \subseteq Queues /\ ForcedQueues \subseteq Queues
    BY ConstantsAssumption DEF TypeOK
  <2>5. \A p \in Queues : Flying(queues[p]) \subseteq Message
    BY QueueFields DEF TypeOK
  <2> QED BY <1>2, <1>3, <1>4, <2>1, <2>2, <2>3, <2>4, <2>5, SMTT(30) DEF WaitingFrom
<1>6. ASSUME NEW m \in Flying(P)
      PROVE  P.receipt_handle_map[m.id] = {m.receipt_handle} /\ m.receipt_handle \in 1..minted'[m.id]
  <2>1. FlyingFrom(q, P, m)
    BY <1>1 DEF EvolvesTo
  <2>2. CASE /\ \/ m \in Flying(Q)
                \/ \E f \in Flying(Q), x \in Nat : m = VisibleAt(f, x) /\ NewTimeouts # {}
             /\ P.receipt_handle_map[m.id] = Q.receipt_handle_map[m.id]
             /\ minted'[m.id] = minted[m.id]
    <3>a. ASSUME NEW f \in Message, NEW x \in Nat
          PROVE  VisibleAt(f, x).id = f.id /\ VisibleAt(f, x).receipt_handle = f.receipt_handle
      BY VisibleAtFields DEF Same
    <3>1. PICK f \in Flying(Q) : f.id = m.id /\ f.receipt_handle = m.receipt_handle
      BY <1>2, <2>2, <3>a
    <3> QED BY <2>2, <3>1 DEF HandleInv
  <2>3. CASE \E w \in Ready(q), vt \in Nat :
          /\ m = HandOut(w, vt) /\ IsVisible(w) /\ ~Exhausted(Q, w)
          /\ \/ P.receipt_handle_map[m.id] = {minted[m.id] + 1}
             \/ /\ P.receipt_handle_map[m.id] = Q.receipt_handle_map[m.id] \cup {minted[m.id] + 1}
                /\ w \in Waiting(Q)
          /\ minted'[m.id] = minted[m.id] + 1
    <3>1. PICK w \in Ready(q), vt \in Nat :
          /\ m = HandOut(w, vt)
          /\ \/ P.receipt_handle_map[m.id] = {minted[m.id] + 1}
             \/ /\ P.receipt_handle_map[m.id] = Q.receipt_handle_map[m.id] \cup {minted[m.id] + 1}
                /\ w \in Waiting(Q)
          /\ minted'[m.id] = minted[m.id] + 1
      BY <2>3
    <3>2. w \in Message /\ w.id \in MsgIds /\ minted[w.id] \in Nat
      BY <1>2, <1>4 DEF Message
    <3>3. m.id = w.id /\ m.receipt_handle = minted[m.id] + 1
      BY <1>2, <3>1, <3>2, HandOutFields, ZenonT(60) DEF Same
    <3>4. w \in Waiting(Q) => Q.receipt_handle_map[m.id] = {}
      <4>1. w \in Waiting(Q) => w.id \in Ids(Q.messages)
        BY IdsElems DEF Waiting
      <4> QED BY <3>3, <4>1, WaitingUnreachable
    <3>5. P.receipt_handle_map[m.id] = {minted[m.id] + 1}
      BY <3>1, <3>4
    <3>6. m.receipt_handle \in 1..minted'[m.id]
      BY <3>1, <3>2, <3>3
    <3> QED BY <3>3, <3>5, <3>6
  <2> QED BY <2>1, <2>2, <2>3 DEF FlyingFrom
<1>7. ASSUME NEW i \in MsgIds
      PROVE  \/ P.receipt_handle_map[i] = {} \/ i \in gone' \/ i \in Ids(P.inflight)
             \/ TwoLevel /\ InitialRedrive[q] # NoQueue /\ i \in 1..sent' /\ i \notin Holds(P)
  <2>1. HandlesStay(q, P, i)
    BY <1>1 DEF EvolvesTo
  <2>2. gone \subseteq gone'
    BY DEF Grows
  <2>3. CASE Away(q, i)
    BY <2>3, AwayStays DEF P
  <2>4. ASSUME q \in ForcedQueues, Q.redrive \in live, i \in Ids(Q.inflight),
               Q.redrive = q \/ i \notin Holds(P)
        PROVE  TwoLevel /\ InitialRedrive[q] # NoQueue /\ i \in 1..sent' /\ i \notin Holds(P)
    <3>1. TwoLevel
      BY <2>4
    <3>2. Q.redrive = InitialRedrive[q] /\ live = Queues
      BY <3>1, TwoLevelSettings
    <3>3. InitialRedrive[q] # NoQueue /\ InitialRedrive[q] # q
      BY <2>4, <3>1, <3>2, ConstantsAssumption DEF TwoLevel
    <3>4. i \in 1..sent
      BY <2>4 DEF Accounts, Everything, Holds
    <3>5. sent \in Nat /\ sent <= sent'
      BY DEF TypeOK, Grows
    <3> QED BY <2>4, <3>1, <3>2, <3>3, <3>4, <3>5
  <2> QED BY <2>1, <2>2, <2>3, <2>4 DEF HandlesStay, HandleInv
<1> QED BY <1>5, <1>6, <1>7 DEF P

\* The invariant gives the property.
LEMMA CurrentHandles == TypeOK /\ Accounts /\ HandleInv => OnlyCurrentHandle
<1> SUFFICES ASSUME TypeOK, Accounts, HandleInv, NEW q \in live
             PROVE  /\ \A k \in DOMAIN queues[q].messages :
                          queues[q].messages[k].id \notin Reachable(queues[q])
                    /\ \A k \in DOMAIN queues[q].inflight :
                          {n \in 1..minted[queues[q].inflight[k].id] :
                               Resolves(queues[q], queues[q].inflight[k].id, n)}
                              = {queues[q].inflight[k].receipt_handle}
  BY DEF OnlyCurrentHandle
<1> DEFINE Q == queues[q]
<1>1. q \in Queues
  BY DEF TypeOK
<1>2. ASSUME NEW k \in DOMAIN Q.messages PROVE Q.messages[k].id \notin Reachable(Q)
  <2>1. Q.messages[k].id \in Ids(Q.messages)
    BY DEF Ids
  <2> QED BY <1>1, <2>1, WaitingUnreachable
<1>3. ASSUME NEW k \in DOMAIN Q.inflight
      PROVE  {n \in 1..minted[Q.inflight[k].id] : Resolves(Q, Q.inflight[k].id, n)}
                = {Q.inflight[k].receipt_handle}
  <2> DEFINE m == Q.inflight[k]
             h == m.receipt_handle
  <2>1. m \in Flying(Q)
    BY DEF Flying, Elems
  <2>2. Q.receipt_handle_map[m.id] = {h} /\ h \in 1..minted[m.id]
    BY <1>1, <2>1 DEF HandleInv
  <2>3. Tidy(Q) /\ Q \in Queue
    BY <1>1 DEF TypeOK, Accounts, Spread
  <2>4. \A j \in DOMAIN Q.inflight : Q.inflight[j].id = m.id => Q.inflight[j] = m
    BY <2>3 DEF Tidy, Distinct
  <2>5. \A j \in DOMAIN Q.messages : Q.messages[j].id # m.id
    BY <2>3 DEF Tidy, Ids
  <2>6. \A n \in 1..minted[m.id] : Resolves(Q, m.id, n) <=> n = h
    BY <2>2, <2>4, <2>5 DEF Resolves
  <2> HIDE DEF m, h
  <2> QED BY <2>2, <2>6 DEF m, h
<1> QED BY <1>2, <1>3

\* Receipt handles (find_message_id_for_receipt): a message that waits can be
\* deleted or hidden through no handle, one in flight through that of its
\* current delivery only, for every number of queues, messages and consumers.
\* Where the force-dlq endpoint is used, which keeps the map of the source, for a
\* queue and its dead-letter queue.
THEOREM QueueOnlyCurrentHandle ==
    (ForcedQueues = {} \/ TwoLevel) /\ Spec => []OnlyCurrentHandle
<1> SUFFICES ASSUME ForcedQueues = {} \/ TwoLevel PROVE Spec => []OnlyCurrentHandle
  OBVIOUS
<1>1. Init => HandleInv
  BY InitEmpty DEF HandleInv
<1>2. TypeOK /\ TypeOK' /\ Accounts /\ Settings /\ HandleInv /\ [Next]_vars => HandleInv'
  <2>1. TypeOK' => sent' \in Nat
    BY DEF TypeOK
  <2> QED BY <2>1, HandleStep, StepEvolves, StepGrows
<1> QED BY <1>1, <1>2, InitKeeps, InitSettings, AccountsStep, SettingsStep, CurrentHandles, PTL DEF Spec

\* A message that arrives in a queue starts a fresh receive history there.
\* Without the force-dlq endpoint, which keeps the count.
THEOREM QueueFreshHistory == ForcedQueues = {} /\ Spec => FreshHistory
<1> SUFFICES ASSUME ForcedQueues = {} PROVE Spec => FreshHistory
  OBVIOUS
<1>1. TypeOK /\ Accounts /\ [Next]_vars =>
        [\A q \in Queues :
           \A k \in DOMAIN queues'[q].messages :
              LET m == queues'[q].messages[k]
              IN  m.id \in Ids(queues[q].messages) \cup Ids(queues[q].inflight)
                      \/ m.receive_count = 0]_vars
  <2> SUFFICES ASSUME TypeOK, Accounts, [Next]_vars, NEW q \in Queues,
                      NEW k \in DOMAIN queues'[q].messages
               PROVE  \/ queues'[q].messages[k].id \in Holds(queues[q])
                      \/ queues'[q].messages[k].receive_count = 0
    BY DEF Holds
  <2> DEFINE m == queues'[q].messages[k]
  <2>1. m \in Waiting(queues'[q])
    BY DEF Waiting, Elems
  <2>2. WaitingFrom(q, m)
    BY <2>1, StepEvolves DEF Evolves, EvolvesTo
  <2> HIDE DEF m
  <2>3. \A w \in Waiting(queues[q]) : w \in Message /\ w.id \in Holds(queues[q])
    BY QueueFields, IdsElems DEF TypeOK, Holds, Waiting
  <2>4. \A w \in Ready(q) : w \in Message /\ w.id \in Holds(queues[q])
    BY ReadyFields
  <2>5. \A p \in live : \A w \in Ready(p) : w \in Message
    BY ReadyFields DEF TypeOK
  <2>6. \A p \in RedriveSources : \A w \in Waiting(queues[p]) : w \in Message
    BY ConstantsAssumption, QueueFields DEF TypeOK
  <2>7. m.id \in Holds(queues[q]) \/ m.receive_count = 0
    BY <2>2, <2>3, <2>4, <2>5, <2>6, UnleasedFields, RestartedFields, RedrivenFields, VisibleAtFields
       DEF WaitingFrom, Same
  <2> QED BY <2>7 DEF m
<1> QED BY <1>1, InitKeeps, AccountsStep, PTL DEF Spec, FreshHistory

-----------------------------------------------------------------------------
(* Retried receives. *)

\* As long as an attempt is remembered, each message it got is in flight under
\* the handle it got, gone, or away.
ReplayInv ==
    \A q \in Queues, a \in Attempts :
        LET e == queues[q].receive_attempt_cache[a]
        IN  e.expiry > now =>
              \A i \in e.ids :
                  \/ i \in gone
                  \/ Away(q, i)
                  \/ \E m \in Flying(queues[q]) :
                        m.id = i /\ m.visible_at = e.expiry /\ m.receipt_handle = e.handle[i]

\* Every step keeps it.
LEMMA ReplayStep ==
    ASSUME NewTimeouts = {}, ForcedQueues = {} \/ TwoLevel,
           TypeOK, TypeOK', Accounts, Settings, Evolves, Grows, ReplayInv
    PROVE  ReplayInv'
<1> SUFFICES ASSUME NEW q \in Queues, NEW a \in Attempts,
                    queues'[q].receive_attempt_cache[a].expiry > now',
                    NEW i \in queues'[q].receive_attempt_cache[a].ids
             PROVE  \/ i \in gone'
                    \/ TwoLevel /\ InitialRedrive[q] # NoQueue /\ i \in 1..sent' /\ i \notin Holds(queues'[q])
                    \/ \E m \in Flying(queues'[q]) :
                          /\ m.id = i /\ m.visible_at = queues'[q].receive_attempt_cache[a].expiry
                          /\ m.receipt_handle = queues'[q].receive_attempt_cache[a].handle[i]
  BY DEF ReplayInv, Away, Flying, Elems, Holds, Ids, TwoLevel
<1> DEFINE P == queues'[q]
           Q == queues[q]
           e == P.receive_attempt_cache[a]
<1>1. EvolvesTo(q, P) /\ AttemptStays(q, P, a)
  BY DEF Evolves, EvolvesTo
<1>2. now \in Nat /\ now' \in Nat /\ now <= now' /\ gone \subseteq gone' /\ sent' \in Nat
  BY DEF TypeOK, Grows
<1>3. P \in Queue /\ Q \in Queue
  BY DEF TypeOK
<1>4. e \in ReceiveAttemptEntry
  BY <1>3, QueueFields
<1>5. e.expiry \in Nat
  BY <1>4 DEF ReceiveAttemptEntry
<1>6. e.expiry > now
  BY <1>2, <1>5
<1>7. CASE \E m \in Flying(P) : m.id = i /\ m.visible_at = e.expiry /\ m.receipt_handle = e.handle[i]
  BY <1>7
<1>8. CASE e = Q.receive_attempt_cache[a]
  <2>1. \/ i \in gone
        \/ Away(q, i)
        \/ \E m \in Flying(Q) : m.id = i /\ m.visible_at = e.expiry /\ m.receipt_handle = e.handle[i]
    BY <1>6, <1>8 DEF ReplayInv
  <2>2. CASE i \in gone
    BY <1>2, <2>2
  <2>3. CASE Away(q, i)
    BY <1>2, <2>3, AwayStays
  <2>4. CASE i \notin gone /\ \E m \in Flying(Q) :
               m.id = i /\ m.visible_at = e.expiry /\ m.receipt_handle = e.handle[i]
    <3>1. PICK m \in Flying(Q) : m.id = i /\ m.visible_at = e.expiry /\ m.receipt_handle = e.handle[i]
      BY <2>4
    <3>2. FlyingStays(q, P, m)
      BY <1>1 DEF EvolvesTo
    <3>3. m \notin Late
      BY <1>2, <1>5, <1>6, <3>1 DEF Late
    <3>4. CASE m.id \in gone' \/ m \in Flying(P)
      BY <3>1, <3>4
    <3>5. CASE ~(m.id \in gone' \/ m \in Flying(P))
      <4>1. /\ q \in ForcedQueues /\ Q.redrive \in live
            /\ Q.redrive = q \/ m.id \notin Holds(P)
        BY <3>2, <3>3, <3>5 DEF FlyingStays
      <4>2. TwoLevel
        BY <4>1
      <4>3. Q.redrive = InitialRedrive[q] /\ live \subseteq Queues
        BY <4>2, TwoLevelSettings DEF TypeOK
      <4>4. InitialRedrive[q] # NoQueue /\ InitialRedrive[q] # q
        BY <4>1, <4>2, <4>3, ConstantsAssumption DEF TwoLevel
      <4>5. i \in 1..sent'
        <5>1. i \in Holds(Q)
          BY <3>1, IdsElems DEF Holds, Flying
        <5>2. i \in 1..sent /\ sent \in Nat /\ sent <= sent'
          BY <5>1 DEF Accounts, Everything, Grows, TypeOK
        <5> QED BY <1>2, <5>2
      <4> QED BY <3>1, <4>1, <4>2, <4>3, <4>4, <4>5
    <3> QED BY <3>4, <3>5
  <2> QED BY <2>1, <2>2, <2>3, <2>4
<1> QED BY <1>1, <1>6, <1>7, <1>8, <1>5, <1>2 DEF AttemptStays

\* A retried receive is answered with the deliveries its first try made: a
\* message that was redelivered since is another consumer's.  The windows of
\* messages are not changed by ChangeMessageVisibility; with the force-dlq
\* endpoint, for a queue and its dead-letter queue.
THEOREM QueueReplayIsSameDelivery ==
    (NewTimeouts = {} /\ (ForcedQueues = {} \/ TwoLevel)) /\ Spec => []ReplayIsSameDelivery
<1> SUFFICES ASSUME NewTimeouts = {}, ForcedQueues = {} \/ TwoLevel
             PROVE  Spec => []ReplayIsSameDelivery
  OBVIOUS
<1> DEFINE Inv == TypeOK /\ Accounts /\ Settings /\ ReplayInv
<1>1. Init => Inv
  <2> SUFFICES ASSUME Init PROVE Settings /\ ReplayInv
    BY InitKeeps
  <2>1. now = 0 /\ live = Queues
    BY DEF Init
  <2>2. NoReceive.expiry = 0
    BY DEF NoReceive
  <2>3. \A q \in Queues : /\ queues[q].redrive = InitialRedrive[q]
                          /\ \A a \in Attempts : queues[q].receive_attempt_cache[a] = NoReceive
    BY InitEmpty
  <2> QED BY <2>1, <2>2, <2>3 DEF Settings, ReplayInv
<1>2. Inv /\ [Next]_vars => Inv'
  <2> SUFFICES ASSUME Inv, [Next]_vars PROVE Inv'
    OBVIOUS
  <2>1. TypeOK' /\ Accounts' /\ Settings' /\ Evolves /\ Grows
    BY AccountsStep, SettingsStep, StepEvolves, StepGrows
  <2> QED BY <2>1, ReplayStep
<1>3. Inv => ReplayIsSameDelivery
  <2> SUFFICES ASSUME Inv, NEW q \in FifoQueues \cap live, NEW a \in Attempts,
                      queues[q].receive_attempt_cache[a].expiry > now,
                      NEW k \in DOMAIN queues[q].inflight,
                      queues[q].inflight[k].id \in queues[q].receive_attempt_cache[a].ids
               PROVE  queues[q].inflight[k].receipt_handle
                         = queues[q].receive_attempt_cache[a].handle[queues[q].inflight[k].id]
    BY DEF ReplayIsSameDelivery
  <2> DEFINE m == queues[q].inflight[k]
             e == queues[q].receive_attempt_cache[a]
  <2>1. q \in Queues /\ m \in Flying(queues[q]) /\ m.id \in Holds(queues[q])
    BY DEF TypeOK, Flying, Elems, Holds, Ids
  <2>2. m.id \notin gone /\ ~Away(q, m.id) /\ Distinct(queues[q].inflight)
    BY <2>1 DEF Accounts, Everything, Away, Spread, Tidy
  <2>3. PICK n \in Flying(queues[q]) : n.id = m.id /\ n.receipt_handle = e.handle[m.id]
    BY <2>1, <2>2 DEF ReplayInv
  <2>4. n = m
    BY <2>1, <2>2, <2>3, DistinctElems DEF Flying
  <2> QED BY <2>3, <2>4
<1> HIDE DEF Inv
<1> QED BY <1>1, <1>2, <1>3, PTL DEF Spec

-----------------------------------------------------------------------------
(* Dead-lettering. *)

\* One entry of a send puts what it puts on record into the queue.
LEMMA EntryAccepted ==
    ASSUME NEW q \in Queues, NEW Q \in Queue, NEW e \in Entries, now \in Nat,
           NEW n \in {0, 1}, NEW id, n = 1 => id \in MsgIds, NEW seq
    PROVE  /\ \A s \in (IF n = 0 THEN {} ELSE Accepted(q, e, id, seq)) :
                 n = 1 /\ s.queue = q /\ s.id = id /\ s.id \in Holds(BatchEntry(q, Q, e, n, id))
           /\ Holds(Q) \subseteq Holds(BatchEntry(q, Q, e, n, id))
<1>1. Holds(BatchEntry(q, Q, e, n, id)) = Holds(Q) \cup (IF n = 0 THEN {} ELSE {id})
  BY BatchEntryFields
<1> QED BY <1>1 DEF Accepted

\* A send that goes on record is new, and in its queue.
LEMMA AcceptedStep ==
    ASSUME TypeOK, sent' \in Nat, [Next]_vars
    PROVE  \A s \in accepted' : \/ s \in accepted
                                \/ s.id \in (sent + 1)..sent' /\ s.id \in Holds(queues'[s.queue])
<1>t. queues \in [Queues -> Queue] /\ now \in Nat /\ sent \in Nat /\ MaxMessages \in Nat
  BY ConstantsAssumption DEF TypeOK
<1>1. ASSUME NEW q \in Queues, Manage(q) PROVE accepted' \subseteq accepted
  BY <1>1, ManageSteps
<1>2. CASE \A q \in Queues : ~Send(q) /\ ~Manage(q)
  BY <1>2, FrameStep DEF Framed
<1>3. ASSUME NEW q \in Queues, NEW e \in Entries, SendMessage(q, e)
      PROVE  \A s \in accepted' : \/ s \in accepted
                                  \/ s.id \in (sent + 1)..sent' /\ s.id \in Holds(queues'[s.queue])
  <2> DEFINE id == sent + 1
             P == BatchEntry(q, queues[q], e, 1, id)
             A == IF 1 = 0 THEN {} ELSE Accepted(q, e, id, queues[q].next_sequence_number)
  <2>1. queues' = [queues EXCEPT ![q] = P] /\ accepted' = accepted \cup A /\ sent' = sent + 1
    BY <1>3 DEF SendMessage, BatchEntry
  <2>2. id \in MsgIds /\ id \in (sent + 1)..sent'
    BY <1>t, <1>3, <2>1 DEF SendMessage, MsgIds
  <2>3. queues[q] \in Queue /\ 1 \in {0, 1}
    BY <1>t
  <2> HIDE DEF id
  <2>4. \A s \in A : s.queue = q /\ s.id = id /\ s.id \in Holds(P)
    BY <1>t, <2>2, <2>3, EntryAccepted
  <2> HIDE DEF P, A
  <2>5. queues'[q] = P
    BY <1>t, <2>1
  <2> QED BY <2>1, <2>2, <2>4, <2>5
<1>4. ASSUME NEW q \in Queues, NEW e1 \in Entries, NEW e2 \in Entries, SendMessageBatch(q, e1, e2)
      PROVE  \A s \in accepted' : \/ s \in accepted
                                  \/ s.id \in (sent + 1)..sent' /\ s.id \in Holds(queues'[s.queue])
  <2>1. PICK n1 \in {0, 1}, n2 \in {0, 1}, Q1 \in Queue :
              /\ Q1 = BatchEntry(q, queues[q], e1, n1, sent + 1)
              /\ sent' = sent + n1 + n2 /\ sent + n1 + n2 <= MaxMessages
              /\ queues' = [queues EXCEPT ![q] = BatchEntry(q, Q1, e2, n2, sent + n1 + 1)]
              /\ accepted' = accepted
                    \cup (IF n1 = 0 THEN {}
                          ELSE Accepted(q, e1, sent + 1, queues[q].next_sequence_number))
                    \cup (IF n2 = 0 THEN {}
                          ELSE Accepted(q, e2, sent + n1 + 1, Q1.next_sequence_number))
    BY <1>4, BatchSteps
  <2> DEFINE i1 == sent + 1
             i2 == sent + n1 + 1
             P == BatchEntry(q, Q1, e2, n2, i2)
             A1 == IF n1 = 0 THEN {} ELSE Accepted(q, e1, i1, queues[q].next_sequence_number)
             A2 == IF n2 = 0 THEN {} ELSE Accepted(q, e2, i2, Q1.next_sequence_number)
  <2>2. /\ n1 = 1 => i1 \in MsgIds /\ i1 \in (sent + 1)..sent'
        /\ n2 = 1 => i2 \in MsgIds /\ i2 \in (sent + 1)..sent'
    BY <1>t, <2>1 DEF MsgIds
  <2>3. queues'[q] = P /\ accepted' = accepted \cup A1 \cup A2 /\ queues[q] \in Queue
        /\ Q1 = BatchEntry(q, queues[q], e1, n1, i1)
    BY <1>t, <2>1
  <2> HIDE DEF i1, i2
  <2>4. /\ \A s \in A1 : n1 = 1 /\ s.queue = q /\ s.id = i1 /\ s.id \in Holds(Q1)
    BY <1>t, <2>2, <2>3, EntryAccepted
  <2>5. \A s \in A2 : n2 = 1 /\ s.queue = q /\ s.id = i2 /\ s.id \in Holds(P)
    BY <1>t, <2>2, <2>3, EntryAccepted
  <2>6. Holds(Q1) \subseteq Holds(P)
    BY <1>t, <2>2, <2>3, EntryAccepted
  <2> HIDE DEF P, A1, A2
  <2> QED BY <2>2, <2>3, <2>4, <2>5, <2>6
<1>5. ASSUME NEW q \in Queues, Send(q)
      PROVE  \A s \in accepted' : \/ s \in accepted
                                  \/ s.id \in (sent + 1)..sent' /\ s.id \in Holds(queues'[s.queue])
  <2>1. PICK e \in Entries :
          \/ SendMessage(q, e) \/ SendDuplicate(q, e) \/ SendEncryptFails(q, e)
          \/ \E e2 \in Entries : SendMessageBatch(q, e, e2)
    BY <1>5 DEF Send
  <2> QED BY <1>3, <1>4, <2>1 DEF SendDuplicate, SendEncryptFails
<1> QED BY <1>1, <1>2, <1>5

\* Of a queue with a redrive policy: every message has been counted once per
\* handle, within the limit.
Counted(q) ==
    InitialRedrive[q] # NoQueue =>
        \A m \in Waiting(queues[q]) \cup Flying(queues[q]) :
            m.receive_count = minted[m.id] /\ m.receive_count <= MaxReceiveCount

\* The inductive invariant: no handle was minted for a message that was not sent;
\* a message that was sent to a queue with a redrive policy and is in another
\* one has used up its receives.
DeadInv ==
    /\ \A q \in Queues : Counted(q)
    /\ \A i \in MsgIds : i > sent => minted[i] = 0
    /\ \A s \in accepted : s.id <= sent
    /\ \A s \in accepted, p \in Queues :
          (InitialRedrive[s.queue] # NoQueue /\ p # s.queue /\ s.id \in Holds(queues[p]))
              => minted[s.id] >= MaxReceiveCount

\* The messages of a queue stay counted.
LEMMA CountedStep ==
    ASSUME TwoLevel, TypeOK, TypeOK', Settings, Evolves, DeadInv,
           NEW q \in Queues, InitialRedrive[q] # NoQueue,
           NEW m \in Waiting(queues'[q]) \cup Flying(queues'[q])
    PROVE  m.receive_count = minted'[m.id] /\ m.receive_count <= MaxReceiveCount
<1> DEFINE P == queues'[q]
           Q == queues[q]
<1>1. EvolvesTo(q, P)
  BY DEF Evolves
<1>2. \A w \in Waiting(Q) \cup Flying(Q) :
         w \in Message /\ w.receive_count = minted[w.id] /\ w.receive_count <= MaxReceiveCount
  BY QueueFields DEF TypeOK, DeadInv, Counted
<1>3. m \in Message /\ sent \in Nat /\ now \in Nat /\ minted \in [MsgIds -> Nat] /\ MaxReceiveCount \in Nat
  BY QueueFields, ConstantsAssumption DEF TypeOK
<1>4. m.id \in MsgIds /\ MsgIds \subseteq Nat
  BY <1>3 DEF Message, MsgIds
<1>5. Q.redrive = InitialRedrive[q]
  BY TwoLevelSettings
<1> HIDE DEF P, Q
<1>6. CASE m \in Waiting(P)
  <2>1. WaitingFrom(q, m) /\ minted'[m.id] = minted[m.id]
    BY <1>1, <1>6 DEF EvolvesTo
  <2>2. \/ \E w \in Waiting(Q) \cup Flying(Q) : m.id = w.id /\ m.receive_count = w.receive_count
        \/ m.id \in (sent + 1)..sent' /\ m.receive_count = 0
    BY <2>1, TwoLevelWaiting DEF Q
  <2>3. CASE m.id \in (sent + 1)..sent' /\ m.receive_count = 0
    <3>1. m.id > sent
      BY <1>3, <1>4, <2>3
    <3>2. minted[m.id] = 0
      BY <1>4, <3>1 DEF DeadInv
    <3> QED BY <1>3, <2>1, <2>3, <3>2
  <2> QED BY <1>2, <2>1, <2>2, <2>3
<1>7. CASE m \in Flying(P)
  <2>1. FlyingFrom(q, P, m)
    BY <1>1, <1>7 DEF EvolvesTo
  <2>2. CASE \E w \in Ready(q), vt \in Nat :
          /\ m = HandOut(w, vt) /\ IsVisible(w) /\ ~Exhausted(queues[q], w)
          /\ minted'[m.id] = minted[m.id] + 1
    <3>1. PICK w \in Ready(q), vt \in Nat :
          /\ m = HandOut(w, vt) /\ ~Exhausted(queues[q], w)
          /\ minted'[m.id] = minted[m.id] + 1
      BY <2>2
    <3>2. w \in Message
      BY ReadyFields
    <3>3. PICK v \in Waiting(Q) \cup Flying(Q) : v.id = w.id /\ v.receive_count = w.receive_count
      BY ReadyFields DEF Q
    <3>4. m.id = w.id /\ m.receive_count = w.receive_count + 1
      BY <1>3, <3>1, <3>2, HandOutFields DEF Same
    <3>5. w.receive_count \in Nat
      BY <3>2 DEF Message
    <3>6. ~(w.receive_count + 1 > MaxReceiveCount)
      BY <1>5, <3>1 DEF Exhausted, Q
    <3> QED BY <1>2, <1>3, <3>1, <3>3, <3>4, <3>5, <3>6
  <2>3. CASE /\ \/ m \in Flying(Q)
                \/ \E f \in Flying(Q), x \in Nat : m = VisibleAt(f, x)
             /\ minted'[m.id] = minted[m.id]
    <3>1. PICK f \in Flying(Q) : m.id = f.id /\ m.receive_count = f.receive_count
      BY <1>2, <2>3, VisibleAtFields DEF Same
    <3> QED BY <1>2, <2>3, <3>1
  <2> QED BY <2>1, <2>2, <2>3 DEF FlyingFrom, Q
<1> QED BY <1>6, <1>7 DEF P

\* A message in a queue it was not sent to has used up its receives.
LEMMA UsedUpStep ==
    ASSUME TwoLevel, TypeOK, TypeOK', Accounts, Accounts', Settings, Evolves, Grows, DeadInv,
           NEW s \in accepted', NEW p \in Queues,
           \/ s \in accepted
           \/ s.id \in (sent + 1)..sent' /\ s.id \in Holds(queues'[s.queue]),
           InitialRedrive[s.queue] # NoQueue, p # s.queue, s.id \in Holds(queues'[p])
    PROVE  minted'[s.id] >= MaxReceiveCount
<1> DEFINE P == queues'[p]
<1>1. s.queue \in Queues /\ s.id \in MsgIds
  BY DEF TypeOK
<1>2. s \in accepted
  <2>1. Holds(queues'[p]) \cap Holds(queues'[s.queue]) = {}
    BY <1>1 DEF Accounts, Spread, Holds, Ids
  <2> QED BY <2>1
<1>3. /\ sent \in Nat /\ sent' \in Nat /\ minted \in [MsgIds -> Nat] /\ MaxReceiveCount \in Nat
      /\ MsgIds \subseteq Nat
  BY ConstantsAssumption DEF TypeOK, MsgIds
<1>4. minted[s.id] \in Nat /\ minted'[s.id] \in Nat /\ minted'[s.id] >= minted[s.id]
  <2>1. minted[s.id] \in Nat
    BY <1>1, <1>3
  <2>2. minted'[s.id] = minted[s.id] \/ minted'[s.id] = minted[s.id] + 1
    BY <1>1 DEF Grows
  <2> QED BY <2>1, <2>2
<1>5. s.id \notin (sent + 1)..sent'
  BY <1>1, <1>2, <1>3 DEF DeadInv
<1>6. EvolvesTo(p, P)
  BY DEF Evolves
<1>7. \A r \in Queues : \A w \in Waiting(queues[r]) \cup Flying(queues[r]) : w.id \in Holds(queues[r])
  BY IdsElems DEF Holds, Waiting, Flying
<1>8. \E m \in Waiting(P) \cup Flying(P) : m.id = s.id
  BY IdsElems DEF Holds, Waiting, Flying
<1> HIDE DEF P
<1>9. PICK m \in Waiting(P) \cup Flying(P) : m.id = s.id
  BY <1>8
<1>10. ASSUME NEW r \in Queues, r # s.queue, s.id \in Holds(queues[r])
       PROVE  minted'[s.id] >= MaxReceiveCount
  <2>1. minted[s.id] >= MaxReceiveCount
    BY <1>2, <1>10 DEF DeadInv
  <2> QED BY <1>3, <1>4, <2>1
<1>11. CASE m \in Flying(P)
  <2>1. FlyingFrom(p, P, m)
    BY <1>6, <1>11 DEF EvolvesTo
  <2>2. s.id \in Holds(queues[p])
    BY <1>9, <2>1, FlyingWas
  <2> QED BY <1>10, <2>2
<1>12. CASE m \in Waiting(P)
  <2>1. WaitingFrom(p, m)
    BY <1>6, <1>12 DEF EvolvesTo
  <2>2. \/ \E w \in Waiting(queues[p]) \cup Flying(queues[p]) : m.id = w.id
        \/ \E r \in Queues : \E w \in Waiting(queues[r]) \cup Flying(queues[r]) :
              m.id = w.id /\ w.receive_count + 1 > MaxReceiveCount
    BY <1>5, <1>9, <2>1, TwoLevelWaiting
  <2>3. CASE \E w \in Waiting(queues[p]) \cup Flying(queues[p]) : m.id = w.id
    BY <1>7, <1>9, <1>10, <2>3
  <2>4. ASSUME NEW r \in Queues, NEW w \in Waiting(queues[r]) \cup Flying(queues[r]),
               m.id = w.id, w.receive_count + 1 > MaxReceiveCount
        PROVE  minted'[s.id] >= MaxReceiveCount
    <3>1. s.id \in Holds(queues[r])
      BY <1>7, <1>9, <2>4
    <3>2. CASE r = s.queue
      <4>1. w.receive_count = minted[s.id]
        BY <1>9, <2>4, <3>2 DEF DeadInv, Counted
      <4> QED BY <1>3, <1>4, <2>4, <4>1
    <3> QED BY <1>10, <3>1, <3>2
  <2> QED BY <2>2, <2>3, <2>4
<1> QED BY <1>9, <1>11, <1>12

\* Every step keeps the inductive invariant.
LEMMA DeadStep ==
    ASSUME TwoLevel, TypeOK, TypeOK', Accounts, Accounts', Settings, Evolves, Grows, DeadInv,
           \A s \in accepted' : \/ s \in accepted
                                \/ s.id \in (sent + 1)..sent' /\ s.id \in Holds(queues'[s.queue])
    PROVE  DeadInv'
<1>1. ASSUME NEW q \in Queues PROVE Counted(q)'
  BY CountedStep DEF Counted, Waiting, Flying, Elems
<1>2. /\ sent \in Nat /\ sent' \in Nat /\ sent <= sent' /\ minted \in [MsgIds -> Nat]
      /\ MsgIds \subseteq Nat
  BY ConstantsAssumption DEF TypeOK, MsgIds, Grows
<1>3. ASSUME NEW i \in MsgIds, i > sent' PROVE minted'[i] = 0
  <2>1. i > sent /\ i \notin 1..sent
    BY <1>2, <1>3
  <2>2. minted[i] = 0 /\ i \notin Everything(queues)
    BY <2>1 DEF DeadInv, Accounts
  <2> QED BY <2>2 DEF Grows
<1>4. ASSUME NEW s \in accepted' PROVE s.id <= sent'
  <2>1. s.id \in MsgIds
    BY DEF TypeOK
  <2>2. CASE s \in accepted
    <3>1. s.id <= sent /\ s.id \in Nat
      BY <1>2, <2>1, <2>2 DEF DeadInv
    <3> QED BY <1>2, <3>1
  <2> QED BY <1>2, <2>1, <2>2
<1>5. ASSUME NEW s \in accepted', NEW p \in Queues,
             InitialRedrive[s.queue] # NoQueue, p # s.queue, s.id \in Holds(queues'[p])
      PROVE  minted'[s.id] >= MaxReceiveCount
  BY <1>5, UsedUpStep
<1> QED BY <1>1, <1>3, <1>4, <1>5 DEF DeadInv, Holds, Ids

\* A message sent to a FIFO queue with a redrive policy is delivered there no
\* more than maxReceiveCount times, and is in the dead-letter queue only after as
\* many deliveries, however often its windows lapsed in between, and whether
\* the next receive or the force-dlq endpoint moves it.  For queues with fixed
\* policies and dead-letter queues without one.
THEOREM QueueDeadLetterOnTime == TwoLevel /\ Spec => []DeadLetterOnTime
<1> SUFFICES ASSUME TwoLevel PROVE Spec => []DeadLetterOnTime
  OBVIOUS
<1> DEFINE Inv == TypeOK /\ Accounts /\ Settings /\ DeadInv
<1>1. Init => Inv
  <2> SUFFICES ASSUME Init PROVE Settings /\ DeadInv
    BY InitKeeps
  <2>1. live = Queues /\ accepted = {} /\ \A i \in MsgIds : minted[i] = 0
    BY DEF Init
  <2>2. \A q \in Queues : queues[q].redrive = InitialRedrive[q] /\ Waiting(queues[q]) = {} /\ Flying(queues[q]) = {}
    BY InitEmpty
  <2>3. \A q \in Queues : Counted(q)
    BY <2>2 DEF Counted
  <2> QED BY <2>1, <2>2, <2>3 DEF Settings, DeadInv
<1>2. Inv /\ [Next]_vars => Inv'
  <2> SUFFICES ASSUME Inv, [Next]_vars PROVE Inv'
    OBVIOUS
  <2>1. TypeOK' /\ Accounts' /\ Settings' /\ Evolves /\ Grows
    BY AccountsStep, SettingsStep, StepEvolves, StepGrows
  <2>2. sent' \in Nat
    BY <2>1 DEF TypeOK
  <2>3. \A s \in accepted' : \/ s \in accepted
                             \/ s.id \in (sent + 1)..sent' /\ s.id \in Holds(queues'[s.queue])
    BY <2>2, AcceptedStep
  <2> QED BY <2>1, <2>3, DeadStep
<1>3. Inv => DeadLetterOnTime
  <2> SUFFICES ASSUME Inv, NEW s \in accepted, queues[s.queue].redrive # NoQueue
               PROVE  /\ s.id \in Holds(queues[s.queue]) => minted[s.id] <= MaxReceiveCount
                      /\ s.id \in Holds(queues[queues[s.queue].redrive])
                             => minted[s.id] >= MaxReceiveCount
    BY DEF DeadLetterOnTime, Holds
  <2> DEFINE q == s.queue
             d == queues[q].redrive
  <2>1. q \in Queues
    BY DEF TypeOK
  <2>2. d = InitialRedrive[q]
    BY <2>1, TwoLevelSettings
  <2>3. d \in Queues /\ d # q
    BY <2>1, <2>2, ConstantsAssumption DEF TwoLevel
  <2>4. ASSUME s.id \in Holds(queues[q]) PROVE minted[s.id] <= MaxReceiveCount
    <3>1. PICK m \in Waiting(queues[q]) \cup Flying(queues[q]) : m.id = s.id
      BY <2>4, IdsElems DEF Holds, Waiting, Flying
    <3> QED BY <2>1, <2>2, <3>1 DEF DeadInv, Counted
  <2>5. ASSUME s.id \in Holds(queues[d]) PROVE minted[s.id] >= MaxReceiveCount
    BY <2>2, <2>3, <2>5 DEF DeadInv
  <2> QED BY <2>4, <2>5
<1> HIDE DEF Inv
<1> QED BY <1>1, <1>2, <1>3, PTL DEF Spec

-----------------------------------------------------------------------------
(* The contract (MessageLease). *)

\* The state of a message that queue q holds as m, and of one that is nowhere.
Standing(m, q, status, leases) ==
    [status |-> status, queue |-> q, until |-> IF m.visible_at = None THEN 0 ELSE m.visible_at,
     leases |-> leases, created |-> m.created]

Absent(status, leases) ==
    [status |-> status, queue |-> NoQueue, until |-> 0, leases |-> leases, created |-> 0]

\* What StoredState makes of each message.
Shown ==
    /\ \A q \in Queues, m \in Message :
          /\ m \in Waiting(queues[q]) => StoredState(m.id) = Standing(m, q, "waiting", minted[m.id])
          /\ m \in Flying(queues[q]) => StoredState(m.id) = Standing(m, q, "leased", minted[m.id])
    /\ \A i \in gone : StoredState(i) = Absent("ended", minted[i])
    /\ \A i \in MsgIds : i > sent => StoredState(i) = Absent("unsent", minted[i])

\* The places of message i.
Spots(i) ==
    LET Of(s) == {k \in DOMAIN s : s[k].id = i}
    IN  UNION {{<<q, "waiting", queues[q].messages[k], k>> : k \in Of(queues[q].messages)}
                  \cup {<<q, "leased", queues[q].inflight[k], k>> : k \in Of(queues[q].inflight)}
                  : q \in live}

\* The places one by one.
LEMMA SpotsOf ==
    ASSUME NEW i, NEW c
    PROVE  c \in Spots(i) <=>
             \E q \in live :
                \/ \E k \in DOMAIN queues[q].messages :
                      queues[q].messages[k].id = i /\ c = <<q, "waiting", queues[q].messages[k], k>>
                \/ \E k \in DOMAIN queues[q].inflight :
                      queues[q].inflight[k].id = i /\ c = <<q, "leased", queues[q].inflight[k], k>>
  BY DEF Spots

\* StoredState by cases.
LEMMA StoredCases ==
    ASSUME NEW i
    PROVE  /\ i > sent => StoredState(i) = Absent("unsent", minted[i])
           /\ (~(i > sent) /\ i \in gone /\ Spots(i) = {}) => StoredState(i) = Absent("ended", minted[i])
           /\ \A q, status, m, k :
                 (~(i > sent) /\ i \notin gone /\ Spots(i) = {<<q, status, m, k>>})
                     => StoredState(i) = Standing(m, q, status, minted[i])
<1>1. i > sent => StoredState(i) = Absent("unsent", minted[i])
  BY DEF StoredState, Absent
<1>2. (~(i > sent) /\ i \in gone /\ Spots(i) = {}) => StoredState(i) = Absent("ended", minted[i])
  BY DEF StoredState, Absent, Spots
<1>3. ASSUME NEW q, NEW status, NEW m, NEW k,
             ~(i > sent), i \notin gone, Spots(i) = {<<q, status, m, k>>}
      PROVE  StoredState(i) = Standing(m, q, status, minted[i])
  <2> DEFINE c == <<q, status, m, k>>
             d == CHOOSE x \in Spots(i) : TRUE
  <2>1. Cardinality(Spots(i)) = 1
    BY <1>3, FS_Singleton
  <2>2. d = c
    BY <1>3
  <2>3. c[1] = q /\ c[2] = status /\ c[3] = m
    OBVIOUS
  <2>4. StoredState(i) = [status |-> d[2], queue |-> d[1],
              until |-> IF d[3].visible_at = None THEN 0 ELSE d[3].visible_at,
              leases |-> minted[i], created |-> d[3].created]
    BY <1>3, <2>1 DEF StoredState, Spots
  <2> HIDE DEF c, d
  <2> QED BY <2>2, <2>3, <2>4 DEF Standing
<1> QED BY <1>1, <1>2, <1>3

\* A message that is in one place has one spot, one that is gone has none.
LEMMA OneSpot ==
    ASSUME TypeOK, Accounts, NEW q \in Queues
    PROVE  /\ \A k \in DOMAIN queues[q].messages :
                 Spots(queues[q].messages[k].id) = {<<q, "waiting", queues[q].messages[k], k>>}
           /\ \A k \in DOMAIN queues[q].inflight :
                 Spots(queues[q].inflight[k].id) = {<<q, "leased", queues[q].inflight[k], k>>}
<1> DEFINE Q == queues[q]
<1>t. live \subseteq Queues
  BY DEF TypeOK
<1>1. Tidy(Q)
  BY DEF Accounts, Spread
<1>2. \A p \in Queues : p # q => Holds(queues[p]) \cap Holds(Q) = {}
  BY DEF Accounts, Spread
<1>3. q \in live \/ Holds(Q) = {}
  BY DEF Accounts
<1>4. ASSUME NEW k \in DOMAIN Q.messages
      PROVE  Spots(Q.messages[k].id) = {<<q, "waiting", Q.messages[k], k>>}
  <2> DEFINE i == Q.messages[k].id
  <2>1. i \in Holds(Q) /\ q \in live /\ i \notin Ids(Q.inflight)
    BY <1>1, <1>3 DEF Holds, Ids, Tidy
  <2>2. \A j \in DOMAIN Q.messages : Q.messages[j].id = i => j = k
    BY <1>1 DEF Tidy, Distinct
  <2>3. \A j \in DOMAIN Q.inflight : Q.inflight[j].id # i
    BY <2>1 DEF Ids
  <2>4. \A p \in live : p # q => /\ \A j \in DOMAIN queues[p].messages : queues[p].messages[j].id # i
                                 /\ \A j \in DOMAIN queues[p].inflight : queues[p].inflight[j].id # i
    BY <1>t, <1>2, <2>1 DEF Holds, Ids
  <2>5. \A c : c \in Spots(i) <=> c = <<q, "waiting", Q.messages[k], k>>
    BY <2>1, <2>2, <2>3, <2>4, SpotsOf
  <2> QED BY <2>5
<1>5. ASSUME NEW k \in DOMAIN Q.inflight
      PROVE  Spots(Q.inflight[k].id) = {<<q, "leased", Q.inflight[k], k>>}
  <2> DEFINE i == Q.inflight[k].id
  <2>1. i \in Holds(Q) /\ q \in live /\ i \notin Ids(Q.messages)
    BY <1>1, <1>3 DEF Holds, Ids, Tidy
  <2>2. \A j \in DOMAIN Q.inflight : Q.inflight[j].id = i => j = k
    BY <1>1 DEF Tidy, Distinct
  <2>3. \A j \in DOMAIN Q.messages : Q.messages[j].id # i
    BY <2>1 DEF Ids
  <2>4. \A p \in live : p # q => /\ \A j \in DOMAIN queues[p].messages : queues[p].messages[j].id # i
                                 /\ \A j \in DOMAIN queues[p].inflight : queues[p].inflight[j].id # i
    BY <1>t, <1>2, <2>1 DEF Holds, Ids
  <2>5. \A c : c \in Spots(i) <=> c = <<q, "leased", Q.inflight[k], k>>
    BY <2>1, <2>2, <2>3, <2>4, SpotsOf
  <2> QED BY <2>5
<1> QED BY <1>4, <1>5

\* A message in a queue, one that is gone and one not yet sent have the states shown.
LEMMA ShowsStates == TypeOK /\ Accounts => Shown
<1> SUFFICES ASSUME TypeOK, Accounts PROVE Shown
  OBVIOUS
<1>1. sent \in Nat /\ live \subseteq Queues
  BY DEF TypeOK
<1>2. ASSUME NEW q \in Queues, NEW k \in DOMAIN queues[q].messages
      PROVE  StoredState(queues[q].messages[k].id)
                = Standing(queues[q].messages[k], q, "waiting", minted[queues[q].messages[k].id])
  <2> DEFINE i == queues[q].messages[k].id
  <2>1. i \in Holds(queues[q])
    BY DEF Holds, Ids
  <2>2. i \in 1..sent /\ i \notin gone
    BY <2>1 DEF Accounts, Everything
  <2>3. ~(i > sent)
    BY <1>1, <2>2
  <2>4. Spots(i) = {<<q, "waiting", queues[q].messages[k], k>>}
    BY OneSpot
  <2> QED BY <2>2, <2>3, <2>4, StoredCases
<1>3. ASSUME NEW q \in Queues, NEW k \in DOMAIN queues[q].inflight
      PROVE  StoredState(queues[q].inflight[k].id)
                = Standing(queues[q].inflight[k], q, "leased", minted[queues[q].inflight[k].id])
  <2> DEFINE i == queues[q].inflight[k].id
  <2>1. i \in Holds(queues[q])
    BY DEF Holds, Ids
  <2>2. i \in 1..sent /\ i \notin gone
    BY <2>1 DEF Accounts, Everything
  <2>3. ~(i > sent)
    BY <1>1, <2>2
  <2>4. Spots(i) = {<<q, "leased", queues[q].inflight[k], k>>}
    BY OneSpot
  <2> QED BY <2>2, <2>3, <2>4, StoredCases
<1>4. ASSUME NEW i \in gone PROVE StoredState(i) = Absent("ended", minted[i])
  <2>1. ~(i > sent)
    BY <1>1 DEF Accounts
  <2>2. \A q \in live : i \notin Holds(queues[q])
    BY <1>1 DEF Accounts, Everything
  <2>3. \A c : c \notin Spots(i)
    BY <2>2, SpotsOf DEF Holds, Ids
  <2> QED BY <2>1, <2>3, StoredCases
<1>5. ASSUME NEW i \in MsgIds, i > sent PROVE StoredState(i) = Absent("unsent", minted[i])
  BY <1>5, StoredCases
<1> QED BY <1>2, <1>3, <1>4, <1>5 DEF Shown, Waiting, Flying, Elems

\* The same after a step.
ShownNext ==
    /\ \A q \in Queues, m \in Message :
          /\ m \in Waiting(queues'[q]) => StoredState(m.id)' = Standing(m, q, "waiting", minted'[m.id])
          /\ m \in Flying(queues'[q]) => StoredState(m.id)' = Standing(m, q, "leased", minted'[m.id])
    /\ \A i \in gone' : StoredState(i)' = Absent("ended", minted'[i])
    /\ \A i \in MsgIds : i > sent' => StoredState(i)' = Absent("unsent", minted'[i])

\* A step that keeps the types and the places has the states shown before and after.
LEMMA ShowsBoth == TypeOK /\ Accounts /\ TypeOK' /\ Accounts' => Shown /\ ShownNext
<1>1. TypeOK' /\ Accounts' => Shown'
  BY ShowsStates, PTL
<1>2. Shown' => ShownNext
  BY DEF Shown, ShownNext, Waiting, Flying, Elems, Standing, Absent
<1> QED BY <1>1, <1>2, ShowsStates

\* A message queue q holds.
HeldBy(q, i, m) == m \in Waiting(queues[q]) \cup Flying(queues[q]) /\ m \in Message /\ m.id = i

\* What the other queues hold is left alone.
Aside(q) ==
    /\ \A p \in Queues : p # q => /\ Waiting(queues[p]) \subseteq Waiting(queues'[p])
                                  /\ Flying(queues[p]) \subseteq Flying(queues'[p])
    /\ gone \subseteq gone'
    /\ \A i \in MsgIds : i \notin Holds(queues[q]) => minted'[i] = minted[i]

\* Every message then is one q holds, or new, or as it was.
LEMMA Elsewhere ==
    ASSUME TypeOK, sent' \in Nat, Accounts, Accounted, Shown, ShownNext, NEW q \in Queues, Aside(q),
           NEW i \in MsgIds
    PROVE  \/ \E m : HeldBy(q, i, m)
           \/ i \in (sent + 1)..sent' /\ i \notin Holds(queues[q])
           \/ StoredState(i)' = StoredState(i) /\ StoredState(i).queue # q
<1>1. sent \in Nat /\ q # NoQueue
  BY ConstantsAssumption DEF TypeOK
<1>2. CASE i \in Holds(queues[q])
  <2>1. \E m \in Waiting(queues[q]) \cup Flying(queues[q]) : m.id = i
    BY <1>2, IdsElems DEF Holds, Waiting, Flying
  <2>2. Waiting(queues[q]) \subseteq Message /\ Flying(queues[q]) \subseteq Message
    BY QueueFields DEF TypeOK
  <2> QED BY <2>1, <2>2 DEF HeldBy
<1>3. CASE i \notin Holds(queues[q]) /\ i > sent
  <2>1. StoredState(i) = Absent("unsent", minted[i])
    BY <1>3 DEF Shown
  <2>2. CASE i > sent'
    <3>1. StoredState(i)' = Absent("unsent", minted'[i]) /\ minted'[i] = minted[i]
      BY <1>3, <2>2 DEF ShownNext, Aside
    <3> QED BY <1>1, <2>1, <3>1 DEF Absent
  <2>3. CASE ~(i > sent')
    BY <1>1, <1>3, <2>3 DEF MsgIds
  <2> QED BY <2>2, <2>3
<1>4. CASE i \notin Holds(queues[q]) /\ i \in gone
  <2>1. StoredState(i) = Absent("ended", minted[i])
    BY <1>4 DEF Shown
  <2>2. StoredState(i)' = Absent("ended", minted'[i]) /\ minted'[i] = minted[i]
    BY <1>4 DEF ShownNext, Aside
  <2> QED BY <1>1, <2>1, <2>2 DEF Absent
<1>5. CASE i \notin Holds(queues[q]) /\ ~(i > sent) /\ i \notin gone
  <2>1. PICK p \in Queues : i \in Holds(queues[p])
    BY <1>1, <1>5 DEF Accounted, Everything, MsgIds
  <2>2. p # q
    BY <1>5, <2>1
  <2>3. PICK m \in Waiting(queues[p]) \cup Flying(queues[p]) : m.id = i
    BY <2>1, IdsElems DEF Holds, Waiting, Flying
  <2>4. m \in Message
    BY <2>3, QueueFields DEF TypeOK
  <2>5. minted'[i] = minted[i]
    BY <1>5 DEF Aside
  <2>6. CASE m \in Waiting(queues[p])
    <3>1. m \in Waiting(queues'[p])
      BY <2>2, <2>6 DEF Aside
    <3>2. /\ StoredState(i) = Standing(m, p, "waiting", minted[i])
          /\ StoredState(i)' = Standing(m, p, "waiting", minted'[i])
      BY <2>3, <2>4, <2>6, <3>1 DEF Shown, ShownNext
    <3> QED BY <2>2, <2>5, <3>2 DEF Standing
  <2>7. CASE m \in Flying(queues[p])
    <3>1. m \in Flying(queues'[p])
      BY <2>2, <2>7 DEF Aside
    <3>2. /\ StoredState(i) = Standing(m, p, "leased", minted[i])
          /\ StoredState(i)' = Standing(m, p, "leased", minted'[i])
      BY <2>3, <2>4, <2>7, <3>1 DEF Shown, ShownNext
    <3> QED BY <2>2, <2>5, <3>2 DEF Standing
  <2> QED BY <2>3, <2>6, <2>7
<1> QED BY <1>2, <1>3, <1>4, <1>5

-----------------------------------------------------------------------------
\* A message has been leased at least as often as its receive count says: the
\* count starts again when the message moves.
LeaseInv ==
    \A q \in Queues : \A m \in Waiting(queues[q]) \cup Flying(queues[q]) :
        m.receive_count <= minted[m.id]

\* A step keeps it.
LEMMA LeaseStep == TypeOK /\ TypeOK' /\ Evolves /\ LeaseInv => LeaseInv'
<1> SUFFICES ASSUME TypeOK, TypeOK', Evolves, LeaseInv, NEW q \in Queues
             PROVE  \A m \in Waiting(queues'[q]) \cup Flying(queues'[q]) :
                        m.receive_count <= minted'[m.id]
  BY DEF LeaseInv, Waiting, Flying, Elems
<1> DEFINE P == queues'[q]
<1>1. EvolvesTo(q, P) /\ now \in Nat /\ minted \in [MsgIds -> Nat] /\ P \in Queue
  BY DEF Evolves, TypeOK
<1>2. \A p \in Queues : \A w \in Waiting(queues[p]) \cup Flying(queues[p]) :
         w \in Message /\ w.id \in MsgIds /\ w.receive_count \in Nat /\ w.receive_count <= minted[w.id]
  <2>1. \A p \in Queues : \A w \in Waiting(queues[p]) \cup Flying(queues[p]) :
           w \in Message /\ w.receive_count <= minted[w.id]
    BY QueueFields DEF LeaseInv, TypeOK
  <2> QED BY <2>1 DEF Message
<1>3. \A p \in Queues : \A w \in Ready(p) :
         w \in Message /\ w.id \in MsgIds /\ w.receive_count \in Nat /\ w.receive_count <= minted[w.id]
  BY <1>2, ReadyFields
<1>4. live \subseteq Queues /\ RedriveSources \subseteq Queues /\ ForcedQueues \subseteq Queues
  BY ConstantsAssumption DEF TypeOK
<1> HIDE DEF P
<1>5. ASSUME NEW m \in Waiting(P) PROVE m.receive_count <= minted'[m.id]
  <2>1. WaitingFrom(q, m) /\ minted'[m.id] = minted[m.id]
    BY <1>1 DEF EvolvesTo
  <2>2. \A w \in Message : Unleased(w).id = w.id /\ Unleased(w).receive_count = w.receive_count
    BY UnleasedFields DEF Same
  <2>3. \A w \in Message : Restarted(w).id = w.id /\ Restarted(w).receive_count = 0
    BY RestartedFields DEF Same
  <2>4. \A w \in Message : Redriven(w).id = w.id /\ Redriven(w).receive_count = 0
    BY RedrivenFields DEF Same
  <2>5. \A w \in Message, x \in Nat :
           VisibleAt(w, x).id = w.id /\ VisibleAt(w, x).receive_count = w.receive_count
    BY VisibleAtFields DEF Same
  <2>6. m.id \in MsgIds => minted[m.id] \in Nat
    BY <1>1
  <2>7. CASE m.id \in (sent + 1)..sent' /\ m.receive_count = 0
    <3>1. m \in Message
      BY <1>1, QueueFields
    <3>2. m.id \in MsgIds
      BY <3>1 DEF Message
    <3> QED BY <2>1, <2>6, <2>7, <3>2
  <2> QED BY <1>2, <1>3, <1>4, <2>1, <2>2, <2>3, <2>4, <2>5, <2>6, <2>7 DEF WaitingFrom
<1>6. ASSUME NEW m \in Flying(P) PROVE m.receive_count <= minted'[m.id]
  <2>1. FlyingFrom(q, P, m)
    BY <1>1 DEF EvolvesTo
  <2>2. \A w \in Message, x \in Nat :
           VisibleAt(w, x).id = w.id /\ VisibleAt(w, x).receive_count = w.receive_count
    BY VisibleAtFields DEF Same
  <2>3. \A w \in Message, x \in Nat :
           HandOut(w, x).id = w.id /\ HandOut(w, x).receive_count = w.receive_count + 1
    BY <1>1, HandOutFields DEF Same
  <2>4. \A i \in MsgIds : minted[i] \in Nat
    BY <1>1
  <2>5. CASE \E f \in Flying(queues[q]) :
               m.id = f.id /\ m.receive_count = f.receive_count /\ minted'[m.id] = minted[m.id]
    BY <1>2, <2>5
  <2>6. CASE \E w \in Ready(q), x \in Nat : m = HandOut(w, x) /\ minted'[m.id] = minted[m.id] + 1
    <3>1. PICK w \in Ready(q), x \in Nat : m = HandOut(w, x) /\ minted'[m.id] = minted[m.id] + 1
      BY <2>6
    <3>2. w \in Message /\ w.id \in MsgIds /\ w.receive_count \in Nat /\ w.receive_count <= minted[w.id]
      BY <1>3
    <3>3. m.id = w.id /\ m.receive_count = w.receive_count + 1 /\ minted[w.id] \in Nat
      BY <2>3, <2>4, <3>1, <3>2
    <3> QED BY <3>1, <3>2, <3>3
  <2>7. \/ \E f \in Flying(queues[q]) :
               m.id = f.id /\ m.receive_count = f.receive_count /\ minted'[m.id] = minted[m.id]
        \/ \E w \in Ready(q), x \in Nat : m = HandOut(w, x) /\ minted'[m.id] = minted[m.id] + 1
    BY <1>2, <2>1, <2>2 DEF FlyingFrom
  <2> QED BY <2>5, <2>6, <2>7
<1> QED BY <1>5, <1>6 DEF P

-----------------------------------------------------------------------------
(* The states of the contract, field by field. *)

\* A state is given by its fields.
LEMMA StateEqual ==
    ASSUME NEW s \in Contract!Stored, NEW t \in Contract!Stored, t.status = s.status,
           t.queue = s.queue, t.until = s.until, t.leases = s.leases, t.created = s.created
    PROVE  t = s
  BY DEF Contract!Stored

\* The states a queue shows.
LEMMA StandingFields ==
    ASSUME NEW m \in Message, NEW q \in Queues, NEW status \in {"waiting", "leased"}, NEW n \in Nat
    PROVE  LET s == Standing(m, q, status, n) IN
           /\ s \in Contract!Stored /\ s.status = status /\ s.queue = q /\ s.leases = n
           /\ s.until = IF m.visible_at = None THEN 0 ELSE m.visible_at
           /\ s.created = m.created
  BY DEF Standing, Message, Contract!Stored

\* The states of a message no queue holds.
LEMMA AbsentFields ==
    ASSUME NEW status \in {"unsent", "ended"}, NEW n \in Nat
    PROVE  LET s == Absent(status, n) IN
           /\ s \in Contract!Stored /\ s.status = status /\ s.queue = NoQueue /\ s.leases = n
           /\ s.until = 0 /\ s.created = 0
  BY DEF Absent, Contract!Stored

\* The states a call makes of one.
LEMMA EndedFields ==
    ASSUME NEW s \in Contract!Stored
    PROVE  LET t == Contract!Ended(s) IN
           /\ t \in Contract!Stored /\ t.status = "ended" /\ t.queue = NoQueue /\ t.leases = s.leases
           /\ t.until = 0 /\ t.created = 0
<1>1. s.leases \in Nat
  BY DEF Contract!Stored
<1>2. /\ Contract!Unsent \in Contract!Stored /\ Contract!Unsent.queue = NoQueue
      /\ Contract!Unsent.until = 0 /\ Contract!Unsent.created = 0
  BY DEF Contract!Unsent, Contract!Stored
<1> DEFINE u == Contract!Unsent
<1>3. Contract!Ended(s) = [u EXCEPT !.status = "ended", !.leases = s.leases]
  BY DEF Contract!Ended
<1> HIDE DEF u
<1>4. u \in Contract!Stored /\ u.queue = NoQueue /\ u.until = 0 /\ u.created = 0
  BY <1>2 DEF u
<1> QED BY <1>1, <1>3, <1>4 DEF Contract!Stored

\* A call that places a message.
LEMMA PlacedFields ==
    ASSUME NEW s \in Contract!Stored, NEW status \in {"waiting", "leased"}, NEW q \in Queues, NEW x \in Nat
    PROVE  LET t == Contract!Placed(s, status, q, x) IN
           /\ t \in Contract!Stored /\ t.status = status /\ t.queue = q /\ t.until = x
           /\ t.leases = s.leases /\ t.created = s.created
  BY DEF Contract!Placed, Contract!Stored

\* One field at a time: the creation time, the time it is hidden until, the leases.
LEMMA ChangedFields ==
    ASSUME NEW s \in Contract!Stored, NEW x \in Nat
    PROVE  /\ LET t == [s EXCEPT !.created = x] IN
              /\ t \in Contract!Stored /\ t.status = s.status /\ t.queue = s.queue
              /\ t.until = s.until /\ t.leases = s.leases /\ t.created = x
           /\ LET t == [s EXCEPT !.until = x] IN
              /\ t \in Contract!Stored /\ t.status = s.status /\ t.queue = s.queue
              /\ t.until = x /\ t.leases = s.leases /\ t.created = s.created
           /\ LET t == [s EXCEPT !.leases = @ + 1] IN
              /\ t \in Contract!Stored /\ t.status = s.status /\ t.queue = s.queue
              /\ t.until = s.until /\ t.leases = s.leases + 1 /\ t.created = s.created
  BY DEF Contract!Stored

-----------------------------------------------------------------------------
\* What the proofs about single steps start from.
Ground ==
    /\ TypeOK /\ sent' \in Nat /\ Accounts /\ Accounted /\ Shown /\ ShownNext

\* A step of the contract, or none.
Kept == [Contract!Next]_<<now, [i \in MsgIds |-> StoredState(i)]>>

\* A message that stays in its list keeps its state.
LEMMA StaysShown ==
    ASSUME Shown, ShownNext, NEW q \in Queues, NEW m \in Message, minted'[m.id] = minted[m.id],
           \/ m \in Waiting(queues[q]) /\ m \in Waiting(queues'[q])
           \/ m \in Flying(queues[q]) /\ m \in Flying(queues'[q])
    PROVE  StoredState(m.id)' = StoredState(m.id)
<1>1. CASE m \in Waiting(queues[q]) /\ m \in Waiting(queues'[q])
  <2>1. /\ StoredState(m.id) = Standing(m, q, "waiting", minted[m.id])
        /\ StoredState(m.id)' = Standing(m, q, "waiting", minted'[m.id])
    BY <1>1 DEF Shown, ShownNext
  <2> QED BY <2>1
<1>2. CASE m \in Flying(queues[q]) /\ m \in Flying(queues'[q])
  <2>1. /\ StoredState(m.id) = Standing(m, q, "leased", minted[m.id])
        /\ StoredState(m.id)' = Standing(m, q, "leased", minted'[m.id])
    BY <1>2 DEF Shown, ShownNext
  <2> QED BY <2>1
<1> QED BY <1>1, <1>2

\* A message that queue q holds, and its state.
LEMMA HeldShown ==
    ASSUME TypeOK, Shown, NEW q \in Queues, NEW i \in MsgIds, NEW m, HeldBy(q, i, m)
    PROVE  LET s == StoredState(i) IN
           /\ s \in Contract!Stored /\ s.queue = q /\ s.leases = minted[i] /\ s.created = m.created
           /\ s.until = IF m.visible_at = None THEN 0 ELSE m.visible_at
           /\ m \in Waiting(queues[q]) => s.status = "waiting"
           /\ m \in Flying(queues[q]) => s.status = "leased"
<1>1. /\ m \in Message /\ m.id = i /\ minted[i] \in Nat
      /\ m \in Waiting(queues[q]) \/ m \in Flying(queues[q])
  BY DEF HeldBy, TypeOK
<1>2. /\ m \in Waiting(queues[q]) => StoredState(i) = Standing(m, q, "waiting", minted[i])
      /\ m \in Flying(queues[q]) => StoredState(i) = Standing(m, q, "leased", minted[i])
  BY <1>1 DEF Shown
<1> QED BY <1>1, <1>2, StandingFields

\* The state of a message that is in queue p after a step.
LEMMA HeldNext ==
    ASSUME ShownNext, NEW p \in Queues, NEW m \in Message, minted'[m.id] \in Nat
    PROVE  LET t == StoredState(m.id)' IN
           /\ m \in Waiting(queues'[p]) \/ m \in Flying(queues'[p]) =>
                 /\ t \in Contract!Stored /\ t.queue = p /\ t.leases = minted'[m.id]
                 /\ t.until = IF m.visible_at = None THEN 0 ELSE m.visible_at
                 /\ t.created = m.created
           /\ m \in Waiting(queues'[p]) => t.status = "waiting"
           /\ m \in Flying(queues'[p]) => t.status = "leased"
<1>1. /\ m \in Waiting(queues'[p]) => StoredState(m.id)' = Standing(m, p, "waiting", minted'[m.id])
      /\ m \in Flying(queues'[p]) => StoredState(m.id)' = Standing(m, p, "leased", minted'[m.id])
  BY DEF ShownNext
<1> QED BY <1>1, StandingFields

\* A message that is lost ends.
LEMMA LostShown ==
    ASSUME TypeOK, Shown, ShownNext, NEW q \in Queues, NEW i \in MsgIds, i \in gone', NEW m,
           HeldBy(q, i, m), minted'[i] = minted[i]
    PROVE  StoredState(i)' = Contract!Ended(StoredState(i))
<1>1. StoredState(i) \in Contract!Stored /\ StoredState(i).leases = minted[i] /\ minted[i] \in Nat
  BY HeldShown DEF TypeOK
<1>2. StoredState(i)' = Absent("ended", minted[i])
  BY DEF ShownNext
<1> DEFINE s == Contract!Ended(StoredState(i))
           t == Absent("ended", minted[i])
<1>3. /\ s \in Contract!Stored /\ s.status = "ended" /\ s.queue = NoQueue /\ s.leases = minted[i]
      /\ s.until = 0 /\ s.created = 0
  BY <1>1, EndedFields
<1>4. /\ t \in Contract!Stored /\ t.status = "ended" /\ t.queue = NoQueue /\ t.leases = minted[i]
      /\ t.until = 0 /\ t.created = 0
  BY <1>1, AbsentFields
<1> HIDE DEF s, t
<1>5. t = s
  BY <1>3, <1>4, StateEqual
<1> QED BY <1>2, <1>5 DEF s, t

\* A step that leaves every message where it is does nothing.
LEMMA QuietKept ==
    ASSUME Ground, NEW q \in Queues, Aside(q), Waiting(queues[q]) \subseteq Waiting(queues'[q]),
           Flying(queues[q]) \subseteq Flying(queues'[q]), UNCHANGED <<now, sent, minted>>
    PROVE  Kept
<1>1. ASSUME NEW i \in MsgIds PROVE StoredState(i)' = StoredState(i)
  <2>1. CASE \E m : HeldBy(q, i, m)
    <3>1. PICK m : HeldBy(q, i, m)
      BY <2>1
    <3> QED BY <3>1, StaysShown DEF HeldBy, Ground
  <2>2. i \notin (sent + 1)..sent'
    BY DEF Ground, TypeOK
  <2> QED BY <2>1, <2>2, Elsewhere DEF Ground
<1> QED BY <1>1 DEF Kept

\* Time.
LEMMA TickKept ==
    ASSUME Tick PROVE Kept
<1>1. \A i \in MsgIds : StoredState(i)' = StoredState(i)
  BY DEF Tick, StoredState
<1>2. Contract!Pass
  BY <1>1 DEF Tick, Contract!Pass
<1> QED BY <1>2 DEF Kept, Contract!Next

\* One queue that changes, and the rest.
LEMMA OneAside ==
    ASSUME TypeOK, NEW q \in Queues, NEW P, queues' = [queues EXCEPT ![q] = P], gone \subseteq gone',
           minted' = minted
    PROVE  Aside(q) /\ queues'[q] = P
  BY DEF Aside, TypeOK

\* A consumer deletes what it holds.
LEMMA DeleteMessageBatchKept ==
    ASSUME Ground, HandleInv, NEW q \in Queues, NEW ids, DeleteMessageBatch(q, ids)
    PROVE  Kept
<1> DEFINE Q == queues[q]
           P == Deleted(Q, ids)
<1>t. TypeOK /\ Accounts /\ Q \in Queue
  BY DEF Ground, TypeOK
<1>1. /\ queues' = [queues EXCEPT ![q] = P] /\ ids \subseteq Reachable(Q)
      /\ gone' = gone \cup (ids \cap (Ids(Q.inflight) \cup Ids(Q.messages)))
      /\ UNCHANGED <<now, sent, minted>>
  BY DEF DeleteMessageBatch
<1>2. /\ Waiting(P) = {m \in Waiting(Q) : m.id \notin ids}
      /\ Flying(P) = {m \in Flying(Q) : m.id \notin ids}
  BY <1>t, DeletedFields
<1> HIDE DEF P
<1>3. Aside(q) /\ queues'[q] = P
  BY <1>t, <1>1, OneAside
<1>4. \A m \in Waiting(Q) : m.id \notin ids
  BY <1>t, <1>1, WaitingUnreachable, IdsElems DEF Waiting
<1>5. \A m \in Flying(Q) : m.id \in Ids(Q.inflight)
  BY IdsElems DEF Flying
<1>6. ASSUME NEW i \in MsgIds
      PROVE  \/ StoredState(i)' = StoredState(i)
             \/ /\ StoredState(i).queue = q /\ StoredState(i).status = "leased"
                /\ StoredState(i)' = Contract!Ended(StoredState(i))
  <2>1. CASE \E m : HeldBy(q, i, m)
    <3>1. PICK m : HeldBy(q, i, m)
      BY <2>1
    <3>2. CASE m.id \in ids
      <4>1. m \in Flying(Q) /\ i \in gone' /\ minted'[i] = minted[i]
        BY <1>1, <1>4, <1>5, <3>1, <3>2 DEF HeldBy
      <4> QED BY <3>1, <4>1, LostShown, HeldShown DEF Ground
    <3>3. CASE m.id \notin ids
      BY <1>1, <1>2, <1>3, <3>1, <3>3, StaysShown DEF HeldBy, Ground
    <3> QED BY <3>2, <3>3
  <2>2. i \notin (sent + 1)..sent'
    BY <1>1 DEF Ground, TypeOK
  <2> QED BY <1>3, <2>1, <2>2, Elsewhere DEF Ground
<1>7. Contract!Finish(q)
  BY <1>1, <1>6 DEF Contract!Finish, Contract!OnlyIn
<1> QED BY <1>7 DEF Kept, Contract!Next

\* A consumer changes how long it holds a message.
LEMMA ChangeVisibilityKept ==
    ASSUME Ground, HandleInv, NEW q \in Queues, NEW ids, NEW x \in Nat,
           ChangeMessageVisibilityBatch(q, ids, x)
    PROVE  Kept
<1> DEFINE Q == queues[q]
           P == WithVisibility(Q, ids, x)
<1>t. TypeOK /\ Accounts /\ Q \in Queue /\ now \in Nat /\ minted \in [MsgIds -> Nat]
  BY DEF Ground, TypeOK
<1>1. /\ queues' = [queues EXCEPT ![q] = P] /\ ids \subseteq Reachable(Q)
      /\ UNCHANGED <<now, sent, minted, gone>>
  BY DEF ChangeMessageVisibilityBatch
<1> DEFINE flying == ids \cap Ids(Q.inflight)
<1>2. /\ Waiting(P) = {IF m.id \in ids \ flying THEN VisibleAt(m, now + x) ELSE m : m \in Waiting(Q)}
      /\ Flying(P) = {IF m.id \in flying THEN VisibleAt(m, now + x) ELSE m : m \in Flying(Q)}
  BY <1>t, WithVisibilityFields
<1> HIDE DEF P
<1>3. Aside(q) /\ queues'[q] = P
  BY <1>t, <1>1, OneAside
<1>4. \A m \in Waiting(Q) : m.id \notin ids
  <2>1. \A m \in Waiting(Q) : m.id \in Ids(Q.messages)
    BY IdsElems DEF Waiting
  <2>2. \A i \in Ids(Q.messages) : i \notin Reachable(Q)
    BY <1>t, WaitingUnreachable DEF Ground
  <2> QED BY <1>1, <2>1, <2>2
<1>5. \A m \in Flying(Q) : m.id \in Ids(Q.inflight)
  BY IdsElems DEF Flying
<1>6. \A m \in Waiting(Q) : m \in Waiting(P)
  BY <1>2, <1>4
<1>7. \A m \in Flying(Q) : \/ m.id \in ids /\ VisibleAt(m, now + x) \in Flying(P)
                           \/ m \in Flying(P)
  BY <1>2, <1>5
<1>8. ASSUME NEW i \in MsgIds
      PROVE  \/ StoredState(i)' = StoredState(i)
             \/ /\ StoredState(i).queue = q /\ StoredState(i).status = "leased"
                /\ StoredState(i)'.until >= now
                /\ StoredState(i)' = [StoredState(i) EXCEPT !.until = StoredState(i)'.until]
  <2>1. CASE \E m : HeldBy(q, i, m)
    <3>1. PICK m : HeldBy(q, i, m)
      BY <2>1
    <3>2. CASE (m \in Waiting(P) /\ m \in Waiting(Q)) \/ (m \in Flying(P) /\ m \in Flying(Q))
      BY <1>1, <1>3, <3>1, <3>2, StaysShown DEF HeldBy, Ground
    <3>3. CASE m \in Flying(Q) /\ VisibleAt(m, now + x) \in Flying(P)
      <4> DEFINE v == now + x
                 n == VisibleAt(m, v)
                 s == StoredState(i)
                 t == StoredState(i)'
      <4>v. v \in Nat /\ v # None /\ v >= now
        BY <1>t DEF None
      <4>1. n \in Message /\ n.id = i /\ n.created = m.created /\ n.visible_at = v
        <5>1. m \in Message /\ m.id = i
          BY <3>1 DEF HeldBy
        <5> HIDE DEF v
        <5> QED BY <4>v, <5>1, VisibleAtFields DEF Same
      <4>2. /\ s \in Contract!Stored /\ s.queue = q /\ s.leases = minted[i] /\ s.created = m.created
            /\ s.status = "leased"
        BY <3>1, <3>3, HeldShown DEF Ground
      <4>3. minted'[n.id] = minted[i] /\ minted[i] \in Nat /\ n \in Flying(queues'[q])
        BY <1>t, <1>1, <1>3, <3>3, <4>1
      <4> HIDE DEF n, v
      <4>4. /\ t \in Contract!Stored /\ t.queue = q /\ t.leases = minted[i]
            /\ t.until = v /\ t.created = m.created /\ t.status = "leased"
        BY <4>v, <4>1, <4>3, HeldNext DEF Ground
      <4> HIDE DEF s, t
      <4> DEFINE u == [s EXCEPT !.until = v]
      <4>5. /\ u \in Contract!Stored /\ u.status = s.status /\ u.queue = s.queue
            /\ u.until = v /\ u.leases = s.leases /\ u.created = s.created
        BY <4>v, <4>2, ChangedFields
      <4> HIDE DEF u
      <4>6. t = u
        BY <4>2, <4>4, <4>5, StateEqual
      <4>7. t.until >= now /\ t = [s EXCEPT !.until = t.until]
        BY <4>v, <4>4, <4>6 DEF u
      <4> QED BY <4>2, <4>7 DEF s, t
    <3> QED BY <1>6, <1>7, <3>1, <3>2, <3>3 DEF HeldBy
  <2>2. i \notin (sent + 1)..sent'
    BY <1>1 DEF Ground, TypeOK
  <2> QED BY <1>3, <2>1, <2>2, Elsewhere DEF Ground
<1>9. Contract!Extend(q)
  BY <1>1, <1>8 DEF Contract!Extend, Contract!OnlyIn
<1> QED BY <1>9 DEF Kept, Contract!Next

\* An operator empties a queue or deletes it.
LEMMA EmptyKept ==
    ASSUME Ground, NEW q \in Queues, DeleteQueue(q) \/ PurgeQueue(q)
    PROVE  Kept
<1> DEFINE Q == queues[q]
<1>t. TypeOK /\ q # NoQueue
  BY ConstantsAssumption DEF Ground
<1>1. /\ \E P : queues' = [queues EXCEPT ![q] = P]
      /\ gone' = gone \cup Ids(Q.messages) \cup Ids(Q.inflight) /\ UNCHANGED <<now, sent, minted>>
  BY DEF DeleteQueue, PurgeQueue
<1>2. Aside(q)
  BY <1>t, <1>1, OneAside
<1>3. Holds(Q) \subseteq gone'
  BY <1>1 DEF Holds
<1>4. ASSUME NEW i \in MsgIds
      PROVE  StoredState(i)' = IF StoredState(i).queue = q THEN Contract!Ended(StoredState(i))
                               ELSE StoredState(i)
  <2>1. CASE \E m : HeldBy(q, i, m)
    <3>1. PICK m : HeldBy(q, i, m)
      BY <2>1
    <3>2. i \in gone' /\ minted'[i] = minted[i]
      BY <1>1, <1>3, <3>1, IdsElems DEF HeldBy, Holds, Waiting, Flying
    <3>3. StoredState(i).queue = q
      BY <1>t, <3>1, HeldShown DEF Ground
    <3>4. StoredState(i)' = Contract!Ended(StoredState(i))
      BY <1>t, <3>1, <3>2, LostShown DEF Ground
    <3> QED BY <3>3, <3>4
  <2>2. i \notin (sent + 1)..sent'
    BY <1>1 DEF Ground, TypeOK
  <2> QED BY <1>2, <2>1, <2>2, Elsewhere DEF Ground
<1>5. Contract!Empty(q)
  BY <1>1, <1>4 DEF Contract!Empty
<1> QED BY <1>5 DEF Kept, Contract!Next

\* The steps that leave every message where it is.
LEMMA StillKept ==
    ASSUME Ground, NEW q \in Queues,
           \/ \E e \in Entries : SendDuplicate(q, e) \/ SendEncryptFails(q, e)
           \/ DeliverEncryptFails(q)
           \/ \E a : ReplayReceive(q, a)
           \/ \E target \in Queues \cup {NoQueue} : SetRedrivePolicy(q, target) \/ CreateQueue(q, target)
    PROVE  Kept
<1>t. TypeOK /\ queues[q] \in Queue /\ now \in Nat
  BY DEF Ground, TypeOK
<1>1. ASSUME NEW P, queues' = [queues EXCEPT ![q] = P], UNCHANGED <<now, sent, minted, gone>>,
             SameLists(P, queues[q]) \/ Holds(queues[q]) = {}
      PROVE  Kept
  <2>1. Aside(q) /\ queues'[q] = P
    BY <1>t, <1>1, OneAside
  <2>2. Holds(queues[q]) = {} => Waiting(queues[q]) = {} /\ Flying(queues[q]) = {}
    BY IdsElems DEF Holds, Waiting, Flying
  <2>3. Waiting(queues[q]) \subseteq Waiting(P) /\ Flying(queues[q]) \subseteq Flying(P)
    BY <1>1, <2>2 DEF SameLists, Waiting, Flying
  <2> QED BY <1>1, <2>1, <2>3, QuietKept
<1>2. CASE \E e \in Entries : SendDuplicate(q, e)
  BY <1>t, <1>1, <1>2, PruneDedupFields DEF SendDuplicate
<1>3. CASE \E e \in Entries : SendEncryptFails(q, e)
  <2>1. SameLists(UseNumber(PruneDedup(queues[q])), queues[q])
    BY <1>t, PruneDedupFields, UseNumberFields DEF SameLists
  <2> QED BY <1>1, <1>3, <2>1 DEF SendEncryptFails
<1>4. CASE DeliverEncryptFails(q)
  BY <1>t, <1>1, <1>4, UseNumberFields DEF DeliverEncryptFails
<1>5. CASE \E a : ReplayReceive(q, a)
  BY <1>t, <1>1, <1>5, PruneAttemptsFields DEF ReplayReceive
<1>6. ASSUME NEW target \in Queues \cup {NoQueue}, SetRedrivePolicy(q, target) PROVE Kept
  <2> DEFINE P == [queues[q] EXCEPT !.redrive = target]
  <2>1. queues' = [queues EXCEPT ![q] = P] /\ UNCHANGED <<now, sent, minted, gone>>
    BY <1>t, <1>6 DEF SetRedrivePolicy
  <2>2. SameLists(P, queues[q])
    BY <1>t, RedriveFields
  <2> HIDE DEF P
  <2> QED BY <1>1, <2>1, <2>2
<1>7. ASSUME NEW target \in Queues \cup {NoQueue}, CreateQueue(q, target) PROVE Kept
  <2>1. q \notin live /\ Holds(queues[q]) = {}
    BY <1>7 DEF CreateQueue, Ground, Accounts
  <2>2. queues' = [queues EXCEPT ![q] = NewQueue(target)] /\ UNCHANGED <<now, sent, minted, gone>>
    BY <1>7 DEF CreateQueue
  <2> QED BY <1>1, <2>1, <2>2
<1> QED BY <1>2, <1>3, <1>4, <1>5, <1>6, <1>7

\* The times of a new message.
LEMMA NewMessageTimes ==
    ASSUME NEW q \in Queues, NEW Q \in Queue, NEW e, NEW id
    PROVE  NewMessage(q, Q, e, id).created = now
  BY DEF NewMessage

\* A queue accepts messages.
LEMMA GrowKept ==
    ASSUME Ground, NEW q \in Queues, NEW P, queues' = [queues EXCEPT ![q] = P],
           UNCHANGED <<now, minted, gone>>, Waiting(queues[q]) \subseteq Waiting(P),
           Flying(queues[q]) \subseteq Flying(P),
           \A i \in (sent + 1)..sent' : \E m \in Waiting(P) : m \in Message /\ m.id = i /\ m.created = now
    PROVE  Kept
<1>t. TypeOK /\ now \in Nat /\ sent \in Nat /\ sent' \in Nat /\ minted \in [MsgIds -> Nat]
  BY DEF Ground, TypeOK
<1>1. Aside(q) /\ queues'[q] = P
  BY <1>t, OneAside
<1>2. ASSUME NEW i \in MsgIds
      PROVE  StoredState(i)' = StoredState(i) \/ Contract!IsAccepted(StoredState(i), StoredState(i)', q)
  <2>1. CASE \E m : HeldBy(q, i, m)
    <3>1. PICK m : HeldBy(q, i, m)
      BY <2>1
    <3> QED BY <1>1, <3>1, StaysShown DEF HeldBy, Ground
  <2>2. CASE i \in (sent + 1)..sent'
    <3> DEFINE s == StoredState(i)
               t == StoredState(i)'
    <3>1. PICK m \in Waiting(P) : m \in Message /\ m.id = i /\ m.created = now
      BY <2>2
    <3>2. s = Absent("unsent", minted[i]) /\ minted[i] \in Nat
      BY <1>t, <2>2 DEF Ground, Shown
    <3>3. /\ s \in Contract!Stored /\ s.status = "unsent" /\ s.leases = minted[i]
      BY <3>2, AbsentFields
    <3>4. minted'[m.id] = minted[i] /\ minted'[m.id] \in Nat /\ m \in Waiting(queues'[q])
      BY <1>1, <3>1, <3>2
    <3>5. /\ t \in Contract!Stored /\ t.queue = q /\ t.leases = minted[i]
          /\ t.created = now /\ t.status = "waiting" /\ t.until \in Nat
      <4>1. /\ t \in Contract!Stored /\ t.queue = q /\ t.leases = minted[i]
            /\ t.created = now /\ t.status = "waiting"
        BY <3>1, <3>4, HeldNext DEF Ground
      <4> QED BY <4>1 DEF Contract!Stored
    <3> HIDE DEF s, t
    <3> DEFINE u == Contract!Placed(s, "waiting", q, t.until)
               v == [u EXCEPT !.created = now]
    <3>6. u \in Contract!Stored /\ u.status = "waiting" /\ u.queue = q /\ u.until = t.until /\ u.leases = s.leases
      BY <3>3, <3>5, PlacedFields
    <3> HIDE DEF u
    <3>7. /\ v \in Contract!Stored /\ v.status = "waiting" /\ v.queue = q /\ v.until = t.until
          /\ v.leases = s.leases /\ v.created = now
      <4>1. u \in Contract!Stored /\ now \in Nat
        BY <1>t, <3>6
      <4>2. /\ v \in Contract!Stored /\ v.status = u.status /\ v.queue = u.queue
            /\ v.until = u.until /\ v.leases = u.leases /\ v.created = now
        BY <4>1, ChangedFields
      <4> QED BY <3>6, <4>2
    <3> HIDE DEF v
    <3>8. t = v
      BY <3>3, <3>5, <3>7, StateEqual
    <3>9. Contract!IsAccepted(s, t, q)
      BY <3>3, <3>5, <3>8 DEF u, v, Contract!IsAccepted
    <3> QED BY <3>9 DEF s, t
  <2> QED BY <1>1, <2>1, <2>2, Elsewhere DEF Ground
<1>3. Contract!Accept(q)
  BY <1>2 DEF Contract!Accept
<1> QED BY <1>3 DEF Kept, Contract!Next

\* SendMessage.
LEMMA SendMessageKept ==
    ASSUME Ground, NEW q \in Queues, NEW e \in Entries, SendMessage(q, e)
    PROVE  Kept
<1> DEFINE Q == queues[q]
           P == Enqueue(q, Q, e, sent + 1)
           m == NewMessage(q, Q, e, sent + 1)
<1>1. /\ queues' = [queues EXCEPT ![q] = P] /\ sent' = sent + 1 /\ sent + 1 \in MsgIds
      /\ UNCHANGED <<now, minted, gone>>
  <2>1. sent \in 0..MaxMessages /\ sent < MaxMessages
    BY DEF SendMessage, Ground, TypeOK
  <2>2. sent + 1 \in MsgIds
    BY <2>1, ConstantsAssumption DEF MsgIds
  <2> QED BY <2>2 DEF SendMessage
<1>2. Q \in Queue /\ now \in Nat /\ sent \in Nat /\ e.group \in Groups \cup {NoGroup} /\ e.delay \in Nat
  BY DedupKeyType DEF Ground, TypeOK
<1>3. Waiting(P) = Waiting(Q) \cup {m} /\ Flying(P) = Flying(Q)
  BY <1>1, <1>2, EnqueueFields
<1>4. m \in Message /\ m.id = sent + 1 /\ m.created = now
  BY <1>1, <1>2, NewMessageFields, NewMessageTimes
<1>5. (sent + 1)..sent' = {sent + 1}
  BY <1>1, <1>2
<1> HIDE DEF P, m
<1> QED BY <1>1, <1>3, <1>4, <1>5, GrowKept

\* A delivery from another service.
LEMMA DeliverKept ==
    ASSUME Ground, NEW q \in Queues, NEW g \in Groups \cup {NoGroup}, Deliver(q, g)
    PROVE  Kept
<1> DEFINE e == [group |-> g, delay |-> 0]
           Q == queues[q]
           P == PushBack(q, Q, e, sent + 1)
           m == NewMessage(q, Q, e, sent + 1)
<1>1. /\ queues' = [queues EXCEPT ![q] = P] /\ sent' = sent + 1 /\ sent + 1 \in MsgIds
      /\ UNCHANGED <<now, minted, gone>>
  <2>1. sent \in 0..MaxMessages /\ sent < MaxMessages
    BY DEF Deliver, Ground, TypeOK
  <2>2. sent + 1 \in MsgIds
    BY <2>1, ConstantsAssumption DEF MsgIds
  <2> QED BY <2>2 DEF Deliver
<1>2. Q \in Queue /\ now \in Nat /\ sent \in Nat /\ e.group \in Groups \cup {NoGroup} /\ e.delay \in Nat
  BY DEF Ground, TypeOK
<1> HIDE DEF e
<1>3. Waiting(P) = Waiting(Q) \cup {m} /\ Flying(P) = Flying(Q)
  BY <1>1, <1>2, PushBackFields
<1>4. m \in Message /\ m.id = sent + 1 /\ m.created = now
  BY <1>1, <1>2, NewMessageFields, NewMessageTimes
<1>5. (sent + 1)..sent' = {sent + 1}
  BY <1>1, <1>2
<1> HIDE DEF P, m
<1> QED BY <1>1, <1>3, <1>4, <1>5, GrowKept

\* SendMessageBatch.
LEMMA SendMessageBatchKept ==
    ASSUME Ground, NEW q \in Queues, NEW e1 \in Entries, NEW e2 \in Entries,
           SendMessageBatch(q, e1, e2)
    PROVE  Kept
<1> DEFINE Q == queues[q]
<1>t. TypeOK /\ Q \in Queue /\ now \in Nat /\ sent \in Nat
  BY DEF Ground, TypeOK
<1>1. PICK n1 \in {0, 1}, n2 \in {0, 1}, Q1 \in Queue :
              /\ Q1 = BatchEntry(q, Q, e1, n1, sent + 1)
              /\ sent' = sent + n1 + n2 /\ sent + n1 + n2 <= MaxMessages
              /\ queues' = [queues EXCEPT ![q] = BatchEntry(q, Q1, e2, n2, sent + n1 + 1)]
              /\ UNCHANGED <<now, live, minted, gone>>
  BY <1>t, BatchSteps
<1> DEFINE P == BatchEntry(q, Q1, e2, n2, sent + n1 + 1)
           m1 == NewMessage(q, Q, e1, sent + 1)
           m2 == NewMessage(q, Q1, e2, sent + n1 + 1)
<1>2. /\ n1 = 1 => sent + 1 \in MsgIds
      /\ n2 = 1 => sent + n1 + 1 \in MsgIds
  BY <1>t, <1>1, ConstantsAssumption DEF MsgIds
<1>3. /\ Waiting(Q1) = Waiting(Q) \cup (IF n1 = 0 THEN {} ELSE {m1})
      /\ Flying(Q1) = Flying(Q)
  BY <1>t, <1>1, <1>2, BatchEntryFields
<1>4. /\ Waiting(P) = Waiting(Q1) \cup (IF n2 = 0 THEN {} ELSE {m2})
      /\ Flying(P) = Flying(Q1)
  BY <1>t, <1>1, <1>2, BatchEntryFields
<1>5. n1 = 1 => m1 \in Message /\ m1.id = sent + 1 /\ m1.created = now
  <2>1. e1.group \in Groups \cup {NoGroup} /\ e1.delay \in Nat
    BY DedupKeyType
  <2> QED BY <1>t, <1>2, <2>1, NewMessageFields, NewMessageTimes
<1>6. n2 = 1 => m2 \in Message /\ m2.id = sent + n1 + 1 /\ m2.created = now
  <2>1. e2.group \in Groups \cup {NoGroup} /\ e2.delay \in Nat
    BY DedupKeyType
  <2> QED BY <1>t, <1>1, <1>2, <2>1, NewMessageFields, NewMessageTimes
<1>7. queues' = [queues EXCEPT ![q] = P] /\ UNCHANGED <<now, minted, gone>>
  BY <1>1
<1> HIDE DEF P, m1, m2
<1>8. ASSUME NEW i \in (sent + 1)..sent'
      PROVE  \E m \in Waiting(P) : m \in Message /\ m.id = i /\ m.created = now
  <2>1. (n1 = 1 /\ i = sent + 1) \/ (n2 = 1 /\ i = sent + n1 + 1)
    BY <1>t, <1>1
  <2> QED BY <1>3, <1>4, <1>5, <1>6, <2>1
<1> QED BY <1>3, <1>4, <1>7, <1>8, GrowKept

\* A message the retention period has run out for is among the expired ones.
LEMMA ExpiredHeld ==
    ASSUME NEW Q \in Queue, Tidy(Q), NEW m \in Waiting(Q) \cup Flying(Q), m \notin Fresh
    PROVE  m.id \in ExpiredIds(Q)
<1>1. /\ Q.messages \in Seq(Message) /\ Q.inflight \in Seq(Message)
      /\ Distinct(Q.messages) /\ Distinct(Q.inflight)
  BY QueueFields DEF Tidy
<1>2. CASE m \in Waiting(Q)
  <2>1. m.id \in Ids(Q.messages)
    BY <1>2, IdsElems DEF Waiting
  <2>2. m.id \notin Ids(Retained(Q.messages))
    <3>1. ASSUME NEW n \in Elems(Retained(Q.messages)), n.id = m.id PROVE FALSE
      <4>1. n \in Waiting(Q) /\ n \in Fresh
        BY <1>1, RetainedList DEF Waiting
      <4>2. n = m
        BY <1>1, <1>2, <3>1, <4>1, DistinctElems DEF Waiting
      <4> QED BY <4>1, <4>2
    <3> QED BY <3>1, IdsElems
  <2> QED BY <2>1, <2>2 DEF ExpiredIds
<1>3. CASE m \in Flying(Q)
  <2>1. m.id \in Ids(Q.inflight)
    BY <1>3, IdsElems DEF Flying
  <2>2. m.id \notin Ids(Retained(Q.inflight))
    <3>1. ASSUME NEW n \in Elems(Retained(Q.inflight)), n.id = m.id PROVE FALSE
      <4>1. n \in Flying(Q) /\ n \in Fresh
        BY <1>1, RetainedList DEF Flying
      <4>2. n = m
        BY <1>1, <1>3, <3>1, <4>1, DistinctElems DEF Flying
      <4> QED BY <4>1, <4>2
    <3> QED BY <3>1, IdsElems
  <2> QED BY <2>1, <2>2 DEF ExpiredIds
<1> QED BY <1>2, <1>3

\* It ends as the contract says.
LEMMA ExpiredShown ==
    ASSUME Ground, NEW q \in Queues, NEW i \in MsgIds, NEW m, HeldBy(q, i, m), m \notin Fresh,
           i \in gone', minted'[i] = minted[i]
    PROVE  StoredState(i).queue = q /\ Contract!IsExpired(StoredState(i), StoredState(i)')
<1>1. /\ StoredState(i).queue = q /\ StoredState(i).created = m.created
      /\ StoredState(i)' = Contract!Ended(StoredState(i))
  BY HeldShown, LostShown DEF Ground
<1>2. m \in Message /\ now \in Nat /\ Retention \in Nat
  BY ConstantsAssumption DEF HeldBy, Ground, TypeOK
<1>3. m.created \in Nat
  BY <1>2 DEF Message
<1>4. now - m.created >= Retention
  BY <1>2, <1>3 DEF Fresh
<1> QED BY <1>1, <1>4 DEF Contract!IsExpired

\* The retention period of every queue.
LEMMA TickExpirationKept == Ground /\ TickExpiration => Kept
<1> SUFFICES ASSUME Ground, TickExpiration PROVE Kept
  OBVIOUS
<1>t. TypeOK /\ Accounts /\ queues \in [Queues -> Queue] /\ live \subseteq Queues /\ sent \in Nat
  BY DEF Ground, TypeOK
<1>1. /\ \A q \in Queues : queues'[q] = IF q \in live THEN DropExpired(queues[q]) ELSE queues[q]
      /\ gone' = gone \cup UNION {ExpiredIds(queues[q]) : q \in live}
      /\ UNCHANGED <<now, sent, minted>>
  BY DEF TickExpiration
<1>2. ASSUME NEW q \in Queues, NEW i \in MsgIds, NEW m, HeldBy(q, i, m)
      PROVE  \/ StoredState(i)' = StoredState(i)
             \/ StoredState(i).queue \in Queues /\ Contract!IsExpired(StoredState(i), StoredState(i)')
  <2>1. Tidy(queues[q]) /\ queues[q] \in Queue
    BY <1>t DEF Accounts, Spread
  <2>2. i \in Holds(queues[q])
    BY <1>2, IdsElems DEF HeldBy, Holds, Waiting, Flying
  <2>3. q \in live
    BY <2>2, <1>t DEF Accounts
  <2>4. CASE m \in Fresh
    <3>1. \/ m \in Waiting(queues[q]) /\ m \in Waiting(queues'[q])
          \/ m \in Flying(queues[q]) /\ m \in Flying(queues'[q])
      BY <1>1, <1>2, <2>1, <2>3, <2>4, DropExpiredFields DEF HeldBy
    <3>2. m \in Message /\ m.id = i /\ minted'[m.id] = minted[m.id]
      BY <1>1, <1>2 DEF HeldBy
    <3> QED BY <3>1, <3>2, StaysShown DEF Ground
  <2>5. CASE m \notin Fresh
    <3>1. i \in ExpiredIds(queues[q])
      BY <1>2, <2>1, <2>5, ExpiredHeld DEF HeldBy
    <3>2. i \in gone' /\ minted'[i] = minted[i]
      BY <1>1, <2>3, <3>1
    <3> QED BY <1>2, <2>5, <3>2, ExpiredShown
  <2> QED BY <2>4, <2>5
<1>3. ASSUME NEW i \in MsgIds
      PROVE  \/ StoredState(i)' = StoredState(i)
             \/ StoredState(i).queue \in Queues /\ Contract!IsExpired(StoredState(i), StoredState(i)')
  <2>1. CASE i \in Everything(queues)
    <3>1. PICK q \in Queues : i \in Holds(queues[q])
      BY <2>1 DEF Everything
    <3>2. PICK m \in Waiting(queues[q]) \cup Flying(queues[q]) : m.id = i
      BY <3>1, IdsElems DEF Holds, Waiting, Flying
    <3>3. HeldBy(q, i, m)
      BY <1>t, <3>2, QueueFields DEF HeldBy
    <3> QED BY <1>2, <3>3
  <2>2. CASE i \in gone
    BY <1>1, <2>2 DEF Ground, Shown, ShownNext
  <2>3. CASE i > sent
    BY <1>1, <2>3 DEF Ground, Shown, ShownNext
  <2>4. i > sent \/ i \in 1..sent
    BY <1>t DEF MsgIds
  <2> QED BY <2>1, <2>2, <2>3, <2>4 DEF Ground, Accounted
<1>4. Contract!Expire
  BY <1>1, <1>3 DEF Contract!Expire
<1> QED BY <1>4 DEF Kept, Contract!Next

\* A message that is visible in some queue after the step.
LEMMA MovedShown ==
    ASSUME Ground, NEW q \in Queues, NEW i \in MsgIds, NEW m, HeldBy(q, i, m), minted'[i] = minted[i],
           NEW p \in Queues, NEW n \in Message, n.id = i, n.created = m.created, n.visible_at = None,
           n \in Waiting(queues'[p])
    PROVE  /\ StoredState(i)'.queue = p
           /\ StoredState(i)' = Contract!Placed(StoredState(i), "waiting", p, 0)
<1> DEFINE s == StoredState(i)
           t == StoredState(i)'
           u == Contract!Placed(s, "waiting", p, 0)
<1>1. s \in Contract!Stored /\ s.leases = minted[i] /\ s.created = m.created /\ minted[i] \in Nat
  BY HeldShown DEF Ground, TypeOK
<1>2. minted'[n.id] \in Nat
  BY <1>1
<1>3. /\ t \in Contract!Stored /\ t.queue = p /\ t.leases = minted'[i] /\ t.until = 0
      /\ t.created = m.created /\ t.status = "waiting"
  BY <1>2, HeldNext DEF Ground
<1> HIDE DEF s, t
<1>4. /\ u \in Contract!Stored /\ u.status = "waiting" /\ u.queue = p /\ u.until = 0
      /\ u.leases = s.leases /\ u.created = s.created
  BY <1>1, PlacedFields
<1> HIDE DEF u
<1>5. t = u
  BY <1>1, <1>3, <1>4, StateEqual
<1> QED BY <1>3, <1>5 DEF s, t, u

\* An operator moves what waits in a dead-letter queue.
LEMMA RedriveNowKept ==
    ASSUME Ground, NEW src \in Queues, NEW dest \in Queues \cup {NoQueue}, RedriveNow(src, dest)
    PROVE  Kept
<1> DEFINE Q == queues[src]
<1>t. TypeOK /\ Q \in Queue /\ queues \in [Queues -> Queue] /\ Distinct(Q.messages)
  BY DEF Ground, TypeOK, Accounts, Spread, Tidy
<1>1. PICK M \in [Queues -> Seq(Message)] : SharedOut(src, M)
  BY <1>t, RedriveSteps
<1>2. /\ \A q \in Queues : queues'[q] = Arrive(IF q = src THEN Emptied(queues[q]) ELSE queues[q], M[q])
      /\ \A q \in Queues : Elems(M[q]) \subseteq {Redriven(m) : m \in Waiting(Q)}
      /\ UNION {Ids(M[q]) : q \in Queues} = Ids(Q.messages)
      /\ UNCHANGED <<now, sent, minted, gone>>
  BY <1>1 DEF SharedOut
<1>3. ASSUME NEW q \in Queues, q # src
      PROVE  Waiting(queues[q]) \subseteq Waiting(queues'[q]) /\ Flying(queues[q]) \subseteq Flying(queues'[q])
  <2>1. queues'[q] = Arrive(queues[q], M[q]) /\ M[q] \in Seq(Message) /\ queues[q] \in Queue
    BY <1>t, <1>2, <1>3
  <2>2. /\ Flying(Arrive(queues[q], M[q])) = Flying(queues[q])
        /\ Waiting(Arrive(queues[q], M[q])) = Waiting(queues[q]) \cup Elems(M[q])
    BY <2>1, ArriveFields, Zenon
  <2> QED BY <2>1, <2>2, Zenon
<1>4. ASSUME NEW q \in Queues PROVE Elems(M[q]) \subseteq Waiting(queues'[q])
  <2> DEFINE P == IF q = src THEN Emptied(queues[q]) ELSE queues[q]
  <2>1. P \in Queue /\ M[q] \in Seq(Message)
    BY <1>t, EmptiedWaiting
  <2>2. queues'[q] = Arrive(P, M[q])
    BY <1>2
  <2> HIDE DEF P
  <2> QED BY <2>1, <2>2, ArriveFields
<1>5. Flying(Q) \subseteq Flying(queues'[src])
  <2>1. Emptied(Q) \in Queue /\ Flying(Emptied(Q)) = Flying(Q)
    BY <1>t, EmptiedWaiting
  <2>2. queues'[src] = Arrive(Emptied(Q), M[src]) /\ M[src] \in Seq(Message)
    BY <1>2
  <2> QED BY <2>1, <2>2, ArriveFields
<1>6. Aside(src)
  BY <1>2, <1>3 DEF Aside
<1>7. ASSUME NEW m \in Waiting(Q) PROVE \E p \in Queues : Redriven(m) \in Waiting(queues'[p])
  <2>1. m.id \in Ids(Q.messages)
    BY IdsElems DEF Waiting
  <2>2. PICK p \in Queues : m.id \in Ids(M[p])
    BY <1>2, <2>1
  <2>3. PICK n \in Elems(M[p]) : n.id = m.id
    BY <2>2, IdsElems
  <2>4. PICK w \in Waiting(Q) : n = Redriven(w)
    BY <1>2, <2>3
  <2>5. w \in Message
    BY <1>t, QueueFields
  <2>6. w.id = m.id
    BY <2>3, <2>4, <2>5, RedrivenFields DEF Same
  <2>7. w = m
    BY <1>t, <2>6, DistinctElems DEF Waiting
  <2> QED BY <1>4, <2>3, <2>4, <2>7
<1>8. ASSUME NEW i \in MsgIds
      PROVE  IF StoredState(i).queue = src /\ StoredState(i).status = "waiting"
             THEN /\ StoredState(i)'.queue \in Queues
                  /\ StoredState(i)' = Contract!Placed(StoredState(i), "waiting", StoredState(i)'.queue, 0)
             ELSE StoredState(i)' = StoredState(i)
  <2>1. CASE \E m : HeldBy(src, i, m)
    <3>1. PICK m : HeldBy(src, i, m)
      BY <2>1
    <3>2. m \in Message /\ m.id = i /\ minted'[i] = minted[i]
      BY <1>2, <3>1 DEF HeldBy
    <3>3. CASE m \in Waiting(Q)
      <4>1. StoredState(i).queue = src /\ StoredState(i).status = "waiting"
        BY <1>t, <3>1, <3>3, HeldShown DEF Ground
      <4>2. PICK p \in Queues : Redriven(m) \in Waiting(queues'[p])
        BY <1>7, <3>3
      <4>3. /\ Redriven(m) \in Message /\ Redriven(m).id = i /\ Redriven(m).created = m.created
            /\ Redriven(m).visible_at = None
        BY <3>2, RedrivenFields DEF Same
      <4>4. /\ StoredState(i)'.queue = p
            /\ StoredState(i)' = Contract!Placed(StoredState(i), "waiting", p, 0)
        BY <3>1, <3>2, <4>2, <4>3, MovedShown
      <4> QED BY <4>1, <4>4
    <3>4. CASE m \in Flying(Q)
      <4>1. StoredState(i).status = "leased"
        BY <1>t, <3>1, <3>4, HeldShown DEF Ground
      <4>2. StoredState(i)' = StoredState(i)
        BY <1>5, <3>2, <3>4, StaysShown DEF Ground
      <4> QED BY <4>1, <4>2
    <3> QED BY <3>1, <3>3, <3>4 DEF HeldBy
  <2>2. i \notin (sent + 1)..sent'
    BY <1>2 DEF Ground, TypeOK
  <2> QED BY <1>6, <2>1, <2>2, Elsewhere DEF Ground
<1>9. Contract!Redrive(src)
  BY <1>2, <1>8 DEF Contract!Redrive
<1> QED BY <1>9 DEF Kept, Contract!Next

\* An operator dead-letters what was received too often.
LEMMA ForceDlqKept ==
    ASSUME Ground, LeaseInv, NEW q \in Queues, queues[q].redrive # q, ForceDlq(q)
    PROVE  Kept
<1> DEFINE Q == queues[q]
           P == WithoutLimited(Q)
           l == Limited(Q)
           d == Q.redrive
           F == [queues EXCEPT ![q] = P]
<1>t. TypeOK /\ Q \in Queue /\ queues \in [Queues -> Queue] /\ minted \in [MsgIds -> Nat]
  BY DEF Ground, TypeOK
<1>1. /\ d \in live /\ queues' = [F EXCEPT ![d] = Arrive(F[d], l)]
      /\ UNCHANGED <<now, sent, minted, gone>>
  BY DEF ForceDlq
<1>2. /\ P \in Queue /\ l \in Seq(Message)
      /\ Waiting(P) = Waiting(Q) \ Full /\ Flying(P) = Flying(Q) \ Full
      /\ Elems(l) = {Unleased(m) : m \in (Waiting(Q) \cup Flying(Q)) \cap Full}
  BY <1>t, LimitedFields
<1>3. d \in Queues /\ d # q
  BY <1>1, <1>t DEF TypeOK
<1> HIDE DEF P, l, d
<1>4. /\ queues'[q] = P /\ queues'[d] = Arrive(queues[d], l)
      /\ \A p \in Queues : p # q /\ p # d => queues'[p] = queues[p]
  BY <1>t, <1>1, <1>3
<1>5. /\ Waiting(queues'[d]) = Waiting(queues[d]) \cup Elems(l)
      /\ Flying(queues'[d]) = Flying(queues[d])
  BY <1>t, <1>2, <1>3, <1>4, ArriveFields
<1>6. Aside(q)
  <2>1. ASSUME NEW p \in Queues, p # q
        PROVE  Waiting(queues[p]) \subseteq Waiting(queues'[p]) /\ Flying(queues[p]) \subseteq Flying(queues'[p])
    BY <1>4, <1>5, <2>1
  <2> QED BY <1>1, <2>1 DEF Aside
<1>7. ASSUME NEW i \in MsgIds
      PROVE  \/ StoredState(i)' = StoredState(i)
             \/ /\ StoredState(i).queue = q /\ StoredState(i).leases >= MaxReceiveCount
                /\ StoredState(i)'.queue \in Queues \ {q}
                /\ StoredState(i)' = Contract!Placed(StoredState(i), "waiting", StoredState(i)'.queue, 0)
  <2>1. CASE \E m : HeldBy(q, i, m)
    <3>1. PICK m : HeldBy(q, i, m)
      BY <2>1
    <3>2. m \in Message /\ m.id = i /\ minted'[i] = minted[i] /\ m \in Waiting(Q) \cup Flying(Q)
      BY <1>1, <3>1 DEF HeldBy
    <3>3. CASE m \in Full
      <4>1. StoredState(i).queue = q /\ StoredState(i).leases = minted[i]
        BY <1>t, <3>1, HeldShown DEF Ground
      <4>2. m.receive_count >= MaxReceiveCount /\ m.receive_count \in Nat /\ m.receive_count <= minted[i]
        BY <3>2, <3>3 DEF Full, LeaseInv, Message
      <4>3. StoredState(i).leases >= MaxReceiveCount
        BY <1>t, <4>1, <4>2, ConstantsAssumption
      <4>4. Unleased(m) \in Waiting(queues'[d])
        BY <1>2, <1>5, <3>2, <3>3
      <4>5. /\ Unleased(m) \in Message /\ Unleased(m).id = i /\ Unleased(m).created = m.created
            /\ Unleased(m).visible_at = None
        BY <3>2, UnleasedFields DEF Same
      <4>6. /\ StoredState(i)'.queue = d
            /\ StoredState(i)' = Contract!Placed(StoredState(i), "waiting", d, 0)
        BY <1>3, <3>1, <3>2, <4>4, <4>5, MovedShown
      <4> QED BY <1>3, <4>1, <4>3, <4>6
    <3>4. CASE m \notin Full
      BY <1>2, <1>4, <3>2, <3>4, StaysShown DEF Ground
    <3> QED BY <3>3, <3>4
  <2>2. i \notin (sent + 1)..sent'
    BY <1>1 DEF Ground, TypeOK
  <2> QED BY <1>6, <2>1, <2>2, Elsewhere DEF Ground
<1>8. Contract!ForceDeadLetter(q)
  BY <1>1, <1>7 DEF Contract!ForceDeadLetter, Contract!OnlyIn
<1> QED BY <1>8 DEF Kept, Contract!Next

\* Message m of queue q as a receive finds it: it waited, or its window is over.
Found(q, m, w) ==
    \/ w = m /\ m \in Waiting(queues[q])
    \/ w = Unleased(m) /\ m \in Flying(queues[q]) \cap Late

\* Refreshing a queue drops, keeps in flight or finds each message.
LEMMA RefreshedFates ==
    ASSUME TypeOK, NEW q \in Queues, Tidy(queues[q]), NEW m \in Waiting(queues[q]) \cup Flying(queues[q])
    PROVE  \/ m \notin Fresh /\ m.id \in ExpiredIds(queues[q])
           \/ m \in Flying(queues[q]) /\ m \in Flying(Refreshed(q))
           \/ \E w \in Waiting(Refreshed(q)) : Found(q, m, w)
<1> DEFINE Q == queues[q]
           R == Refreshed(q)
           late == Flying(Q) \cap Fresh \cap Late
<1>1. Q \in Queue /\ queues \in [Queues -> Queue] /\ now \in Nat
  BY DEF TypeOK
<1>2. /\ Waiting(R) = (Waiting(Q) \cap Fresh) \cup {Unleased(x) : x \in late}
      /\ Flying(R) = (Flying(Q) \cap Fresh) \ Late
  BY <1>1, RefreshedFields
<1> HIDE DEF R
<1>3. CASE m \notin Fresh
  BY <1>1, <1>3, ExpiredHeld
<1>4. CASE m \in Fresh /\ m \in Waiting(Q)
  BY <1>2, <1>4 DEF Found, R
<1>5. CASE m \in Fresh /\ m \in Flying(Q) /\ m \notin Late
  BY <1>2, <1>5 DEF R
<1>6. CASE m \in Fresh /\ m \in Flying(Q) /\ m \in Late
  <2>1. Unleased(m) \in Waiting(R) /\ Found(q, m, Unleased(m))
    BY <1>2, <1>6 DEF Found
  <2> QED BY <2>1 DEF R
<1> QED BY <1>3, <1>4, <1>5, <1>6

\* A message that is found.
LEMMA FoundFields ==
    ASSUME Ground, NEW q \in Queues, NEW i \in MsgIds, NEW m, HeldBy(q, i, m), NEW w, Found(q, m, w)
    PROVE  /\ w \in Message /\ w.id = i /\ w.created = m.created /\ w.receive_count = m.receive_count
           /\ StoredState(i).queue = q
           /\ IsVisible(w) => StoredState(i).until <= now
           /\ m \in Flying(queues[q]) => w.visible_at = None
           /\ m \in Flying(queues[q]) => StoredState(i).until <= now
<1>1. /\ m \in Message /\ m.id = i /\ now \in Nat
  BY DEF HeldBy, Ground, TypeOK
<1>2. /\ StoredState(i).queue = q
      /\ StoredState(i).until = IF m.visible_at = None THEN 0 ELSE m.visible_at
      /\ StoredState(i).status = "waiting" \/ StoredState(i).status = "leased"
  BY HeldShown DEF Ground, HeldBy
<1>3. m \in Waiting(queues[q]) => m \notin Flying(queues[q])
  <2>1. Tidy(queues[q])
    BY DEF Ground, Accounts, Spread
  <2> QED BY <2>1, IdsElems DEF Tidy, Waiting, Flying
<1>4. CASE w = m /\ m \in Waiting(queues[q])
  BY <1>1, <1>2, <1>3, <1>4 DEF IsVisible
<1>5. CASE w = Unleased(m) /\ m \in Flying(queues[q]) \cap Late
  BY <1>1, <1>2, <1>5, UnleasedFields DEF Same, Late
<1> QED BY <1>4, <1>5 DEF Found

\* What a receive may do to message i of queue q.
Served(q, i) ==
    /\ StoredState(i).queue = q
    /\ \/ Contract!IsExpired(StoredState(i), StoredState(i)')
       \/ Contract!IsFreed(StoredState(i), StoredState(i)')
       \/ Contract!IsLeased(StoredState(i), StoredState(i)')
       \/ Contract!IsDeadLettered(StoredState(i), StoredState(i)')

\* If it does that to every message it touches, it keeps the contract.
LEMMA ServeKept ==
    ASSUME Ground, NEW q \in Queues, Aside(q), UNCHANGED <<now, sent>>,
           \A i \in MsgIds, m \in Message :
               HeldBy(q, i, m) => StoredState(i)' = StoredState(i) \/ Served(q, i)
    PROVE  Kept
<1>1. ASSUME NEW i \in MsgIds PROVE StoredState(i)' = StoredState(i) \/ Served(q, i)
  <2>1. CASE \E m : HeldBy(q, i, m)
    BY <2>1 DEF HeldBy
  <2>2. i \notin (sent + 1)..sent'
    BY DEF Ground, TypeOK
  <2> QED BY <2>1, <2>2, Elsewhere DEF Ground
<1>2. Contract!Serve(q)
  BY <1>1 DEF Served, Contract!Serve, Contract!OnlyIn
<1> QED BY <1>2 DEF Kept, Contract!Next

\* A message the receive puts back, or finds and leaves.
LEMMA FreedShown ==
    ASSUME Ground, NEW q \in Queues, NEW i \in MsgIds, NEW m, HeldBy(q, i, m), NEW w, Found(q, m, w),
           minted'[i] = minted[i],
           w \in Waiting(queues'[q]) \/ (IsVisible(w) /\ Unleased(w) \in Waiting(queues'[q]))
    PROVE  StoredState(i)' = StoredState(i) \/ Served(q, i)
<1>1. /\ w \in Message /\ w.id = i /\ w.created = m.created
      /\ StoredState(i).queue = q
      /\ IsVisible(w) => StoredState(i).until <= now
      /\ m \in Flying(queues[q]) => w.visible_at = None
      /\ m \in Flying(queues[q]) => StoredState(i).until <= now
  BY FoundFields
<1>2. ASSUME NEW n \in Message, n.id = i, n.created = m.created, n.visible_at = None,
             n \in Waiting(queues'[q]), StoredState(i).until <= now
      PROVE  Served(q, i)
  <2>1. StoredState(i)' = Contract!Placed(StoredState(i), "waiting", q, 0)
    BY <1>2, MovedShown
  <2> QED BY <1>1, <1>2, <2>1 DEF Served, Contract!IsFreed
<1>3. CASE w = m /\ m \in Waiting(queues[q]) /\ w \in Waiting(queues'[q])
  BY <1>1, <1>3, StaysShown DEF Ground, HeldBy
<1>4. CASE w \in Waiting(queues'[q]) /\ m \in Flying(queues[q]) /\ StoredState(i).until <= now
  BY <1>1, <1>2, <1>4
<1>5. CASE IsVisible(w) /\ Unleased(w) \in Waiting(queues'[q])
  BY <1>1, <1>2, <1>5, UnleasedFields DEF Same
<1>6. (w = m /\ m \in Waiting(queues[q])) \/ (m \in Flying(queues[q]) /\ StoredState(i).until <= now)
  BY <1>1 DEF Found
<1> QED BY <1>3, <1>4, <1>5, <1>6

\* A message the receive hands out.
LEMMA LeasedShown ==
    ASSUME Ground, NEW q \in Queues, NEW i \in MsgIds, NEW m, HeldBy(q, i, m), NEW w, Found(q, m, w),
           IsVisible(w), minted'[i] = minted[i] + 1, NEW vt \in Nat, HandOut(w, vt) \in Flying(queues'[q])
    PROVE  Served(q, i)
<1> DEFINE s == StoredState(i)
           t == StoredState(i)'
           n == HandOut(w, vt)
           x == now + vt
<1>t. now \in Nat /\ minted \in [MsgIds -> Nat] /\ minted[i] \in Nat /\ x \in Nat /\ x >= now /\ x # None
  BY DEF Ground, TypeOK, None
<1>1. w \in Message /\ w.id = i /\ w.created = m.created /\ s.until <= now
  BY FoundFields
<1>2. n \in Message /\ n.id = i /\ n.created = m.created /\ n.visible_at = x
  BY <1>t, <1>1, HandOutFields DEF Same
<1>3. s \in Contract!Stored /\ s.queue = q /\ s.leases = minted[i] /\ s.created = m.created
  BY HeldShown DEF Ground
<1> HIDE DEF n, x
<1>4. /\ t \in Contract!Stored /\ t.queue = q /\ t.leases = minted[i] + 1 /\ t.until = x
      /\ t.created = m.created /\ t.status = "leased"
  <2>1. n \in Flying(queues'[q]) /\ minted'[n.id] = minted[i] + 1 /\ minted'[n.id] \in Nat
    BY <1>t, <1>2 DEF n
  <2> QED BY <1>t, <1>2, <2>1, HeldNext DEF Ground
<1> HIDE DEF s, t
<1> DEFINE u == Contract!Placed(s, "leased", q, x)
           v == [u EXCEPT !.leases = @ + 1]
<1>5. /\ u \in Contract!Stored /\ u.status = "leased" /\ u.queue = q /\ u.until = x
      /\ u.leases = s.leases /\ u.created = s.created
  <2>1. s \in Contract!Stored /\ x \in Nat
    BY <1>t, <1>3
  <2> QED BY <2>1, PlacedFields
<1> HIDE DEF u
<1>6. /\ v \in Contract!Stored /\ v.status = "leased" /\ v.queue = q /\ v.until = x
      /\ v.leases = s.leases + 1 /\ v.created = s.created
  BY <1>t, <1>5, ChangedFields
<1> HIDE DEF v
<1>7. t = v
  BY <1>3, <1>4, <1>6, StateEqual
<1>8. t = [Contract!Placed(s, "leased", s.queue, t.until) EXCEPT !.leases = @ + 1]
  BY <1>3, <1>4, <1>7 DEF u, v
<1>9. Contract!IsLeased(s, t)
  BY <1>t, <1>1, <1>4, <1>8 DEF Contract!IsLeased, s
<1> QED BY <1>3, <1>9 DEF Served, s, t

\* A message the receive dead-letters.
LEMMA DeadShown ==
    ASSUME Ground, LeaseInv, NEW q \in Queues, NEW i \in MsgIds, NEW m, HeldBy(q, i, m), NEW w,
           Found(q, m, w), IsVisible(w), NEW Q, Exhausted(Q, w), minted'[i] = minted[i],
           NEW p \in Queues, Restarted(w) \in Waiting(queues'[p])
    PROVE  Served(q, i)
<1>1. /\ w \in Message /\ w.id = i /\ w.created = m.created /\ w.receive_count = m.receive_count
      /\ StoredState(i).queue = q /\ StoredState(i).until <= now
  BY FoundFields
<1>2. StoredState(i).leases = minted[i] /\ minted[i] \in Nat
  BY HeldShown DEF Ground, TypeOK
<1>3. m.receive_count <= minted[i] /\ m.receive_count \in Nat /\ w.receive_count + 1 > MaxReceiveCount
  BY DEF LeaseInv, HeldBy, Message, Exhausted
<1>4. StoredState(i).leases >= MaxReceiveCount
  BY <1>1, <1>2, <1>3, ConstantsAssumption
<1>5. /\ Restarted(w) \in Message /\ Restarted(w).id = i /\ Restarted(w).created = m.created
      /\ Restarted(w).visible_at = None
  BY <1>1, RestartedFields DEF Same
<1>6. StoredState(i)'.queue = p /\ StoredState(i)' = Contract!Placed(StoredState(i), "waiting", p, 0)
  BY <1>5, MovedShown
<1> QED BY <1>1, <1>4, <1>6 DEF Served, Contract!IsDeadLettered

\* ReceiveMessage.
LEMMA ReceiveMessageKept ==
    ASSUME Ground, LeaseInv, NEW q \in Queues, NEW max \in Nat, NEW vt \in Nat, NEW a,
           ReceiveMessage(q, max, vt, a)
    PROVE  Kept
<1> DEFINE Q == queues[q]
           R == Refreshed(q)
           r == Received(q, R, max)
           d == Dead(q, R, max)
           P == HandedOut(q, R, max, vt, a)
           p == IF R.redrive \in live THEN R.redrive ELSE q
           l == Restart(d)
           F == [queues EXCEPT ![q] = P]
<1>t. /\ TypeOK /\ Q \in Queue /\ queues \in [Queues -> Queue] /\ minted \in [MsgIds -> Nat] /\ now \in Nat
      /\ live \subseteq Queues /\ Tidy(Q)
  BY DEF Ground, TypeOK, Accounts, Spread
<1>1. /\ queues' = [F EXCEPT ![p] = Arrive(F[p], l)]
      /\ minted' = [i \in MsgIds |-> IF i \in Ids(r) THEN minted[i] + 1 ELSE minted[i]]
      /\ gone' = gone \cup ExpiredIds(Q) /\ UNCHANGED <<now, sent>>
  BY DEF ReceiveMessage
<1>2. R \in Queue /\ Tidy(R) /\ Holds(R) \subseteq Holds(Q)
  BY <1>t, RefreshedFields
<1>3. p \in Queues
  BY <1>t
<1> HIDE DEF R, p
<1> DEFINE s == Remaining(q, R, max)
<1>4. /\ r \in Seq(Message) /\ d \in Seq(Message)
      /\ Elems(r) \subseteq Ripe(R) /\ Elems(d) \subseteq Ripe(R)
      /\ \A m \in Elems(d) : Exhausted(R, m)
      /\ Elems(r) \cup Elems(d) \cup Elems(s) = Waiting(R)
      /\ Ids(r) \cap Ids(d) = {} /\ Ids(r) \cap Ids(s) = {}
  BY <1>2, Selection DEF Tidy
<1>5. /\ P \in Queue
      /\ Waiting(P) = Elems(s)
      /\ Flying(P) = Flying(R) \cup {HandOut(m, vt) : m \in Elems(r)}
  BY <1>t, <1>2, HandedOutFields
<1>6. l \in Seq(Message) /\ Elems(l) = {Restarted(m) : m \in Elems(d)}
  BY <1>4, RestartList
<1> HIDE DEF r, d, P, l, s
<1>7. /\ \A x \in Queues : queues'[x] = IF x = p THEN Arrive(F[x], l) ELSE F[x]
      /\ \A x \in Queues : F[x] = IF x = q THEN P ELSE queues[x]
      /\ \A x \in Queues : F[x] \in Queue
  BY <1>t, <1>1, <1>3, <1>5
<1> HIDE DEF F
<1>8. ASSUME NEW x \in Queues
      PROVE  Waiting(F[x]) \subseteq Waiting(queues'[x]) /\ Flying(F[x]) \subseteq Flying(queues'[x])
  <2>1. CASE x = p
    BY <1>6, <1>7, <2>1, ArriveFields
  <2>2. CASE x # p
    BY <1>7, <2>2
  <2> QED BY <2>1, <2>2
<1>9. Elems(l) \subseteq Waiting(queues'[p])
  BY <1>3, <1>6, <1>7, ArriveFields
<1>10. Ids(r) \subseteq Holds(Q)
  <2>1. Ids(r) \subseteq Ids(R.messages)
    BY <1>4, IdsElems DEF Ripe, Waiting
  <2> QED BY <1>2, <2>1 DEF Holds
<1>11. Aside(q)
  <2>1. \A x \in Queues : x # q => /\ Waiting(queues[x]) \subseteq Waiting(queues'[x])
                                   /\ Flying(queues[x]) \subseteq Flying(queues'[x])
    BY <1>7, <1>8
  <2>2. \A i \in MsgIds : i \notin Holds(Q) => minted'[i] = minted[i]
    BY <1>1, <1>10
  <2> QED BY <1>1, <2>1, <2>2 DEF Aside
<1>12. Waiting(P) \subseteq Waiting(queues'[q]) /\ Flying(P) \subseteq Flying(queues'[q])
  BY <1>7, <1>8
<1>13. ASSUME NEW i \in MsgIds, NEW m \in Message, HeldBy(q, i, m)
       PROVE  StoredState(i)' = StoredState(i) \/ Served(q, i)
  <2>0. m \in Waiting(Q) \cup Flying(Q) /\ m.id = i
    BY <1>13 DEF HeldBy
  <2>1. \/ m \notin Fresh /\ m.id \in ExpiredIds(Q)
        \/ m \in Flying(Q) /\ m \in Flying(R)
        \/ \E w \in Waiting(R) : Found(q, m, w)
    BY <1>t, <2>0, RefreshedFates DEF R
  <2>2. \A n \in Waiting(R) : n.id \in Ids(r) => n \in Elems(r)
    <3>1. ASSUME NEW n \in Waiting(R), n.id \in Ids(r) PROVE n \in Elems(r)
      <4>1. PICK k \in Elems(r) : k.id = n.id
        BY <3>1, IdsElems
      <4>2. k \in Waiting(R) /\ Distinct(R.messages)
        BY <1>2, <1>4 DEF Ripe, Tidy
      <4>3. k = n
        BY <4>1, <4>2, DistinctElems DEF Waiting
      <4> QED BY <4>3
    <3> QED BY <3>1
  <2>3. Ids(r) \subseteq Ids(R.messages)
    BY <1>4, IdsElems DEF Ripe, Waiting
  <2>4. CASE m \notin Fresh /\ m.id \in ExpiredIds(Q)
    <3>1. i \notin Holds(R)
      BY <1>t, <2>0, <2>4, RefreshedFields DEF R
    <3>2. i \in gone' /\ minted'[i] = minted[i]
      BY <1>1, <2>0, <2>3, <2>4, <3>1 DEF Holds
    <3> QED BY <1>13, <2>4, <3>2, ExpiredShown DEF Served
  <2>5. CASE m \in Flying(Q) /\ m \in Flying(R)
    <3>1. i \in Ids(R.inflight)
      BY <2>0, <2>5, IdsElems DEF Flying
    <3>2. minted'[i] = minted[i]
      BY <1>1, <1>2, <2>3, <3>1 DEF Tidy
    <3>3. m \in Flying(queues'[q])
      BY <1>5, <1>12, <2>5
    <3> QED BY <2>0, <2>5, <3>2, <3>3, StaysShown DEF Ground
  <2>6. CASE \E w \in Waiting(R) : Found(q, m, w)
    <3>1. PICK w \in Waiting(R) : Found(q, m, w)
      BY <2>6
    <3>2. w.id = i
      BY <1>13, <3>1, FoundFields
    <3>3. CASE w \in Elems(r)
      <4>1. i \in Ids(r) /\ IsVisible(w)
        BY <1>4, <3>2, <3>3, IdsElems DEF Ripe
      <4>2. minted'[i] = minted[i] + 1 /\ HandOut(w, vt) \in Flying(queues'[q])
        BY <1>1, <1>5, <1>12, <3>3, <4>1
      <4> QED BY <1>13, <3>1, <4>1, <4>2, LeasedShown
    <3>4. CASE w \in Elems(d)
      <4>1. i \in Ids(d) /\ IsVisible(w) /\ Exhausted(R, w)
        BY <1>4, <3>2, <3>4, IdsElems DEF Ripe
      <4>2. minted'[i] = minted[i] /\ Restarted(w) \in Waiting(queues'[p])
        BY <1>1, <1>4, <1>6, <1>9, <3>4, <4>1
      <4> QED BY <1>3, <1>13, <3>1, <4>1, <4>2, DeadShown
    <3>5. CASE w \in Elems(s)
      <4>1. i \in Ids(s)
        BY <3>2, <3>5, IdsElems
      <4>2. minted'[i] = minted[i] /\ w \in Waiting(queues'[q])
        BY <1>1, <1>4, <1>5, <1>12, <3>5, <4>1
      <4> QED BY <1>13, <3>1, <4>2, FreedShown
    <3> QED BY <1>4, <3>1, <3>3, <3>4, <3>5
  <2> QED BY <2>1, <2>4, <2>5, <2>6
<1> QED BY <1>1, <1>11, <1>13, ServeKept

\* A receive whose messages cannot be decrypted, on a queue without redrive policy.
LEMMA ReceiveDecryptFailsKept ==
    ASSUME Ground, NEW q \in Queues, NEW max \in Nat, NEW a, ReceiveDecryptFails(q, max, a),
           queues[q].redrive = NoQueue
    PROVE  Kept
<1> DEFINE Q == queues[q]
           R == Refreshed(q)
           r == Received(q, R, max)
           s == Remaining(q, R, max)
           b == UnleaseAll(r)
           P == [R EXCEPT !.messages = b \o s]
<1>t. /\ TypeOK /\ Q \in Queue /\ queues \in [Queues -> Queue] /\ minted \in [MsgIds -> Nat] /\ now \in Nat
      /\ Tidy(Q)
  BY DEF Ground, TypeOK, Accounts, Spread
<1>1. /\ queues' = [queues EXCEPT ![q] = P] /\ gone' = gone \cup ExpiredIds(Q)
      /\ UNCHANGED <<now, sent, minted>>
  BY DEF ReceiveDecryptFails
<1>2. R \in Queue /\ Tidy(R) /\ R.redrive = NoQueue
  BY <1>t, RefreshedFields
<1> HIDE DEF R
<1>3. /\ r \in Seq(Message) /\ s \in Seq(Message) /\ Elems(r) \subseteq Ripe(R)
      /\ Elems(r) \cup Elems(s) = Waiting(R)
  <2>1. /\ \A m \in Elems(Dead(q, R, max)) : Exhausted(R, m)
        /\ r \in Seq(Message) /\ s \in Seq(Message) /\ Elems(r) \subseteq Ripe(R)
        /\ Elems(r) \cup Elems(Dead(q, R, max)) \cup Elems(s) = Waiting(R)
    BY <1>2, Selection DEF Tidy
  <2>2. Elems(Dead(q, R, max)) = {}
    BY <1>2, <2>1 DEF Exhausted
  <2> QED BY <2>1, <2>2
<1> HIDE DEF r, s
<1>4. b \in Seq(Message) /\ Elems(b) = {Unleased(m) : m \in Elems(r)}
  BY <1>3, UnleaseAllList
<1> HIDE DEF b
<1>5. b \o s \in Seq(Message) /\ Elems(b \o s) = Elems(b) \cup Elems(s)
  BY <1>3, <1>4, ConcatMessages
<1>6. Waiting(P) = Elems(b) \cup Elems(s) /\ Flying(P) = Flying(R)
  BY <1>2, <1>5, MessagesFields DEF Waiting, Flying
<1> HIDE DEF P
<1>7. Aside(q) /\ queues'[q] = P
  BY <1>t, <1>1, OneAside
<1>8. ASSUME NEW i \in MsgIds, NEW m \in Message, HeldBy(q, i, m)
      PROVE  StoredState(i)' = StoredState(i) \/ Served(q, i)
  <2>0. m \in Waiting(Q) \cup Flying(Q) /\ m.id = i /\ minted'[i] = minted[i]
    BY <1>1, <1>8 DEF HeldBy
  <2>1. \/ m \notin Fresh /\ m.id \in ExpiredIds(Q)
        \/ m \in Flying(Q) /\ m \in Flying(R)
        \/ \E w \in Waiting(R) : Found(q, m, w)
    BY <1>t, <2>0, RefreshedFates DEF R
  <2>2. CASE m \notin Fresh /\ m.id \in ExpiredIds(Q)
    <3>1. i \in gone'
      BY <1>1, <2>0, <2>2
    <3> QED BY <1>8, <2>0, <2>2, <3>1, ExpiredShown DEF Served
  <2>3. CASE m \in Flying(Q) /\ m \in Flying(R)
    BY <1>6, <1>7, <2>0, <2>3, StaysShown DEF Ground
  <2>4. CASE \E w \in Waiting(R) : Found(q, m, w)
    <3>1. PICK w \in Waiting(R) : Found(q, m, w)
      BY <2>4
    <3>2. w \in Waiting(queues'[q]) \/ (IsVisible(w) /\ Unleased(w) \in Waiting(queues'[q]))
      BY <1>3, <1>4, <1>6, <1>7, <3>1 DEF Ripe
    <3> QED BY <1>8, <2>0, <3>1, <3>2, FreedShown
  <2> QED BY <2>1, <2>2, <2>3, <2>4
<1> QED BY <1>1, <1>7, <1>8, ServeKept

\* Every step of the queues is a step of the contract or none.
LEMMA StepKept ==
    ASSUME Ground, LeaseInv, HandleInv, Settings, NoEncryptedRedrive, ForcedQueues = {} \/ TwoLevel,
           [Next]_vars
    PROVE  Kept
<1>1. CASE UNCHANGED vars
  <2>1. now' = now /\ \A i \in MsgIds : StoredState(i)' = StoredState(i)
    BY <1>1 DEF vars, StoredState
  <2> QED BY <2>1 DEF Kept
<1>2. CASE Tick \/ TickExpiration
  BY <1>2, TickKept, TickExpirationKept
<1>3. ASSUME NEW q \in Queues, Send(q) PROVE Kept
  <2>1. PICK e \in Entries :
          \/ SendMessage(q, e) \/ SendDuplicate(q, e) \/ SendEncryptFails(q, e)
          \/ \E e2 \in Entries : SendMessageBatch(q, e, e2)
    BY <1>3 DEF Send
  <2> QED BY <2>1, SendMessageKept, StillKept, SendMessageBatchKept
<1>4. ASSUME NEW q \in Queues, UseHandle(q) PROVE Kept
  <2>1. \/ \E ids : DeleteMessageBatch(q, ids)
        \/ \E ids : \E t \in NewTimeouts : ChangeMessageVisibilityBatch(q, ids, t)
    BY <1>4 DEF UseHandle, DeleteMessage, ChangeMessageVisibility
  <2>2. NewTimeouts \subseteq Nat
    BY ConstantsAssumption
  <2> QED BY <2>1, <2>2, DeleteMessageBatchKept, ChangeVisibilityKept
<1>5. ASSUME NEW q \in Queues, Manage(q) PROVE Kept
  <2>1. \/ \E target \in Queues \cup {NoQueue} : SetRedrivePolicy(q, target) \/ CreateQueue(q, target)
        \/ DeleteQueue(q) \/ PurgeQueue(q)
    BY <1>5 DEF Manage
  <2> QED BY <2>1, EmptyKept, StillKept
<1>6. ASSUME NEW q \in Queues, Receive(q) PROVE Kept
  <2>1. PICK max \in BatchSizes, a \in Attempts \cup {NoAttempt} :
          \/ \E vt \in Timeouts : ReceiveMessage(q, max, vt, a)
          \/ ReceiveDecryptFails(q, max, a)
          \/ ReplayReceive(q, a)
    BY <1>6 DEF Receive
  <2>2. max \in Nat /\ Timeouts \subseteq Nat
    BY ConstantsAssumption
  <2>3. CASE ReceiveDecryptFails(q, max, a)
    <3>1. q \in EncryptedQueues
      BY <2>3 DEF ReceiveDecryptFails
    <3>2. queues[q].redrive = NoQueue
      BY <3>1, ConstantsAssumption DEF NoEncryptedRedrive, Settings
    <3> QED BY <2>2, <2>3, <3>2, ReceiveDecryptFailsKept
  <2> QED BY <2>1, <2>2, <2>3, ReceiveMessageKept, StillKept
<1>7. ASSUME NEW q \in Queues,
             (\E g \in Groups \cup {NoGroup} : Deliver(q, g)) \/ DeliverEncryptFails(q)
      PROVE  Kept
  BY <1>7, DeliverKept, StillKept
<1>8. ASSUME NEW q \in Queues, ForceDlq(q) PROVE Kept
  <2>1. TwoLevel /\ TypeOK
    BY <1>8 DEF ForceDlq, Ground
  <2>2. queues[q].redrive = InitialRedrive[q] /\ queues[q].redrive \in Queues
    BY <1>8, <2>1, TwoLevelSettings DEF ForceDlq
  <2>3. queues[q].redrive # q
    BY <2>1, <2>2, ConstantsAssumption DEF TwoLevel
  <2> QED BY <1>8, <2>3, ForceDlqKept
<1>9. ASSUME NEW q \in Queues, NEW dest \in Queues \cup {NoQueue}, RedriveNow(q, dest) PROVE Kept
  BY <1>9, RedriveNowKept
<1> QED BY <1>1, <1>2, <1>3, <1>4, <1>5, <1>6, <1>7, <1>8, <1>9 DEF Next

\* No message has been sent at the start.
LEMMA InitKept == Init => Contract!Init
<1> SUFFICES ASSUME Init PROVE Contract!Init
  OBVIOUS
<1>1. Shown
  BY InitKeeps, ShowsStates
<1>2. now = 0 /\ sent = 0 /\ \A i \in MsgIds : minted[i] = 0 /\ i > sent
  BY DEF Init, MsgIds
<1>3. \A i \in MsgIds : StoredState(i) = Contract!Unsent
  BY <1>1, <1>2 DEF Shown, Absent, Contract!Unsent
<1> QED BY <1>2, <1>3 DEF Contract!Init

\* The queues implement the contract (MessageLease), for every number of queues,
\* messages, consumers and operators: whatever the calls do to the lists, the handle
\* map and the caches, each message only changes as the contract allows.  An
\* encrypted queue has no redrive policy, because a failed receive would lose its
\* exhausted messages; and what the force-dlq endpoint moves does not come back,
\* because its old handles would act again.
THEOREM QueueKeepsContract ==
    (NoEncryptedRedrive /\ (ForcedQueues = {} \/ TwoLevel)) /\ Spec => KeepsContract
<1> SUFFICES ASSUME NoEncryptedRedrive, ForcedQueues = {} \/ TwoLevel PROVE Spec => KeepsContract
  OBVIOUS
<1> DEFINE Inv == TypeOK /\ Accounts /\ Accounted /\ Settings /\ HandleInv /\ LeaseInv
<1>1. Init => Inv
  <2>1. Init => HandleInv /\ LeaseInv
    BY InitEmpty DEF HandleInv, LeaseInv
  <2> QED BY <2>1, InitKeeps, InitSettings
<1>2. Inv /\ [Next]_vars => Inv' /\ Kept
  <2> SUFFICES ASSUME Inv, [Next]_vars PROVE Inv' /\ Kept
    OBVIOUS
  <2>1. \A q \in EncryptedQueues : queues[q].redrive = NoQueue
    BY ConstantsAssumption DEF NoEncryptedRedrive, Settings
  <2>2. TypeOK' /\ Accounts' /\ Accounted' /\ Settings'
    BY <2>1, NextKeeps, StutterKeeps, SettingsStep DEF Keeps
  <2>3. sent' \in Nat
    BY <2>2 DEF TypeOK
  <2>4. Evolves /\ Grows
    BY StepEvolves, StepGrows
  <2>5. HandleInv' /\ LeaseInv'
    BY <2>2, <2>3, <2>4, HandleStep, LeaseStep
  <2>6. Ground
    BY <2>2, <2>3, ShowsBoth DEF Ground
  <2>7. Kept
    BY <2>6, StepKept
  <2> QED BY <2>2, <2>5, <2>7
<1> HIDE DEF Inv
<1> QED BY <1>1, <1>2, InitKept, PTL DEF Spec, KeepsContract, Contract!Spec, Kept
=============================================================================
