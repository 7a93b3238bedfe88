------------------------ MODULE SqsLambdaPollerProofs -----------------------
(***************************************************************************)
(* Proofs about the SQS to Lambda poller composed with the queues           *)
(* (SqsLambdaPoller).                                                       *)
(*                                                                          *)
(* The poller changes waiting messages in place and removes some (InPlace); *)
(* the queues' invariants survive that, and between two of its steps the    *)
(* queues' own step lemma applies.                                          *)
(***************************************************************************)
EXTENDS SqsLambdaPoller, SqsQueueDeliveryProofs

-----------------------------------------------------------------------------
(* What the poller does to a queue. *)

\* Queue Q becomes P: waiting messages with the ids `lost` are removed, others
\* are changed in place; the messages in flight are left alone.
InPlace(P, Q, lost) ==
    /\ P \in Queue /\ P.inflight = Q.inflight /\ P.redrive = Q.redrive /\ SameHandles(P, Q)
    /\ Ids(P.messages) = Ids(Q.messages) \ lost
    /\ Tidy(Q) => Tidy(P)
    /\ \A m \in Waiting(P) : \E w \in Waiting(Q) : m.id = w.id /\ m.receipt_handle = w.receipt_handle

\* A queue that is left alone.
LEMMA InPlaceSame == ASSUME NEW Q \in Queue PROVE InPlace(Q, Q, {})
  BY DEF InPlace, SameHandles

\* One change after the other.
LEMMA InPlaceTwice ==
    ASSUME NEW Q, NEW P, NEW R, NEW lost, InPlace(P, Q, lost), InPlace(R, P, {})
    PROVE  InPlace(R, Q, lost)
<1>1. \A m \in Waiting(R) : \E w \in Waiting(Q) : m.id = w.id /\ m.receipt_handle = w.receipt_handle
  BY DEF InPlace
<1> QED BY <1>1 DEF InPlace, SameHandles

\* A queue whose waiting messages are changed, but for their ids and handles.
LEMMA InPlaceMap ==
    ASSUME NEW Q \in Queue, NEW t, DOMAIN t = DOMAIN Q.messages, t = [i \in DOMAIN t |-> t[i]],
           \A i \in DOMAIN t : /\ t[i] \in Message /\ t[i].id = Q.messages[i].id
                               /\ t[i].receipt_handle = Q.messages[i].receipt_handle
    PROVE  InPlace([Q EXCEPT !.messages = t], Q, {}) /\ [Q EXCEPT !.messages = t].messages = t
<1> DEFINE P == [Q EXCEPT !.messages = t]
<1>1. Q.messages \in Seq(Message)
  BY QueueFields
<1>2. t \in Seq(Message) /\ Ids(t) = Ids(Q.messages) /\ (Distinct(Q.messages) => Distinct(t))
  BY <1>1, MapMessages
<1>3. /\ P \in Queue /\ P.messages = t /\ P.inflight = Q.inflight
      /\ SameHandles(P, Q) /\ P.redrive = Q.redrive
  BY <1>2, MessagesFields
<1> HIDE DEF P
<1>4. \A m \in Waiting(P) : \E w \in Waiting(Q) : m.id = w.id /\ m.receipt_handle = w.receipt_handle
  BY <1>3 DEF Waiting, Elems
<1>5. InPlace(P, Q, {})
  BY <1>2, <1>3, <1>4 DEF InPlace, Tidy
<1> QED BY <1>3, <1>5 DEF P

\* A batch is hidden.
LEMMA HiddenFields ==
    ASSUME TypeOK, polled_at \in Nat, NEW e \in Mappings
    PROVE  LET Q == queues[SourceOf[e]]
               v == polled_at + VisibilityTimeout
           IN
           /\ InPlace(Hidden(e), Q, {}) /\ SourceOf[e] \in Queues
           /\ BatchIds(e) \subseteq Ids(Q.messages) /\ BatchIds(e) \subseteq MsgIds
           /\ \A i \in BatchIds(e) : \E m \in Waiting(Hidden(e)) : m.id = i /\ m.visible_at = v
<1> DEFINE Q == queues[SourceOf[e]]
           v == polled_at + VisibilityTimeout
           s == Q.messages
           t == [i \in DOMAIN s |-> IF i \in Batch(e) THEN VisibleAt(s[i], v) ELSE s[i]]
<1>1. SourceOf[e] \in Queues /\ v \in Nat
  BY PollerAssumption
<1>2. Q \in Queue
  BY <1>1 DEF TypeOK
<1>3. s \in Seq(Message) /\ Ids(s) \subseteq MsgIds
  BY <1>2, QueueFields DEF Holds
<1>4. Hidden(e) = [Q EXCEPT !.messages = t]
  BY DEF Hidden
<1>5. Batch(e) \subseteq DOMAIN s
  BY DEF Batch
<1>6. BatchIds(e) = {s[i].id : i \in Batch(e)}
  BY DEF BatchIds
<1>7. DOMAIN t = DOMAIN s /\ t = [i \in DOMAIN t |-> t[i]]
      /\ \A i \in DOMAIN t : t[i] = IF i \in Batch(e) THEN VisibleAt(s[i], v) ELSE s[i]
  OBVIOUS
<1> HIDE DEF v, t, s, Q
<1>8. \A i \in DOMAIN s : /\ s[i] \in Message
                          /\ VisibleAt(s[i], v) \in Message /\ VisibleAt(s[i], v).id = s[i].id
                          /\ VisibleAt(s[i], v).receipt_handle = s[i].receipt_handle
                          /\ VisibleAt(s[i], v).visible_at = v
  BY <1>1, <1>3, VisibleAtFields DEF Same
<1>9. \A i \in DOMAIN t : t[i] \in Message /\ t[i].id = s[i].id /\ t[i].receipt_handle = s[i].receipt_handle
  BY <1>7, <1>8
<1>10. InPlace(Hidden(e), Q, {}) /\ Hidden(e).messages = t
  BY <1>2, <1>4, <1>7, <1>9, InPlaceMap DEF s
<1>11. BatchIds(e) \subseteq Ids(s)
  BY <1>5, <1>6 DEF Ids
<1>12. \A i \in BatchIds(e) : \E m \in Waiting(Hidden(e)) : m.id = i /\ m.visible_at = v
  BY <1>5, <1>6, <1>7, <1>8, <1>10 DEF Waiting, Elems
<1> QED BY <1>1, <1>3, <1>10, <1>11, <1>12 DEF Q, s, v

\* Messages are removed.
LEMMA RemovedFields ==
    ASSUME TypeOK, Accounts, NEW q \in Queues, NEW ids
    PROVE  /\ InPlace(Removed(q, ids), queues[q], ids)
           /\ \A m \in Waiting(queues[q]) : m.id \notin ids => m \in Waiting(Removed(q, ids))
<1> DEFINE Q == queues[q]
           s == Without(Q.messages, ids)
           P == Removed(q, ids)
<1>1. Q \in Queue
  BY DEF TypeOK
<1>2. CASE q \in live
  <2>1. P = [Q EXCEPT !.messages = s]
    BY <1>2 DEF Removed
  <2>2. Q.messages \in Seq(Message)
    BY <1>1, QueueFields
  <2> HIDE DEF Q
  <2>3. /\ s \in Seq(Message) /\ Elems(s) = {m \in Elems(Q.messages) : m.id \notin ids}
        /\ Ids(s) = Ids(Q.messages) \ ids /\ (Distinct(Q.messages) => Distinct(s))
    BY <2>2, WithoutList
  <2> HIDE DEF s
  <2>4. /\ P \in Queue /\ P.messages = s /\ P.inflight = Q.inflight
        /\ SameHandles(P, Q) /\ P.redrive = Q.redrive
    BY <1>1, <2>1, <2>3, MessagesFields
  <2> HIDE DEF P
  <2>5. InPlace(P, Q, ids)
    BY <2>3, <2>4 DEF InPlace, Tidy, Waiting
  <2>6. \A m \in Waiting(Q) : m.id \notin ids => m \in Waiting(P)
    BY <2>3, <2>4 DEF Waiting
  <2> QED BY <2>5, <2>6 DEF P, Q
<1>3. CASE q \notin live
  <2>1. P = Q
    BY <1>3 DEF Removed
  <2>2. Ids(Q.messages) = {}
    BY <1>3 DEF Accounts, Holds
  <2> HIDE DEF P, Q
  <2>3. InPlace(P, Q, ids)
    BY <1>1, <2>1, <2>2 DEF InPlace, SameHandles
  <2> QED BY <2>1, <2>3 DEF P, Q
<1> QED BY <1>2, <1>3

\* A message the function did not process.
LEMMA ReleasedFields ==
    ASSUME NEW m \in Message
    PROVE  /\ Released(m) \in Message /\ Released(m).id = m.id
           /\ Released(m).receipt_handle = m.receipt_handle /\ Released(m).visible_at = None
           /\ Same(m, Released(m))
<1> DEFINE c == m.receive_count + 1
<1>1. c \in Nat
  BY DEF Message
<1>2. Released(m) = [m EXCEPT !.receive_count = c, !.visible_at = None]
  BY DEF Released
<1> HIDE DEF c
<1> QED BY <1>1, <1>2 DEF Message, Same

\* A batch is settled.
LEMMA SettledFields ==
    ASSUME TypeOK, Accounts, NEW q \in Queues
    PROVE  InPlace(Settled(q), queues[q], matched \ failed)
<1> DEFINE ids == matched \ failed
           P == Removed(q, ids)
           s == P.messages
           t == Release(s, failed)
<1>1. InPlace(P, queues[q], ids)
  BY RemovedFields
<1>2. CASE q \notin live
  BY <1>1, <1>2 DEF Settled
<1>3. CASE q \in live
  <2>1. Settled(q) = [P EXCEPT !.messages = t]
    BY <1>3 DEF Settled
  <2>2. P \in Queue
    BY <1>1 DEF InPlace
  <2> HIDE DEF P
  <2>3. \A i \in DOMAIN s : s[i] \in Message
    BY <2>2, QueueFields
  <2>4. DOMAIN t = DOMAIN s /\ t = [i \in DOMAIN t |-> t[i]]
        /\ \A i \in DOMAIN t : t[i] = IF s[i].id \in failed THEN Released(s[i]) ELSE s[i]
    BY DEF Release
  <2> HIDE DEF t, s
  <2>5. \A i \in DOMAIN s : /\ Released(s[i]) \in Message /\ Released(s[i]).id = s[i].id
                            /\ Released(s[i]).receipt_handle = s[i].receipt_handle
    BY <2>3, ReleasedFields
  <2>6. \A i \in DOMAIN t : t[i] \in Message /\ t[i].id = s[i].id /\ t[i].receipt_handle = s[i].receipt_handle
    BY <2>3, <2>4, <2>5
  <2>7. InPlace(Settled(q), P, {})
    BY <2>1, <2>2, <2>4, <2>6, InPlaceMap DEF s
  <2> QED BY <1>1, <2>7, InPlaceTwice
<1> QED BY <1>2, <1>3

\* What a step of the poller does to queue q.
Polls(q, P, lost) ==
    /\ queues' = [queues EXCEPT ![q] = P] /\ InPlace(P, queues[q], lost)
    /\ gone' = gone \cup (lost \cap Ids(queues[q].messages))
    /\ UNCHANGED <<now, live, sent, minted, accepted>>

\* It keeps what the queues' own steps keep.
LEMMA PollsKeeps ==
    ASSUME TypeOK, Accounts, NEW q \in Queues, NEW P, NEW lost, Polls(q, P, lost)
    PROVE  TypeOK' /\ Accounts' /\ (Accounted => Accounted') /\ (Settings => Settings')
<1> DEFINE Q == queues[q]
           L == lost \cap Ids(Q.messages)
<1>1. /\ queues' = [queues EXCEPT ![q] = P] /\ gone' = gone \cup L
      /\ UNCHANGED <<now, live, sent, minted, accepted>>
  BY DEF Polls
<1>2. /\ P \in Queue /\ P.inflight = Q.inflight /\ P.redrive = Q.redrive
      /\ Ids(P.messages) = Ids(Q.messages) \ lost /\ (Tidy(Q) => Tidy(P))
  BY DEF Polls, InPlace
<1>3. Tidy(Q) /\ queues \in [Queues -> Queue] /\ minted' \in [MsgIds -> Nat]
  BY <1>1 DEF Accounts, Spread, TypeOK
<1>4. L \subseteq Holds(Q) /\ Holds(P) = Holds(Q) \ L
  BY <1>2, <1>3 DEF Holds, Tidy
<1>5. TypeOK' /\ Accounts' /\ (Accounted => Accounted')
  BY <1>1, <1>2, <1>3, <1>4, DropStep
<1>6. \A p \in Queues : queues'[p] = IF p = q THEN P ELSE queues[p]
  BY <1>1, <1>3
<1>7. Settings => Settings'
  BY <1>1, <1>2, <1>6 DEF Settings
<1> QED BY <1>5, <1>7

\* It leaves the receipt handles alone.
LEMMA PollsHandles ==
    ASSUME TypeOK, NEW q \in Queues, NEW P, NEW lost, Polls(q, P, lost), HandleInv
    PROVE  HandleInv'
<1>1. /\ queues' = [queues EXCEPT ![q] = P] /\ gone \subseteq gone' /\ minted' = minted /\ sent' = sent
  BY DEF Polls
<1>2. \A p \in Queues : queues'[p] = IF p = q THEN P ELSE queues[p]
  BY <1>1 DEF TypeOK
<1>3. /\ P.inflight = queues[q].inflight /\ Flying(P) = Flying(queues[q])
      /\ P.receipt_handle_map = queues[q].receipt_handle_map
      /\ \A m \in Waiting(P) : \E w \in Waiting(queues[q]) :
            m.id = w.id /\ m.receipt_handle = w.receipt_handle
      /\ Holds(P) \subseteq Holds(queues[q])
  BY DEF Polls, InPlace, SameHandles, Flying, Holds
<1>4. ASSUME NEW p \in Queues
      PROVE  /\ \A m \in Waiting(queues'[p]) : m.receipt_handle = None
             /\ \A m \in Flying(queues'[p]) :
                   /\ queues'[p].receipt_handle_map[m.id] = {m.receipt_handle}
                   /\ m.receipt_handle \in 1..minted'[m.id]
             /\ \A i \in MsgIds : \/ queues'[p].receipt_handle_map[i] = {}
                                  \/ i \in gone'
                                  \/ i \in Ids(queues'[p].inflight)
                                  \/ /\ TwoLevel /\ InitialRedrive[p] # NoQueue
                                     /\ i \in 1..sent' /\ i \notin Holds(queues'[p])
  <2>1. CASE p # q
    BY <1>1, <1>2, <2>1 DEF HandleInv, Away
  <2>2. CASE p = q
    <3>1. queues'[p] = P
      BY <1>2, <2>2
    <3> QED BY <1>1, <1>3, <2>2, <3>1 DEF HandleInv, Away
  <2> QED BY <2>1, <2>2
<1> QED BY <1>4 DEF HandleInv, Away, Holds, Waiting, Flying, Elems, Ids

\* The poller's own state: the types, and no failed messages before the
\* function has answered.
PollerInv ==
    /\ PollerTypeOK
    /\ step # "settle" => failed = {}

\* What a step of the poller does to the queues.
LEMMA PollerEffect ==
    ASSUME PollerInv, Accounts, Poller
    PROVE  UNCHANGED vars \/ \E q \in Queues : \E P, lost : Polls(q, P, lost)
<1>t. TypeOK /\ polled_at \in Nat
  BY DEF PollerInv, PollerTypeOK, TypeOK
<1>1. CASE StartPoll \/ (\E e \in Mappings : FindNothing(e)) \/ \E ids \in SUBSET MsgIds : Invoke(ids)
  BY <1>1 DEF StartPoll, FindNothing, Invoke
<1>2. ASSUME NEW e \in Mappings, HoldBatch(e) \/ TakeBatch(e)
      PROVE  \E q \in Queues : \E P, lost : Polls(q, P, lost)
  <2> DEFINE q == SourceOf[e]
             P == Hidden(e)
  <2>1. q \in Queues /\ InPlace(P, queues[q], {})
    BY <1>t, HiddenFields
  <2>2. queues' = [queues EXCEPT ![q] = P] /\ UNCHANGED <<now, live, sent, minted, gone, accepted>>
    BY <1>2 DEF HoldBatch, TakeBatch
  <2> HIDE DEF P, q
  <2>3. Polls(q, P, {})
    BY <2>1, <2>2 DEF Polls
  <2> QED BY <2>1, <2>3
<1>3. ASSUME NEW ids, DropFiltered(ids) PROVE \E q \in Queues : \E P, lost : Polls(q, P, lost)
  <2> DEFINE q == SourceOf[mapping]
             P == Removed(q, ids)
  <2>1. step = "filter"
    BY <1>3 DEF DropFiltered
  <2>2. mapping \in Mappings
    BY <2>1 DEF PollerInv, PollerTypeOK
  <2>3. q \in Queues
    BY <2>2, PollerAssumption
  <2>4. InPlace(P, queues[q], ids)
    BY <1>t, <2>3, RemovedFields
  <2>5. /\ queues' = [queues EXCEPT ![q] = P] /\ gone' = gone \cup (ids \cap Ids(queues[q].messages))
        /\ UNCHANGED <<now, live, sent, minted, accepted>>
    BY <1>3 DEF DropFiltered
  <2> HIDE DEF P, q
  <2>6. Polls(q, P, ids)
    BY <2>4, <2>5 DEF Polls
  <2> QED BY <2>3, <2>6
<1>4. CASE Settle
  <2> DEFINE q == SourceOf[mapping]
             P == Settled(q)
             ids == matched \ failed
  <2>1. step = "settle"
    BY <1>4 DEF Settle
  <2>2. mapping \in Mappings
    BY <2>1 DEF PollerInv, PollerTypeOK
  <2>3. q \in Queues
    BY <2>2, PollerAssumption
  <2>4. InPlace(P, queues[q], ids)
    BY <1>t, <2>3, SettledFields
  <2>5. /\ queues' = [queues EXCEPT ![q] = P] /\ gone' = gone \cup (ids \cap Ids(queues[q].messages))
        /\ UNCHANGED <<now, live, sent, minted, accepted>>
    BY <1>4 DEF Settle
  <2> HIDE DEF P, q, ids
  <2>6. Polls(q, P, ids)
    BY <2>4, <2>5 DEF Polls
  <2> QED BY <2>3, <2>6
<1> QED BY <1>1, <1>2, <1>3, <1>4 DEF Poller

\* A step of the poller or of the queues keeps the types, the places and the
\* policies.
LEMMA PollerKeeps ==
    ASSUME PollerInv, Accounts, [PollerNext]_allVars
    PROVE  /\ TypeOK' /\ Accounts'
           /\ ((\A q \in EncryptedQueues : queues[q].redrive = NoQueue) /\ Accounted) => Accounted'
           /\ Settings => Settings'
<1>t. TypeOK
  BY DEF PollerInv, PollerTypeOK
<1>1. CASE Next \/ UNCHANGED vars
  <2>1. TypeOK' /\ Accounts' /\ (Settings => Settings')
    BY <1>t, <1>1, AccountsStep, SettingsStep
  <2>2. ((\A q \in EncryptedQueues : queues[q].redrive = NoQueue) /\ Accounted) => Accounted'
    BY <1>t, <1>1, NextKeeps, StutterKeeps DEF Keeps
  <2> QED BY <2>1, <2>2
<1>2. CASE Poller
  <2>1. CASE UNCHANGED vars
    BY <1>1, <2>1
  <2>2. CASE \E q \in Queues : \E P, lost : Polls(q, P, lost)
    BY <1>t, <2>2, PollsKeeps
  <2> QED BY <1>2, <2>1, <2>2, PollerEffect
<1> QED BY <1>1, <1>2 DEF PollerNext, allVars

-----------------------------------------------------------------------------
(* The poller's state. *)

\* The steps of the poller keep it.
LEMMA PollerOwnStep ==
    ASSUME PollerInv, TypeOK', Poller
    PROVE  PollerInv'
<1>t. /\ TypeOK /\ now \in Nat /\ polled_at \in Nat /\ polled_at <= now
      /\ step \in {"idle", "take", "filter", "invoke", "settle"}
      /\ todo \subseteq Mappings
      /\ mapping \in Mappings \cup {NoMapping}
      /\ (mapping = NoMapping) <=> (step \in {"idle", "take"})
      /\ matched \subseteq MsgIds /\ failed \subseteq matched
      /\ window_started_at \in [Mappings -> Nat \cup {None}]
      /\ failures \in 0..MaxFailures
      /\ observed \in [MsgIds -> Nat \cup {None}]
      /\ step # "settle" => failed = {}
      /\ NoMapping \notin Mappings /\ MaxFailures \in Nat
  BY PollerAssumption DEF PollerInv, PollerTypeOK, TypeOK
<1>p. polled_at \in Nat \cup {None}
  BY <1>t
<1>f. ASSUME NEW e, Finish(e)
      PROVE  /\ step' \in {"idle", "take"} /\ todo' \subseteq Mappings /\ mapping' = NoMapping
             /\ matched' = {} /\ failed' = {}
  BY <1>t, <1>f DEF Finish
<1>1. CASE StartPoll
  <2>1. /\ step' = "take" /\ todo' = Mappings /\ polled_at' = now /\ now' = now
        /\ UNCHANGED <<mapping, matched, failed, window_started_at, failures, observed>>
        /\ step = "idle"
    BY <1>1 DEF StartPoll, vars
  <2> QED BY <1>t, <2>1 DEF PollerInv, PollerTypeOK
<1>2. ASSUME NEW e \in Mappings, FindNothing(e) PROVE PollerInv'
  <2>1. Finish(e) /\ now' = now /\ UNCHANGED <<polled_at, failures, observed>>
    BY <1>2 DEF FindNothing, vars
  <2>2. window_started_at' \in [Mappings -> Nat \cup {None}]
    BY <1>t, <1>2 DEF FindNothing
  <2> QED BY <1>t, <1>f, <2>1, <2>2 DEF PollerInv, PollerTypeOK
<1>3. ASSUME NEW e \in Mappings, HoldBatch(e) PROVE PollerInv'
  <2>1. Finish(e) /\ now' = now /\ UNCHANGED <<polled_at, failures>>
    BY <1>3 DEF HoldBatch
  <2>2. WindowStart(e) \in Nat \cup {None}
    BY <1>t, <1>p DEF WindowStart
  <2>3. window_started_at' \in [Mappings -> Nat \cup {None}]
    BY <1>t, <1>3, <2>2 DEF HoldBatch
  <2>4. observed' \in [MsgIds -> Nat \cup {None}]
    BY <1>t, <1>p, <1>3 DEF HoldBatch
  <2> QED BY <1>t, <1>f, <2>1, <2>3, <2>4 DEF PollerInv, PollerTypeOK
<1>4. ASSUME NEW e \in Mappings, TakeBatch(e) PROVE PollerInv'
  <2>1. /\ step' \in {"filter", "invoke"} /\ mapping' = e /\ matched' = BatchIds(e) /\ now' = now
        /\ UNCHANGED <<todo, polled_at, failed, failures, observed>> /\ step = "take"
    BY <1>4 DEF TakeBatch
  <2>2. BatchIds(e) \subseteq MsgIds
    BY <1>t, HiddenFields
  <2>3. window_started_at' \in [Mappings -> Nat \cup {None}]
    BY <1>t, <1>4 DEF TakeBatch
  <2> QED BY <1>t, <2>1, <2>2, <2>3 DEF PollerInv, PollerTypeOK
<1>5. ASSUME NEW ids, DropFiltered(ids) PROVE PollerInv'
  <2>1. /\ step = "filter" /\ now' = now
        /\ UNCHANGED <<polled_at, window_started_at, failures, observed>>
    BY <1>5 DEF DropFiltered
  <2>2. CASE Finish(mapping)
    BY <1>t, <1>f, <2>1, <2>2 DEF PollerInv, PollerTypeOK
  <2>3. CASE step' = "invoke" /\ matched' = matched \ ids /\ UNCHANGED <<todo, mapping, failed>>
    BY <1>t, <2>1, <2>3 DEF PollerInv, PollerTypeOK
  <2> QED BY <1>5, <2>2, <2>3 DEF DropFiltered
<1>6. ASSUME NEW ids, Invoke(ids) PROVE PollerInv'
  <2>1. /\ step = "invoke" /\ ids \subseteq matched /\ failed' = ids /\ step' = "settle" /\ now' = now
        /\ UNCHANGED <<todo, mapping, polled_at, matched, window_started_at, observed>>
    BY <1>6 DEF Invoke, vars
  <2>2. failures' \in 0..MaxFailures
    BY <1>t, <1>6 DEF Invoke
  <2> QED BY <1>t, <2>1, <2>2 DEF PollerInv, PollerTypeOK
<1>7. CASE Settle
  <2>1. Finish(mapping) /\ now' = now /\ UNCHANGED <<polled_at, window_started_at, failures, observed>>
    BY <1>7 DEF Settle
  <2> QED BY <1>t, <1>f, <2>1 DEF PollerInv, PollerTypeOK
<1> QED BY <1>1, <1>2, <1>3, <1>4, <1>5, <1>6, <1>7 DEF Poller

\* Every step keeps it.
LEMMA PollerInvStep ==
    ASSUME PollerInv, Accounts, [PollerNext]_allVars
    PROVE  PollerInv' /\ Accounts'
<1>1. TypeOK' /\ Accounts' /\ TypeOK
  BY PollerKeeps DEF PollerInv, PollerTypeOK
<1>2. CASE Poller
  BY <1>1, <1>2, PollerOwnStep
<1>3. CASE [Next]_vars /\ UNCHANGED poller
  <2>1. now <= now' /\ now \in Nat /\ now' \in Nat
    BY <1>1, <1>3, StepGrows DEF Grows, TypeOK
  <2>2. polled_at \in 0..now /\ polled_at' = polled_at
    BY <1>3 DEF PollerInv, PollerTypeOK, poller
  <2>3. polled_at' \in 0..now'
    BY <2>1, <2>2
  <2> QED BY <1>1, <1>3, <2>3 DEF PollerInv, PollerTypeOK, poller
<1> QED BY <1>1, <1>2, <1>3 DEF PollerNext, allVars

\* The first state.
LEMMA PollerInitInv == PollerInit => PollerInv /\ Accounts /\ Accounted
<1> SUFFICES ASSUME PollerInit PROVE PollerInv /\ Accounts /\ Accounted
  OBVIOUS
<1>1. TypeOK /\ Accounts /\ Accounted /\ now = 0
  BY InitKeeps DEF PollerInit, Init
<1> QED BY <1>1, PollerAssumption DEF PollerInit, PollerInv, PollerTypeOK

\* The values of the poller's variables and of the queues'.
THEOREM PollerTypeCorrect == PollerSpec => []PollerTypeOK
<1>1. PollerInit => PollerInv /\ Accounts
  BY PollerInitInv
<1>2. PollerInv /\ Accounts /\ [PollerNext]_allVars => PollerInv' /\ Accounts'
  BY PollerInvStep
<1>3. PollerInv => PollerTypeOK
  BY DEF PollerInv
<1> QED BY <1>1, <1>2, <1>3, PTL DEF PollerSpec

\* With the poller a message is never in two places, and one that was deleted or
\* processed does not come back.
THEOREM PollerNeverTwice == PollerSpec => []NeverTwice
<1>1. PollerInit => PollerInv /\ Accounts
  BY PollerInitInv
<1>2. PollerInv /\ Accounts /\ [PollerNext]_allVars => PollerInv' /\ Accounts'
  BY PollerInvStep
<1>3. PollerInv /\ Accounts => NeverTwice
  BY AccountsNeverTwice DEF PollerInv, PollerTypeOK
<1> QED BY <1>1, <1>2, <1>3, PTL DEF PollerSpec

\* With the poller, too, an accepted message stays in some queue until it is
\* processed, deleted, purged, expired or goes down with its queue.
THEOREM PollerNothingLost == NoEncryptedRedrive /\ PollerSpec => []NothingLost
<1> SUFFICES ASSUME NoEncryptedRedrive PROVE PollerSpec => []NothingLost
  OBVIOUS
<1> DEFINE Inv == PollerInv /\ Accounts /\ Accounted /\ Settings
<1>1. PollerInit => Inv
  <2>1. PollerInit => Settings
    BY InitSettings DEF PollerInit
  <2> QED BY <2>1, PollerInitInv
<1>2. Inv /\ [PollerNext]_allVars => Inv'
  <2> SUFFICES ASSUME Inv, [PollerNext]_allVars PROVE Inv'
    OBVIOUS
  <2>1. \A q \in EncryptedQueues : queues[q].redrive = NoQueue
    BY ConstantsAssumption DEF NoEncryptedRedrive, Settings
  <2>2. PollerInv' /\ Accounts'
    BY PollerInvStep
  <2>3. Accounted' /\ Settings'
    BY <2>1, PollerKeeps
  <2> QED BY <2>2, <2>3
<1>3. Inv => NothingLost
  BY AccountedNothingLost DEF PollerInv, PollerTypeOK
<1> QED BY <1>1, <1>2, <1>3, PTL DEF PollerSpec

-----------------------------------------------------------------------------
(* A batch the function has. *)

\* Message i is gone, or hidden in queue q by the poll.
HiddenUntil(q, i) ==
    \/ i \in gone
    \/ \E m \in Waiting(queues[q]) : m.id = i /\ m.visible_at = polled_at + VisibilityTimeout

\* Within the visibility timeout this is so of every message of the batch.
HiddenInv ==
    (mapping # NoMapping /\ now < polled_at + VisibilityTimeout) =>
        \A i \in matched : HiddenUntil(SourceOf[mapping], i)

\* Consumers, producers and time leave it so.
LEMMA HiddenQueueStep ==
    ASSUME ForcedQueues = {}, RedriveSources = {}, PollerInv, TypeOK', Accounts, HandleInv, HiddenInv,
           [Next]_vars, UNCHANGED poller
    PROVE  HiddenInv'
<1> DEFINE q == SourceOf[mapping]
           v == polled_at + VisibilityTimeout
<1>1. UNCHANGED <<mapping, polled_at, matched>>
  BY DEF poller
<1>2. SUFFICES ASSUME mapping # NoMapping, now' < v, NEW i \in matched
               PROVE  i \in gone' \/ \E m \in Waiting(queues'[q]) : m.id = i /\ m.visible_at = v
  BY <1>1 DEF HiddenInv, HiddenUntil, Waiting, Elems
<1>3. TypeOK /\ mapping \in Mappings /\ polled_at \in Nat
  BY <1>2 DEF PollerInv, PollerTypeOK, TypeOK
<1>4. q \in Queues /\ v \in Nat
  BY <1>3, PollerAssumption
<1>5. Evolves /\ Grows
  BY <1>3, StepEvolves, StepGrows
<1>6. now \in Nat /\ now' \in Nat /\ now <= now' /\ gone \subseteq gone'
  BY <1>3, <1>5 DEF TypeOK, Grows
<1>7. now < v
  BY <1>2, <1>4, <1>6
<1>8. i \in gone \/ \E m \in Waiting(queues[q]) : m.id = i /\ m.visible_at = v
  BY <1>2, <1>7 DEF HiddenInv, HiddenUntil
<1> HIDE DEF q, v
<1>9. CASE i \in gone
  BY <1>6, <1>9
<1>10. CASE \E m \in Waiting(queues[q]) : m.id = i /\ m.visible_at = v
  <2>1. PICK m \in Waiting(queues[q]) : m.id = i /\ m.visible_at = v
    BY <1>10
  <2>2. WaitingStays(q, queues'[q], m)
    BY <1>4, <1>5 DEF Evolves, EvolvesTo
  <2>3. i \in Ids(queues[q].messages)
    BY <2>1, IdsElems DEF Waiting
  <2>4. i \notin Reachable(queues[q])
    BY <1>3, <1>4, <2>3, WaitingUnreachable
  <2>5. ~IsVisible(m)
    BY <1>4, <1>6, <1>7, <2>1 DEF IsVisible, None
  <2>6. i \in gone' \/ m \in Waiting(queues'[q])
    BY <2>1, <2>2, <2>4, <2>5 DEF WaitingStays
  <2> QED BY <2>1, <2>6
<1> QED BY <1>8, <1>9, <1>10

\* So does the poller.
LEMMA HiddenPollerStep ==
    ASSUME PollerInv, PollerInv', Accounts, HiddenInv, Poller
    PROVE  HiddenInv'
<1>t. TypeOK /\ polled_at \in Nat
  BY DEF PollerInv, PollerTypeOK, TypeOK
<1>0. ASSUME mapping' = NoMapping PROVE HiddenInv'
  BY <1>0 DEF HiddenInv
<1>f. ASSUME NEW e, Finish(e) PROVE HiddenInv'
  BY <1>0, <1>f DEF Finish
<1>1. CASE StartPoll
  <2>1. step = "idle" /\ mapping' = mapping
    BY <1>1 DEF StartPoll
  <2> QED BY <1>0, <2>1 DEF PollerInv, PollerTypeOK
<1>2. ASSUME NEW e \in Mappings, FindNothing(e) \/ HoldBatch(e) PROVE HiddenInv'
  BY <1>2, <1>f DEF FindNothing, HoldBatch
<1>3. ASSUME NEW e \in Mappings, TakeBatch(e) PROVE HiddenInv'
  <2> DEFINE q == SourceOf[e]
             P == Hidden(e)
             v == polled_at + VisibilityTimeout
  <2>1. /\ q \in Queues
        /\ \A i \in BatchIds(e) : \E m \in Waiting(P) : m.id = i /\ m.visible_at = v
    BY <1>t, HiddenFields
  <2>2. /\ queues' = [queues EXCEPT ![q] = P]
        /\ mapping' = e /\ matched' = BatchIds(e) /\ polled_at' = polled_at
    BY <1>3 DEF TakeBatch
  <2> HIDE DEF q, P, v
  <2>3. queues'[q] = P
    BY <1>t, <2>1, <2>2 DEF TypeOK
  <2>4. \A i \in matched' : \E m \in Waiting(queues'[q]) : m.id = i /\ m.visible_at = v
    BY <2>1, <2>2, <2>3
  <2> QED BY <2>2, <2>4 DEF HiddenInv, HiddenUntil, Waiting, Elems, q, v
<1>4. ASSUME NEW ids, DropFiltered(ids) PROVE HiddenInv'
  <2>1. CASE Finish(mapping)
    BY <1>f, <2>1
  <2>2. CASE step' = "invoke" /\ matched' = matched \ ids /\ UNCHANGED <<todo, mapping, failed>>
    <3> DEFINE q == SourceOf[mapping]
               P == Removed(q, ids)
               v == polled_at + VisibilityTimeout
    <3>1. /\ queues' = [queues EXCEPT ![q] = P] /\ gone \subseteq gone' /\ now' = now
          /\ polled_at' = polled_at /\ mapping' = mapping /\ step = "filter"
      BY <1>4, <2>2 DEF DropFiltered
    <3>2. mapping \in Mappings
      BY <3>1 DEF PollerInv, PollerTypeOK
    <3>3. q \in Queues
      BY <3>2, PollerAssumption
    <3>4. \A m \in Waiting(queues[q]) : m.id \notin ids => m \in Waiting(P)
      BY <1>t, <3>3, RemovedFields
    <3> HIDE DEF P
    <3>5. queues'[q] = P
      BY <1>t, <3>1, <3>3 DEF TypeOK
    <3>6. ASSUME now < v, NEW i \in matched', mapping # NoMapping
          PROVE  i \in gone' \/ \E m \in Waiting(queues'[q]) : m.id = i /\ m.visible_at = v
      <4>1. i \in matched /\ i \notin ids
        BY <2>2, <3>6
      <4>2. i \in gone \/ \E m \in Waiting(queues[q]) : m.id = i /\ m.visible_at = v
        BY <3>6, <4>1 DEF HiddenInv, HiddenUntil
      <4> QED BY <3>1, <3>4, <3>5, <4>1, <4>2
    <3> QED BY <3>1, <3>6 DEF HiddenInv, HiddenUntil, Waiting, Elems
  <2> QED BY <1>4, <2>1, <2>2 DEF DropFiltered
<1>5. ASSUME NEW ids, Invoke(ids) PROVE HiddenInv'
  <2>1. UNCHANGED <<queues, gone, now, mapping, matched, polled_at>>
    BY <1>5 DEF Invoke, vars
  <2> QED BY <2>1 DEF HiddenInv, HiddenUntil, Waiting, Elems
<1>6. CASE Settle
  BY <1>6, <1>f DEF Settle
<1> QED BY <1>1, <1>2, <1>3, <1>4, <1>5, <1>6 DEF Poller

\* Within its visibility timeout a message the poller has taken for the function
\* is the function's alone: whatever consumers do between the poller's locks,
\* nobody receives it.  The force-dlq endpoint and message-move tasks, which take
\* hidden messages out of a queue too, are not used.
THEOREM PollerHiddenFromConsumers ==
    (ForcedQueues = {} /\ RedriveSources = {}) /\ PollerSpec => []HiddenFromConsumers
<1> SUFFICES ASSUME ForcedQueues = {}, RedriveSources = {} PROVE PollerSpec => []HiddenFromConsumers
  OBVIOUS
<1> DEFINE Inv == PollerInv /\ Accounts /\ Settings /\ HandleInv /\ HiddenInv
<1>1. PollerInit => Inv
  <2> SUFFICES ASSUME PollerInit PROVE HandleInv /\ HiddenInv
    BY PollerInitInv, InitSettings DEF PollerInit
  <2>1. HandleInv
    BY InitEmpty DEF PollerInit, HandleInv
  <2>2. HiddenInv
    BY DEF PollerInit, HiddenInv
  <2> QED BY <2>1, <2>2
<1>2. Inv /\ [PollerNext]_allVars => Inv'
  <2> SUFFICES ASSUME Inv, [PollerNext]_allVars PROVE Inv'
    OBVIOUS
  <2>1. PollerInv' /\ Accounts' /\ Settings'
    BY PollerInvStep, PollerKeeps
  <2>t. TypeOK /\ TypeOK' /\ sent' \in Nat
    BY <2>1 DEF PollerInv, PollerTypeOK, TypeOK
  <2>2. CASE Poller
    <3>1. HiddenInv'
      BY <2>1, <2>2, HiddenPollerStep
    <3>2. CASE UNCHANGED vars
      <4>1. [Next]_vars
        BY <3>2
      <4>2. HandleInv'
        BY <2>t, <4>1, StepEvolves, StepGrows, HandleStep
      <4> QED BY <2>1, <3>1, <4>2
    <3>3. CASE \E q \in Queues : \E P, lost : Polls(q, P, lost)
      BY <2>1, <2>t, <3>1, <3>3, PollsHandles
    <3> QED BY <2>2, <3>2, <3>3, PollerEffect
  <2>3. CASE [Next]_vars /\ UNCHANGED poller
    <3>1. HiddenInv'
      BY <2>t, <2>3, HiddenQueueStep
    <3>2. HandleInv'
      BY <2>t, <2>3, StepEvolves, StepGrows, HandleStep
    <3> QED BY <2>1, <3>1, <3>2
  <2> QED BY <2>2, <2>3 DEF PollerNext, allVars
<1>3. Inv => HiddenFromConsumers
  <2> SUFFICES ASSUME Inv, mapping # NoMapping, now < polled_at + VisibilityTimeout,
                      NEW i \in matched
               PROVE  i \notin Ids(queues[SourceOf[mapping]].inflight)
    BY DEF HiddenFromConsumers
  <2> DEFINE q == SourceOf[mapping]
  <2>1. mapping \in Mappings
    BY DEF PollerInv, PollerTypeOK
  <2>2. q \in Queues
    BY <2>1, PollerAssumption
  <2>3. HiddenUntil(q, i)
    BY DEF HiddenInv
  <2> HIDE DEF q
  <2>4. i \in gone \/ i \in Ids(queues[q].messages)
    BY <2>3, IdsElems DEF HiddenUntil, Waiting
  <2>5. i \notin Ids(queues[q].inflight)
    BY <2>2, <2>4 DEF Accounts, Spread, Tidy, Everything, Holds
  <2> QED BY <2>5 DEF q
<1> HIDE DEF Inv
<1> QED BY <1>1, <1>2, <1>3, PTL DEF PollerSpec
=============================================================================
