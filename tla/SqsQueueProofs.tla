--------------------------- MODULE SqsQueueProofs ---------------------------
(***************************************************************************)
(* Proofs about the queues (SqsQueue): where messages are.                  *)
(*                                                                          *)
(* First what each operation does to the lists of a queue, as sets of       *)
(* messages and of ids; then, action by action, that a message is in one    *)
(* place at a time (Accounts) and that none is lost (Accounted); then the   *)
(* deduplication cache (DedupInv).                                          *)
(***************************************************************************)
EXTENDS SqsQueue, DequeProofs

\* The messages of a list.
Elems(s) == {s[i] : i \in DOMAIN s}

\* No message is in a list twice.
Distinct(s) == \A j, k \in DOMAIN s : s[j].id = s[k].id => j = k

\* The ids of a list are those of its messages.
LEMMA IdsElems ==
    ASSUME NEW s
    PROVE  Ids(s) = {m.id : m \in Elems(s)}
  BY DEF Ids, Elems

\* In a list without repetitions an id names one message.
LEMMA DistinctElems ==
    ASSUME NEW s, Distinct(s), NEW m \in Elems(s), NEW n \in Elems(s), m.id = n.id
    PROVE  m = n
  BY DEF Distinct, Elems

\* What a selection lists.
LEMMA ListsElems ==
    ASSUME NEW s, NEW t, NEW D, NEW f, Lists(t, s, D, f), D \subseteq DOMAIN s
    PROVE  /\ Elems(t) = {s[i] : i \in D}
           /\ Distinct(s) => Distinct(t)
<1>1. Elems(t) = {s[i] : i \in D}
  <2>1. ASSUME NEW m \in Elems(t) PROVE m \in {s[i] : i \in D}
    BY DEF Elems, Lists
  <2>2. ASSUME NEW i \in D PROVE s[i] \in Elems(t)
    <3>1. PICK k \in DOMAIN t : f[k] = i
      BY DEF Lists
    <3>2. t[k] = s[i]
      BY <3>1 DEF Lists
    <3> QED BY <3>2 DEF Elems
  <2> QED BY <2>1, <2>2
<1>2. ASSUME Distinct(s) PROVE Distinct(t)
  <2> SUFFICES ASSUME NEW j \in DOMAIN t, NEW k \in DOMAIN t, t[j].id = t[k].id PROVE j = k
    BY DEF Distinct
  <2>1. f[j] \in DOMAIN s /\ f[k] \in DOMAIN s /\ s[f[j]].id = s[f[k]].id
    BY DEF Lists
  <2>2. f[j] = f[k]
    BY <1>2, <2>1 DEF Distinct
  <2> QED BY <2>2 DEF Lists
<1> QED BY <1>1, <1>2

\* What a retain keeps.
LEMMA KeepMessages ==
    ASSUME NEW S, NEW s \in Seq(S), NEW I \in SUBSET DOMAIN s
    PROVE  /\ Keep(s, I) \in Seq(S)
           /\ Elems(Keep(s, I)) = {s[i] : i \in I}
           /\ Distinct(s) => Distinct(Keep(s, I))
<1>1. Keep(s, I) \in Seq(S)
  BY KeepType
<1>2. PICK f : Lists(Keep(s, I), s, I, f)
  BY KeepLists
<1> QED BY <1>1, <1>2, ListsElems

\* What a sort of a selection keeps.
LEMMA ArrangeMessages ==
    ASSUME NEW S, NEW s \in Seq(S), NEW D, NEW key, IsKey(key, D), D \subseteq DOMAIN s
    PROVE  /\ Arrange(s, key) \in Seq(S)
           /\ Elems(Arrange(s, key)) = {s[i] : i \in D}
           /\ Distinct(s) => Distinct(Arrange(s, key))
<1>1. Arrange(s, key) \in Seq(S)
  BY ArrangeType
<1>2. PICK f : Lists(Arrange(s, key), s, D, f)
  BY ArrangeLists
<1> QED BY <1>1, <1>2, ListsElems

\* Two lists one after the other.
LEMMA ConcatMessages ==
    ASSUME NEW S, NEW s \in Seq(S), NEW t \in Seq(S)
    PROVE  /\ s \o t \in Seq(S)
           /\ Elems(s \o t) = Elems(s) \cup Elems(t)
           /\ Ids(s \o t) = Ids(s) \cup Ids(t)
           /\ (Distinct(s) /\ Distinct(t) /\ Ids(s) \cap Ids(t) = {}) => Distinct(s \o t)
<1> DEFINE u == s \o t
           n == Len(s)
<1>1. /\ u \in Seq(S) /\ n \in Nat
      /\ \A i \in DOMAIN s : i \in DOMAIN u /\ u[i] = s[i]
      /\ \A i \in DOMAIN t : n + i \in DOMAIN u /\ u[n + i] = t[i]
      /\ \A k \in DOMAIN u : k \in Int /\ (k \in DOMAIN s \/ (k - n \in DOMAIN t /\ k \notin DOMAIN s /\ n + (k - n) = k))
  OBVIOUS
<1> HIDE DEF u, n
<1>2. \A k \in DOMAIN u : \/ k \in DOMAIN s /\ u[k] = s[k]
                          \/ k - n \in DOMAIN t /\ u[k] = t[k - n]
  BY <1>1
<1>3. Elems(u) = Elems(s) \cup Elems(t)
  <2>1. \A m \in Elems(u) : m \in Elems(s) \cup Elems(t)
    BY <1>2 DEF Elems
  <2>2. \A m \in Elems(s) : m \in Elems(u)
    BY <1>1 DEF Elems
  <2>3. \A m \in Elems(t) : m \in Elems(u)
    BY <1>1 DEF Elems
  <2> QED BY <2>1, <2>2, <2>3
<1>4. Ids(u) = Ids(s) \cup Ids(t)
  BY <1>3, IdsElems
<1>5. ASSUME Distinct(s), Distinct(t), Ids(s) \cap Ids(t) = {} PROVE Distinct(u)
  <2> SUFFICES ASSUME NEW j \in DOMAIN u, NEW k \in DOMAIN u, u[j].id = u[k].id PROVE j = k
    BY DEF Distinct
  <2>1. \A i \in DOMAIN s : s[i].id \in Ids(s)
    BY DEF Ids
  <2>2. \A i \in DOMAIN t : t[i].id \in Ids(t)
    BY DEF Ids
  <2>3. CASE j \in DOMAIN s /\ k \in DOMAIN s
    BY <1>1, <1>5, <2>3 DEF Distinct
  <2>4. CASE j \notin DOMAIN s /\ k \notin DOMAIN s
    <3>1. j - n \in DOMAIN t /\ k - n \in DOMAIN t /\ t[j - n].id = t[k - n].id
      BY <1>1, <2>4
    <3>2. j - n = k - n
      BY <1>5, <3>1 DEF Distinct
    <3> QED BY <1>1, <3>2
  <2>5. CASE j \in DOMAIN s /\ k \notin DOMAIN s
    BY <1>1, <1>5, <2>1, <2>2, <2>5
  <2>6. CASE j \notin DOMAIN s /\ k \in DOMAIN s
    BY <1>1, <1>5, <2>1, <2>2, <2>6
  <2> QED BY <2>3, <2>4, <2>5, <2>6
<1> QED BY <1>1, <1>3, <1>4, <1>5 DEF u

\* A list whose messages are changed in place, but for their ids.
LEMMA MapMessages ==
    ASSUME NEW s \in Seq(Message), NEW t,
           DOMAIN t = DOMAIN s, t = [i \in DOMAIN t |-> t[i]],
           \A i \in DOMAIN s : t[i] \in Message /\ t[i].id = s[i].id
    PROVE  /\ t \in Seq(Message) /\ Ids(t) = Ids(s)
           /\ Distinct(s) => Distinct(t)
<1>1. Len(s) \in Nat /\ DOMAIN s = 1..Len(s)
  OBVIOUS
<1>2. t \in Seq(Message)
  BY <1>1
<1>3. Ids(t) = Ids(s)
  BY DEF Ids
<1>4. Distinct(s) => Distinct(t)
  BY DEF Distinct
<1> QED BY <1>2, <1>3, <1>4

\* The fields of messages that the changes of a message leave alone.
Same(m, n) == n.id = m.id /\ n.group = m.group /\ n.seq = m.seq /\ n.created = m.created

\* A message nobody holds.
LEMMA UnleasedFields ==
    ASSUME NEW m \in Message
    PROVE  /\ Unleased(m) \in Message /\ Same(m, Unleased(m))
           /\ Unleased(m).visible_at = None /\ Unleased(m).receipt_handle = None
           /\ Unleased(m).receive_count = m.receive_count
  BY DEF Unleased, Message, Same

\* A message with a fresh receive history.
LEMMA RestartedFields ==
    ASSUME NEW m \in Message
    PROVE  /\ Restarted(m) \in Message /\ Same(m, Restarted(m))
           /\ Restarted(m).visible_at = None /\ Restarted(m).receipt_handle = None
           /\ Restarted(m).receive_count = 0
<1> DEFINE u == Unleased(m)
<1>1. u \in Message /\ Same(m, u) /\ u.visible_at = None /\ u.receipt_handle = None
  BY UnleasedFields
<1> HIDE DEF u
<1>2. /\ [u EXCEPT !.receive_count = 0] \in Message /\ Same(u, [u EXCEPT !.receive_count = 0])
      /\ [u EXCEPT !.receive_count = 0].visible_at = u.visible_at
      /\ [u EXCEPT !.receive_count = 0].receipt_handle = u.receipt_handle
      /\ [u EXCEPT !.receive_count = 0].receive_count = 0
  BY <1>1 DEF Message, Same
<1> QED BY <1>1, <1>2 DEF Restarted, u, Same

\* A redriven message keeps its handle.
LEMMA RedrivenFields ==
    ASSUME NEW m \in Message
    PROVE  /\ Redriven(m) \in Message /\ Same(m, Redriven(m))
           /\ Redriven(m).visible_at = None /\ Redriven(m).receipt_handle = m.receipt_handle
           /\ Redriven(m).receive_count = 0
  BY DEF Redriven, Message, Same

\* A message with another visibility.
LEMMA VisibleAtFields ==
    ASSUME NEW m \in Message, NEW t \in Nat
    PROVE  /\ VisibleAt(m, t) \in Message /\ Same(m, VisibleAt(m, t))
           /\ VisibleAt(m, t).visible_at = t /\ VisibleAt(m, t).receipt_handle = m.receipt_handle
           /\ VisibleAt(m, t).receive_count = m.receive_count
  BY DEF VisibleAt, Message, Same

\* A message handed out.
LEMMA HandOutFields ==
    ASSUME NEW m \in Message, NEW vt \in Nat, now \in Nat, minted \in [MsgIds -> Nat]
    PROVE  /\ HandOut(m, vt) \in Message /\ Same(m, HandOut(m, vt))
           /\ HandOut(m, vt).visible_at = now + vt
           /\ HandOut(m, vt).receipt_handle = minted[m.id] + 1
           /\ HandOut(m, vt).receive_count = m.receive_count + 1
<1> DEFINE v == now + vt
           h == minted[m.id] + 1
           c == m.receive_count + 1
<1>1. v \in Nat /\ h \in Nat /\ c \in Nat
  BY DEF Message
<1>2. HandOut(m, vt) = [m EXCEPT !.receive_count = c, !.visible_at = v, !.receipt_handle = h]
  BY DEF HandOut
<1> HIDE DEF v, h, c
<1>3. /\ HandOut(m, vt) \in Message /\ Same(m, HandOut(m, vt))
      /\ HandOut(m, vt).visible_at = v
      /\ HandOut(m, vt).receipt_handle = h
      /\ HandOut(m, vt).receive_count = c
  BY <1>1, <1>2 DEF Message, Same
<1> QED BY <1>3 DEF v, h, c

\* A new message.
LEMMA NewMessageFields ==
    ASSUME NEW q \in Queues, NEW Q \in Queue, NEW e, e.group \in Groups \cup {NoGroup},
           e.delay \in Nat, NEW id \in MsgIds, now \in Nat
    PROVE  /\ NewMessage(q, Q, e, id) \in Message /\ NewMessage(q, Q, e, id).id = id
           /\ NewMessage(q, Q, e, id).group = e.group
           /\ NewMessage(q, Q, e, id).receipt_handle = None
           /\ NewMessage(q, Q, e, id).receive_count = 0
           /\ NewMessage(q, Q, e, id).seq = IF q \in FifoQueues THEN Q.next_sequence_number ELSE None
<1>1. Q.next_sequence_number \in Nat
  BY DEF Queue
<1> QED BY <1>1 DEF NewMessage, Message, None

-----------------------------------------------------------------------------
(* Lists of changed messages. *)

\* UnleaseAll.
LEMMA UnleaseAllList ==
    ASSUME NEW s \in Seq(Message)
    PROVE  /\ UnleaseAll(s) \in Seq(Message) /\ Ids(UnleaseAll(s)) = Ids(s)
           /\ Elems(UnleaseAll(s)) = {Unleased(m) : m \in Elems(s)}
           /\ Distinct(s) => Distinct(UnleaseAll(s))
<1> DEFINE t == UnleaseAll(s)
<1>1. DOMAIN t = DOMAIN s /\ t = [i \in DOMAIN t |-> t[i]] /\ \A i \in DOMAIN s : t[i] = Unleased(s[i])
  BY DEF UnleaseAll
<1>2. \A i \in DOMAIN s : s[i] \in Message
  OBVIOUS
<1>3. \A i \in DOMAIN s : t[i] \in Message /\ t[i].id = s[i].id
  BY <1>1, <1>2, UnleasedFields DEF Same
<1>4. Elems(t) = {Unleased(m) : m \in Elems(s)}
  BY <1>1 DEF Elems
<1> HIDE DEF t
<1>5. t \in Seq(Message) /\ Ids(t) = Ids(s) /\ (Distinct(s) => Distinct(t))
  BY <1>1, <1>3, MapMessages
<1> QED BY <1>4, <1>5 DEF t

\* Restart.
LEMMA RestartList ==
    ASSUME NEW s \in Seq(Message)
    PROVE  /\ Restart(s) \in Seq(Message) /\ Ids(Restart(s)) = Ids(s)
           /\ Elems(Restart(s)) = {Restarted(m) : m \in Elems(s)}
           /\ Distinct(s) => Distinct(Restart(s))
<1> DEFINE t == Restart(s)
<1>1. DOMAIN t = DOMAIN s /\ t = [i \in DOMAIN t |-> t[i]] /\ \A i \in DOMAIN s : t[i] = Restarted(s[i])
  BY DEF Restart
<1>2. \A i \in DOMAIN s : s[i] \in Message
  OBVIOUS
<1>3. \A i \in DOMAIN s : t[i] \in Message /\ t[i].id = s[i].id
  BY <1>1, <1>2, RestartedFields DEF Same
<1>4. Elems(t) = {Restarted(m) : m \in Elems(s)}
  BY <1>1 DEF Elems
<1> HIDE DEF t
<1>5. t \in Seq(Message) /\ Ids(t) = Ids(s) /\ (Distinct(s) => Distinct(t))
  BY <1>1, <1>3, MapMessages
<1> QED BY <1>4, <1>5 DEF t

\* A list of redriven messages.
LEMMA RedrivenList ==
    ASSUME NEW s \in Seq(Message), NEW t, t = [i \in DOMAIN s |-> Redriven(s[i])]
    PROVE  /\ t \in Seq(Message) /\ Ids(t) = Ids(s)
           /\ Elems(t) = {Redriven(m) : m \in Elems(s)}
           /\ Distinct(s) => Distinct(t)
<1>1. DOMAIN t = DOMAIN s /\ t = [i \in DOMAIN t |-> t[i]] /\ \A i \in DOMAIN s : t[i] = Redriven(s[i])
  OBVIOUS
<1>2. \A i \in DOMAIN s : s[i] \in Message
  OBVIOUS
<1>3. \A i \in DOMAIN s : t[i] \in Message /\ t[i].id = s[i].id
  BY <1>1, <1>2, RedrivenFields DEF Same
<1>4. Elems(t) = {Redriven(m) : m \in Elems(s)}
  BY <1>1 DEF Elems
<1>5. t \in Seq(Message) /\ Ids(t) = Ids(s) /\ (Distinct(s) => Distinct(t))
  BY <1>1, <1>3, MapMessages
<1> QED BY <1>4, <1>5

\* A list of messages handed out.
LEMMA HandOutList ==
    ASSUME NEW s \in Seq(Message), NEW vt \in Nat, now \in Nat, minted \in [MsgIds -> Nat],
           NEW t, t = [i \in DOMAIN s |-> HandOut(s[i], vt)]
    PROVE  /\ t \in Seq(Message) /\ Ids(t) = Ids(s)
           /\ Elems(t) = {HandOut(m, vt) : m \in Elems(s)}
           /\ Distinct(s) => Distinct(t)
<1>1. DOMAIN t = DOMAIN s /\ t = [i \in DOMAIN t |-> t[i]] /\ \A i \in DOMAIN s : t[i] = HandOut(s[i], vt)
  OBVIOUS
<1>2. \A i \in DOMAIN s : s[i] \in Message
  OBVIOUS
<1>3. \A i \in DOMAIN s : t[i] \in Message /\ t[i].id = s[i].id
  BY <1>1, <1>2, HandOutFields DEF Same
<1>4. Elems(t) = {HandOut(m, vt) : m \in Elems(s)}
  BY <1>1 DEF Elems
<1>5. t \in Seq(Message) /\ Ids(t) = Ids(s) /\ (Distinct(s) => Distinct(t))
  BY <1>1, <1>3, MapMessages
<1> QED BY <1>4, <1>5

\* A list with the visibility of some messages changed.
LEMMA RevisibleList ==
    ASSUME NEW s \in Seq(Message), NEW ids, NEW t \in Nat, now \in Nat
    PROVE  /\ Revisible(s, ids, t) \in Seq(Message) /\ Ids(Revisible(s, ids, t)) = Ids(s)
           /\ Elems(Revisible(s, ids, t)) =
                 {IF m.id \in ids THEN VisibleAt(m, now + t) ELSE m : m \in Elems(s)}
           /\ Distinct(s) => Distinct(Revisible(s, ids, t))
<1> DEFINE r == Revisible(s, ids, t)
           v == now + t
<1>1. /\ DOMAIN r = DOMAIN s /\ r = [i \in DOMAIN r |-> r[i]]
      /\ \A i \in DOMAIN s : r[i] = IF s[i].id \in ids THEN VisibleAt(s[i], v) ELSE s[i]
  BY DEF Revisible
<1>2. (\A i \in DOMAIN s : s[i] \in Message) /\ v \in Nat
  OBVIOUS
<1>a. Elems(r) = {IF m.id \in ids THEN VisibleAt(m, v) ELSE m : m \in Elems(s)}
  BY <1>1 DEF Elems
<1> HIDE DEF v, r
<1>3. ASSUME NEW i \in DOMAIN s PROVE r[i] \in Message /\ r[i].id = s[i].id
  <2>1. s[i] \in Message /\ VisibleAt(s[i], v) \in Message /\ VisibleAt(s[i], v).id = s[i].id
    BY <1>2, VisibleAtFields DEF Same
  <2> QED BY <1>1, <2>1
<1>5. r \in Seq(Message) /\ Ids(r) = Ids(s) /\ (Distinct(s) => Distinct(r))
  BY <1>1, <1>3, MapMessages
<1> QED BY <1>a, <1>5 DEF r, v

\* The waiting and the in-flight messages of a queue, and the ids it holds.
Waiting(Q) == Elems(Q.messages)
Flying(Q) == Elems(Q.inflight)
Holds(Q) == Ids(Q.messages) \cup Ids(Q.inflight)

\* No message is twice in a queue.
Tidy(Q) ==
    /\ Distinct(Q.messages) /\ Distinct(Q.inflight)
    /\ Ids(Q.messages) \cap Ids(Q.inflight) = {}

\* What an operation on a queue may leave alone.
SameLists(P, Q) == P.messages = Q.messages /\ P.inflight = Q.inflight
SameHandles(P, Q) ==
    /\ P.receipt_handle_map = Q.receipt_handle_map
    /\ P.receive_attempt_cache = Q.receive_attempt_cache
SameDedup(P, Q) == P.dedup_cache = Q.dedup_cache

\* The type of a queue, field by field.
LEMMA QueueFields ==
    ASSUME NEW Q \in Queue
    PROVE  /\ Q.messages \in Seq(Message) /\ Q.inflight \in Seq(Message)
           /\ Q.receipt_handle_map \in [MsgIds -> SUBSET Nat]
           /\ Q.dedup_cache \in [Keys -> DedupEntry]
           /\ Q.receive_attempt_cache \in [Attempts -> ReceiveAttemptEntry]
           /\ Q.next_sequence_number \in Nat
           /\ Q.redrive \in Queues \cup {NoQueue}
           /\ Waiting(Q) \subseteq Message /\ Flying(Q) \subseteq Message
           /\ Holds(Q) \subseteq MsgIds
<1>1. Q.messages \in Seq(Message) /\ Q.inflight \in Seq(Message)
  BY DEF Queue
<1>2. Waiting(Q) \subseteq Message /\ Flying(Q) \subseteq Message
  BY <1>1 DEF Waiting, Flying, Elems
<1>3. \A m \in Message : m.id \in MsgIds
  BY DEF Message
<1>4. Holds(Q) \subseteq MsgIds
  BY <1>2, <1>3, IdsElems DEF Holds, Waiting, Flying
<1> QED BY <1>1, <1>2, <1>4 DEF Queue

\* A queue that was just created.
LEMMA NewQueueFields ==
    ASSUME NEW r \in Queues \cup {NoQueue}
    PROVE  /\ NewQueue(r) \in Queue
           /\ NewQueue(r).messages = <<>> /\ NewQueue(r).inflight = <<>>
           /\ \A i \in MsgIds : NewQueue(r).receipt_handle_map[i] = {}
           /\ \A k \in Keys : NewQueue(r).dedup_cache[k] = NoDedup
           /\ \A a \in Attempts : NewQueue(r).receive_attempt_cache[a] = NoReceive
           /\ NewQueue(r).redrive = r /\ NewQueue(r).next_sequence_number = 0
           /\ Waiting(NewQueue(r)) = {} /\ Flying(NewQueue(r)) = {} /\ Holds(NewQueue(r)) = {}
           /\ Tidy(NewQueue(r))
<1>1. NoDedup \in DedupEntry
  BY DEF NoDedup, DedupEntry, None
<1>2. NoReceive \in ReceiveAttemptEntry
  BY DEF NoReceive, ReceiveAttemptEntry
<1>3. <<>> \in Seq(Message)
  OBVIOUS
<1>4. NewQueue(r) \in Queue
  BY <1>1, <1>2, <1>3 DEF NewQueue, Queue
<1>5. NewQueue(r).messages = <<>> /\ NewQueue(r).inflight = <<>>
  BY DEF NewQueue
<1>6. Elems(<<>>) = {} /\ Ids(<<>>) = {} /\ Distinct(<<>>)
  BY DEF Elems, Ids, Distinct
<1> QED BY <1>4, <1>5, <1>6 DEF NewQueue, Waiting, Flying, Holds, Tidy

\* Dropping expired deduplication entries.
LEMMA PruneDedupFields ==
    ASSUME NEW Q \in Queue, now \in Nat
    PROVE  /\ PruneDedup(Q) \in Queue
           /\ SameLists(PruneDedup(Q), Q) /\ SameHandles(PruneDedup(Q), Q)
           /\ PruneDedup(Q).redrive = Q.redrive
           /\ PruneDedup(Q).next_sequence_number = Q.next_sequence_number
           /\ \A k \in Keys : PruneDedup(Q).dedup_cache[k]
                = IF Q.dedup_cache[k].expiry > now THEN Q.dedup_cache[k] ELSE NoDedup
<1>1. NoDedup \in DedupEntry
  BY DEF NoDedup, DedupEntry, None
<1> QED BY <1>1 DEF PruneDedup, Queue, SameLists, SameHandles

\* Dropping expired receive attempts.
LEMMA PruneAttemptsFields ==
    ASSUME NEW Q \in Queue, now \in Nat
    PROVE  /\ PruneAttempts(Q) \in Queue
           /\ SameLists(PruneAttempts(Q), Q) /\ SameDedup(PruneAttempts(Q), Q)
           /\ PruneAttempts(Q).redrive = Q.redrive
           /\ PruneAttempts(Q).receipt_handle_map = Q.receipt_handle_map
           /\ PruneAttempts(Q).next_sequence_number = Q.next_sequence_number
           /\ \A a \in Attempts : PruneAttempts(Q).receive_attempt_cache[a]
                = IF Q.receive_attempt_cache[a].expiry > now
                  THEN Q.receive_attempt_cache[a] ELSE NoReceive
<1>1. NoReceive \in ReceiveAttemptEntry
  BY DEF NoReceive, ReceiveAttemptEntry
<1> QED BY <1>1 DEF PruneAttempts, Queue, SameLists, SameDedup

\* Using up a sequence number.
LEMMA UseNumberFields ==
    ASSUME NEW Q \in Queue
    PROVE  /\ UseNumber(Q) \in Queue
           /\ SameLists(UseNumber(Q), Q) /\ SameHandles(UseNumber(Q), Q) /\ SameDedup(UseNumber(Q), Q)
           /\ UseNumber(Q).redrive = Q.redrive
           /\ UseNumber(Q).next_sequence_number = Q.next_sequence_number + 1
<1> DEFINE n == Q.next_sequence_number + 1
<1>1. n \in Nat
  BY QueueFields
<1>2. UseNumber(Q) = [Q EXCEPT !.next_sequence_number = n]
  BY DEF UseNumber
<1> HIDE DEF n
<1>3. /\ UseNumber(Q) \in Queue
      /\ SameLists(UseNumber(Q), Q) /\ SameHandles(UseNumber(Q), Q) /\ SameDedup(UseNumber(Q), Q)
      /\ UseNumber(Q).redrive = Q.redrive
      /\ UseNumber(Q).next_sequence_number = n
  BY <1>1, <1>2 DEF Queue, SameLists, SameHandles, SameDedup
<1> QED BY <1>3 DEF n

\* A queue with other lists.
LEMMA ListsFields ==
    ASSUME NEW Q \in Queue, NEW s \in Seq(Message), NEW f \in Seq(Message)
    PROVE  /\ [Q EXCEPT !.messages = s, !.inflight = f] \in Queue
           /\ [Q EXCEPT !.messages = s, !.inflight = f].messages = s
           /\ [Q EXCEPT !.messages = s, !.inflight = f].inflight = f
           /\ SameHandles([Q EXCEPT !.messages = s, !.inflight = f], Q)
           /\ SameDedup([Q EXCEPT !.messages = s, !.inflight = f], Q)
           /\ [Q EXCEPT !.messages = s, !.inflight = f].redrive = Q.redrive
           /\ [Q EXCEPT !.messages = s, !.inflight = f].next_sequence_number = Q.next_sequence_number
  BY DEF Queue, SameHandles, SameDedup

\* A queue with other waiting messages.
LEMMA MessagesFields ==
    ASSUME NEW Q \in Queue, NEW s \in Seq(Message)
    PROVE  /\ [Q EXCEPT !.messages = s] \in Queue
           /\ [Q EXCEPT !.messages = s].messages = s
           /\ [Q EXCEPT !.messages = s].inflight = Q.inflight
           /\ SameHandles([Q EXCEPT !.messages = s], Q)
           /\ SameDedup([Q EXCEPT !.messages = s], Q)
           /\ [Q EXCEPT !.messages = s].redrive = Q.redrive
           /\ [Q EXCEPT !.messages = s].next_sequence_number = Q.next_sequence_number
  BY DEF Queue, SameHandles, SameDedup

\* Messages that arrive at the back of a queue.
LEMMA ArriveFields ==
    ASSUME NEW Q \in Queue, NEW s \in Seq(Message)
    PROVE  /\ Arrive(Q, s) \in Queue
           /\ SameHandles(Arrive(Q, s), Q) /\ SameDedup(Arrive(Q, s), Q)
           /\ Arrive(Q, s).redrive = Q.redrive
           /\ Arrive(Q, s).inflight = Q.inflight /\ Flying(Arrive(Q, s)) = Flying(Q)
           /\ Arrive(Q, s).messages = Q.messages \o s
           /\ Waiting(Arrive(Q, s)) = Waiting(Q) \cup Elems(s)
           /\ Holds(Arrive(Q, s)) = Holds(Q) \cup Ids(s)
           /\ (Tidy(Q) /\ Distinct(s) /\ Holds(Q) \cap Ids(s) = {}) => Tidy(Arrive(Q, s))
<1> DEFINE t == Q.messages \o s
           A == Arrive(Q, s)
<1>1. Q.messages \in Seq(Message) /\ Q.inflight \in Seq(Message)
  BY QueueFields
<1>2. /\ t \in Seq(Message)
      /\ Elems(t) = Elems(Q.messages) \cup Elems(s)
      /\ Ids(t) = Ids(Q.messages) \cup Ids(s)
      /\ (Distinct(Q.messages) /\ Distinct(s) /\ Ids(Q.messages) \cap Ids(s) = {}) => Distinct(t)
  BY <1>1, ConcatMessages
<1>3. A = [Q EXCEPT !.messages = t]
  BY DEF Arrive
<1>4. A.messages = Q.messages \o s
  <2> HIDE DEF t, A
  <2> QED BY <1>2, <1>3, MessagesFields DEF t
<1> HIDE DEF t, A
<1>5. /\ A \in Queue /\ A.messages = t /\ A.inflight = Q.inflight
      /\ SameHandles(A, Q) /\ SameDedup(A, Q) /\ A.redrive = Q.redrive
  BY <1>2, <1>3, MessagesFields
<1>6. /\ Waiting(A) = Waiting(Q) \cup Elems(s) /\ Flying(A) = Flying(Q)
      /\ Holds(A) = Holds(Q) \cup Ids(s)
  BY <1>2, <1>5 DEF Waiting, Flying, Holds
<1>7. ASSUME Tidy(Q), Distinct(s), Holds(Q) \cap Ids(s) = {} PROVE Tidy(A)
  <2>1. Ids(Q.messages) \cap Ids(s) = {} /\ Ids(Q.inflight) \cap Ids(s) = {}
    BY <1>7 DEF Holds
  <2> QED BY <1>2, <1>5, <1>7, <2>1 DEF Tidy
<1> QED BY <1>4, <1>5, <1>6, <1>7 DEF A

\* A retain by a property of the messages, given as the set M of those that
\* have it.
LEMMA KeepBy ==
    ASSUME NEW S, NEW s \in Seq(S), NEW I, NEW M,
           I \in SUBSET DOMAIN s, \A i \in DOMAIN s : i \in I <=> s[i] \in M
    PROVE  /\ Keep(s, I) \in Seq(S)
           /\ Elems(Keep(s, I)) = Elems(s) \cap M
           /\ Distinct(s) => Distinct(Keep(s, I))
           /\ Ids(Keep(s, I)) \subseteq Ids(s)
<1>1. Keep(s, I) \in Seq(S) /\ Elems(Keep(s, I)) = {s[i] : i \in I} /\ (Distinct(s) => Distinct(Keep(s, I)))
  BY KeepMessages
<1>2. {s[i] : i \in I} = Elems(s) \cap M
  BY DEF Elems
<1>3. Elems(Keep(s, I)) = Elems(s) \cap M
  BY <1>1, <1>2
<1>4. Ids(Keep(s, I)) \subseteq Ids(s)
  BY <1>3, IdsElems
<1> QED BY <1>1, <1>3, <1>4

\* Two selections without a common index have no message in common, and
\* together they have all the messages of the indices.
LEMMA KeepSplit ==
    ASSUME NEW S, NEW s \in Seq(S), NEW I \in SUBSET DOMAIN s, NEW J \in SUBSET DOMAIN s,
           I \cap J = {}, Distinct(s)
    PROVE  Ids(Keep(s, I)) \cap Ids(Keep(s, J)) = {}
<1>1. Elems(Keep(s, I)) = {s[i] : i \in I} /\ Elems(Keep(s, J)) = {s[j] : j \in J}
  BY KeepMessages
<1>2. \A i \in I, j \in J : s[i].id # s[j].id
  BY DEF Distinct
<1> QED BY <1>1, <1>2, IdsElems

-----------------------------------------------------------------------------
\* One message pushed to the back.
LEMMA PushBackFields ==
    ASSUME NEW q \in Queues, NEW Q \in Queue, NEW e, e.group \in Groups \cup {NoGroup},
           e.delay \in Nat, NEW id \in MsgIds, now \in Nat
    PROVE  LET P == PushBack(q, Q, e, id) IN
           /\ P \in Queue
           /\ SameHandles(P, Q) /\ SameDedup(P, Q) /\ P.redrive = Q.redrive
           /\ P.inflight = Q.inflight
           /\ P.messages = Append(Q.messages, NewMessage(q, Q, e, id))
           /\ P.next_sequence_number = IF q \in FifoQueues THEN Q.next_sequence_number + 1
                                       ELSE Q.next_sequence_number
           /\ Waiting(P) = Waiting(Q) \cup {NewMessage(q, Q, e, id)} /\ Flying(P) = Flying(Q)
           /\ Holds(P) = Holds(Q) \cup {id}
           /\ (Tidy(Q) /\ id \notin Holds(Q)) => Tidy(P)
<1> DEFINE P == PushBack(q, Q, e, id)
           m == NewMessage(q, Q, e, id)
           s == Append(Q.messages, m)
           n == IF q \in FifoQueues THEN Q.next_sequence_number + 1 ELSE Q.next_sequence_number
<1> SUFFICES /\ P \in Queue
             /\ SameHandles(P, Q) /\ SameDedup(P, Q) /\ P.redrive = Q.redrive
             /\ P.inflight = Q.inflight /\ P.messages = s /\ P.next_sequence_number = n
             /\ Waiting(P) = Waiting(Q) \cup {m} /\ Flying(P) = Flying(Q)
             /\ Holds(P) = Holds(Q) \cup {id}
             /\ (Tidy(Q) /\ id \notin Holds(Q)) => Tidy(P)
  OBVIOUS
<1>1. m \in Message /\ m.id = id
  BY NewMessageFields
<1>2. Q.messages \in Seq(Message) /\ Q.inflight \in Seq(Message) /\ Q.next_sequence_number \in Nat
  BY QueueFields
<1>3. P = [Q EXCEPT !.messages = s, !.next_sequence_number = n]
  BY DEF PushBack
<1>4. n \in Nat
  BY <1>2
<1> HIDE DEF P, m, n
<1> DEFINE u == <<m>>
<1>5. /\ s \in Seq(Message) /\ s = Q.messages \o u /\ u \in Seq(Message)
      /\ Elems(u) = {m} /\ Ids(u) = {id} /\ Distinct(u)
  BY <1>1, <1>2 DEF Elems, Ids, Distinct
<1> HIDE DEF s, u
<1>6. /\ Elems(s) = Elems(Q.messages) \cup {m} /\ Ids(s) = Ids(Q.messages) \cup {id}
      /\ (Distinct(Q.messages) /\ id \notin Ids(Q.messages)) => Distinct(s)
  <2>1. /\ Elems(s) = Elems(Q.messages) \cup Elems(u) /\ Ids(s) = Ids(Q.messages) \cup Ids(u)
        /\ (Distinct(Q.messages) /\ Distinct(u) /\ Ids(Q.messages) \cap Ids(u) = {}) => Distinct(s)
    BY <1>2, <1>5, ConcatMessages
  <2> QED BY <1>5, <2>1
<1>7. /\ P \in Queue
      /\ SameHandles(P, Q) /\ SameDedup(P, Q) /\ P.redrive = Q.redrive
      /\ P.inflight = Q.inflight /\ P.messages = s /\ P.next_sequence_number = n
  BY <1>3, <1>4, <1>5 DEF Queue, SameHandles, SameDedup
<1>8. /\ Waiting(P) = Waiting(Q) \cup {m} /\ Flying(P) = Flying(Q) /\ Holds(P) = Holds(Q) \cup {id}
  BY <1>6, <1>7 DEF Waiting, Flying, Holds
<1>9. (Tidy(Q) /\ id \notin Holds(Q)) => Tidy(P)
  BY <1>6, <1>7 DEF Tidy, Holds
<1> QED BY <1>7, <1>8, <1>9

\* A deduplication key is a key.
LEMMA DedupKeyType ==
    ASSUME NEW q \in Queues, NEW e \in Entries
    PROVE  DedupKey(q, e) \in Keys /\ e.group \in Groups \cup {NoGroup} /\ e.delay \in Nat
  BY ConstantsAssumption DEF DedupKey, Keys, Entries

\* A queue with another deduplication entry.
LEMMA CacheFields ==
    ASSUME NEW Q \in Queue, NEW k \in Keys, NEW d \in DedupEntry
    PROVE  LET P == [Q EXCEPT !.dedup_cache[k] = d] IN
           /\ P \in Queue
           /\ SameLists(P, Q) /\ SameHandles(P, Q) /\ P.redrive = Q.redrive
           /\ P.next_sequence_number = Q.next_sequence_number
           /\ \A l \in Keys : P.dedup_cache[l] = IF l = k THEN d ELSE Q.dedup_cache[l]
<1> DEFINE c == [Q.dedup_cache EXCEPT ![k] = d]
           P == [Q EXCEPT !.dedup_cache = c]
<1>1. c \in [Keys -> DedupEntry] /\ \A l \in Keys : c[l] = IF l = k THEN d ELSE Q.dedup_cache[l]
  BY QueueFields
<1>2. [Q EXCEPT !.dedup_cache[k] = d] = P
  BY DEF Queue
<1> HIDE DEF c
<1>3. /\ P \in Queue /\ P.dedup_cache = c
      /\ SameLists(P, Q) /\ SameHandles(P, Q) /\ P.redrive = Q.redrive
      /\ P.next_sequence_number = Q.next_sequence_number
  BY <1>1 DEF Queue, SameLists, SameHandles
<1> HIDE DEF P
<1> QED BY <1>1, <1>2, <1>3

\* One message accepted.
LEMMA EnqueueFields ==
    ASSUME NEW q \in Queues, NEW Q \in Queue, NEW e \in Entries, NEW id \in MsgIds, now \in Nat
    PROVE  LET P == Enqueue(q, Q, e, id) IN
           /\ P \in Queue
           /\ SameHandles(P, Q) /\ P.redrive = Q.redrive
           /\ P.inflight = Q.inflight
           /\ P.messages = Append(Q.messages, NewMessage(q, Q, e, id))
           /\ P.next_sequence_number = IF q \in FifoQueues THEN Q.next_sequence_number + 1
                                       ELSE Q.next_sequence_number
           /\ Waiting(P) = Waiting(Q) \cup {NewMessage(q, Q, e, id)} /\ Flying(P) = Flying(Q)
           /\ Holds(P) = Holds(Q) \cup {id}
           /\ (Tidy(Q) /\ id \notin Holds(Q)) => Tidy(P)
           /\ q \notin FifoQueues => SameDedup(P, Q)
           /\ q \in FifoQueues => \A k \in Keys :
                 IF k = DedupKey(q, e) THEN P.dedup_cache[k].expiry = now + DedupWindow
                 ELSE P.dedup_cache[k] =
                         IF Q.dedup_cache[k].expiry > now THEN Q.dedup_cache[k] ELSE NoDedup
<1>1. e.group \in Groups \cup {NoGroup} /\ e.delay \in Nat /\ DedupKey(q, e) \in Keys
  BY DedupKeyType
<1>2. CASE q \notin FifoQueues
  <2>1. Enqueue(q, Q, e, id) = PushBack(q, Q, e, id)
    BY <1>2 DEF Enqueue
  <2> QED BY <1>1, <1>2, <2>1, PushBackFields
<1>3. CASE q \in FifoQueues
  <2> DEFINE R == PruneDedup(Q)
             B == PushBack(q, R, e, id)
             P == Enqueue(q, Q, e, id)
             k == DedupKey(q, e)
             x == now + DedupWindow
             d == [id |-> id, seq |-> Q.next_sequence_number, expiry |-> x]
             m == NewMessage(q, Q, e, id)
  <2> SUFFICES /\ P \in Queue
               /\ SameHandles(P, Q) /\ P.redrive = Q.redrive
               /\ P.inflight = Q.inflight /\ P.messages = Append(Q.messages, m)
               /\ P.next_sequence_number = Q.next_sequence_number + 1
               /\ Waiting(P) = Waiting(Q) \cup {m} /\ Flying(P) = Flying(Q)
               /\ Holds(P) = Holds(Q) \cup {id}
               /\ (Tidy(Q) /\ id \notin Holds(Q)) => Tidy(P)
               /\ \A l \in Keys :
                     IF l = k THEN P.dedup_cache[l].expiry = x
                     ELSE P.dedup_cache[l] =
                             IF Q.dedup_cache[l].expiry > now THEN Q.dedup_cache[l] ELSE NoDedup
    BY <1>3, Zenon
  <2>1. /\ R \in Queue /\ SameLists(R, Q) /\ SameHandles(R, Q) /\ R.redrive = Q.redrive
        /\ R.next_sequence_number = Q.next_sequence_number
        /\ \A l \in Keys : R.dedup_cache[l]
                = IF Q.dedup_cache[l].expiry > now THEN Q.dedup_cache[l] ELSE NoDedup
    BY PruneDedupFields
  <2>2. NewMessage(q, R, e, id) = m
    BY <2>1 DEF NewMessage
  <2>3. x \in Nat /\ Q.next_sequence_number \in Nat
    BY ConstantsAssumption, QueueFields
  <2>4. d \in DedupEntry /\ d.expiry = x
    <3> HIDE DEF x
    <3> QED BY <2>3 DEF DedupEntry
  <2>5. P = [B EXCEPT !.dedup_cache[k] = d]
    BY <1>3 DEF Enqueue
  <2> HIDE DEF R, P, k, d, x, m, B
  <2>6. /\ B \in Queue
        /\ SameHandles(B, R) /\ SameDedup(B, R) /\ B.redrive = R.redrive
        /\ B.inflight = R.inflight /\ B.messages = Append(R.messages, NewMessage(q, R, e, id))
        /\ B.next_sequence_number = IF q \in FifoQueues THEN R.next_sequence_number + 1
                                       ELSE R.next_sequence_number
        /\ Waiting(B) = Waiting(R) \cup {NewMessage(q, R, e, id)} /\ Flying(B) = Flying(R)
        /\ Holds(B) = Holds(R) \cup {id}
        /\ (Tidy(R) /\ id \notin Holds(R)) => Tidy(B)
    BY <1>1, <2>1, PushBackFields DEF B
  <2>7. /\ P \in Queue
        /\ SameLists(P, B) /\ SameHandles(P, B) /\ P.redrive = B.redrive
        /\ P.next_sequence_number = B.next_sequence_number
        /\ \A l \in Keys : P.dedup_cache[l] = IF l = k THEN d ELSE B.dedup_cache[l]
    BY <1>1, <2>4, <2>5, <2>6, CacheFields DEF k
  <2>8. /\ Waiting(R) = Waiting(Q) /\ Flying(R) = Flying(Q) /\ Holds(R) = Holds(Q)
        /\ Tidy(R) <=> Tidy(Q)
        /\ Waiting(P) = Waiting(B) /\ Flying(P) = Flying(B) /\ Holds(P) = Holds(B)
        /\ Tidy(P) <=> Tidy(B)
    BY <2>1, <2>7 DEF SameLists, Waiting, Flying, Holds, Tidy
  <2>9. /\ SameHandles(P, Q) /\ P.redrive = Q.redrive /\ P.inflight = Q.inflight
        /\ P.messages = Append(Q.messages, m)
    BY <2>1, <2>2, <2>6, <2>7 DEF SameHandles, SameLists
  <2>10. P.next_sequence_number = Q.next_sequence_number + 1
    BY <1>3, <2>1, <2>6, <2>7
  <2>11. \A l \in Keys : IF l = k THEN P.dedup_cache[l].expiry = x
                         ELSE P.dedup_cache[l] =
                                 IF Q.dedup_cache[l].expiry > now THEN Q.dedup_cache[l] ELSE NoDedup
    BY <2>1, <2>4, <2>6, <2>7 DEF SameDedup
  <2>12. /\ Waiting(P) = Waiting(Q) \cup {m} /\ Flying(P) = Flying(Q)
         /\ Holds(P) = Holds(Q) \cup {id}
         /\ (Tidy(Q) /\ id \notin Holds(Q)) => Tidy(P)
    BY <2>2, <2>6, <2>8
  <2> QED BY <2>7, <2>9, <2>10, <2>11, <2>12
<1> QED BY <1>2, <1>3

\* A list has the messages the retention period has not run out for.
Fresh == {m \in Message : now - m.created < Retention}

\* What the retention period leaves of a list.
LEMMA RetainedList ==
    ASSUME NEW s \in Seq(Message)
    PROVE  /\ Retained(s) \in Seq(Message)
           /\ Elems(Retained(s)) = Elems(s) \cap Fresh
           /\ Ids(Retained(s)) \subseteq Ids(s)
           /\ Distinct(s) => Distinct(Retained(s))
<1> DEFINE I == {i \in DOMAIN s : now - s[i].created < Retention}
<1>1. I \in SUBSET DOMAIN s /\ \A i \in DOMAIN s : i \in I <=> s[i] \in Fresh
  BY DEF Fresh
<1>2. Retained(s) = Keep(s, I)
  BY DEF Retained
<1> HIDE DEF I
<1>3. /\ Keep(s, I) \in Seq(Message) /\ Elems(Keep(s, I)) = Elems(s) \cap Fresh
      /\ (Distinct(s) => Distinct(Keep(s, I))) /\ Ids(Keep(s, I)) \subseteq Ids(s)
  BY <1>1, KeepBy, Zenon
<1> QED BY <1>2, <1>3

\* Running the retention period: what is left, and that nothing but the expired
\* messages is missing.
LEMMA DropExpiredFields ==
    ASSUME NEW Q \in Queue
    PROVE  LET P == DropExpired(Q) IN
           /\ P \in Queue
           /\ SameHandles(P, Q) /\ SameDedup(P, Q) /\ P.redrive = Q.redrive
           /\ P.next_sequence_number = Q.next_sequence_number
           /\ P.messages = Retained(Q.messages) /\ P.inflight = Retained(Q.inflight)
           /\ Waiting(P) = Waiting(Q) \cap Fresh /\ Flying(P) = Flying(Q) \cap Fresh
           /\ Tidy(Q) => Tidy(P) /\ Holds(P) = Holds(Q) \ ExpiredIds(Q)
           /\ ExpiredIds(Q) \subseteq Holds(Q)
<1> DEFINE P == DropExpired(Q)
           s == Retained(Q.messages)
           f == Retained(Q.inflight)
<1> SUFFICES /\ P \in Queue
             /\ SameHandles(P, Q) /\ SameDedup(P, Q) /\ P.redrive = Q.redrive
             /\ P.next_sequence_number = Q.next_sequence_number
             /\ P.messages = s /\ P.inflight = f
             /\ Waiting(P) = Waiting(Q) \cap Fresh /\ Flying(P) = Flying(Q) \cap Fresh
             /\ Tidy(Q) => Tidy(P) /\ Holds(P) = Holds(Q) \ ExpiredIds(Q)
             /\ ExpiredIds(Q) \subseteq Holds(Q)
  OBVIOUS
<1>1. Q.messages \in Seq(Message) /\ Q.inflight \in Seq(Message)
  BY QueueFields
<1>2. /\ s \in Seq(Message) /\ Elems(s) = Elems(Q.messages) \cap Fresh
      /\ Ids(s) \subseteq Ids(Q.messages) /\ (Distinct(Q.messages) => Distinct(s))
  BY <1>1, RetainedList
<1>3. /\ f \in Seq(Message) /\ Elems(f) = Elems(Q.inflight) \cap Fresh
      /\ Ids(f) \subseteq Ids(Q.inflight) /\ (Distinct(Q.inflight) => Distinct(f))
  BY <1>1, RetainedList
<1>4. P = [Q EXCEPT !.messages = s, !.inflight = f]
  BY DEF DropExpired
<1>5. ExpiredIds(Q) = (Ids(Q.messages) \ Ids(s)) \cup (Ids(Q.inflight) \ Ids(f))
  BY DEF ExpiredIds
<1> HIDE DEF P, s, f
<1>6. /\ P \in Queue /\ P.messages = s /\ P.inflight = f
      /\ SameHandles(P, Q) /\ SameDedup(P, Q) /\ P.redrive = Q.redrive
      /\ P.next_sequence_number = Q.next_sequence_number
  BY <1>2, <1>3, <1>4 DEF Queue, SameHandles, SameDedup
<1>7. Waiting(P) = Waiting(Q) \cap Fresh /\ Flying(P) = Flying(Q) \cap Fresh
  BY <1>2, <1>3, <1>6 DEF Waiting, Flying
<1>8. ASSUME Tidy(Q) PROVE Tidy(P) /\ Holds(P) = Holds(Q) \ ExpiredIds(Q)
  <2>1. Tidy(P)
    BY <1>2, <1>3, <1>6, <1>8 DEF Tidy
  <2>2. Holds(P) = Holds(Q) \ ExpiredIds(Q)
    BY <1>2, <1>3, <1>5, <1>6, <1>8 DEF Tidy, Holds
  <2> QED BY <2>1, <2>2
<1>9. ExpiredIds(Q) \subseteq Holds(Q)
  BY <1>5 DEF Holds
<1> QED BY <1>6, <1>7, <1>8, <1>9

\* The in-flight messages whose window has lapsed.
Late == {m \in Message : m.visible_at # None /\ m.visible_at <= now}

\* They come back; nothing else changes hands.
LEMMA ReturnLapsedFields ==
    ASSUME NEW q \in Queues, NEW Q \in Queue
    PROVE  LET P == ReturnLapsed(q, Q)
               back == {Unleased(m) : m \in Flying(Q) \cap Late}
           IN
           /\ P \in Queue
           /\ SameDedup(P, Q) /\ P.redrive = Q.redrive
           /\ P.receive_attempt_cache = Q.receive_attempt_cache
           /\ P.next_sequence_number = Q.next_sequence_number
           /\ Waiting(P) = Waiting(Q) \cup back
           /\ Flying(P) = Flying(Q) \ Late
           /\ \A i \in MsgIds : P.receipt_handle_map[i] =
                 IF \E m \in Flying(Q) \cap Late : m.id = i THEN {} ELSE Q.receipt_handle_map[i]
           /\ Tidy(Q) => Tidy(P) /\ Holds(P) = Holds(Q)
<1> DEFINE P == ReturnLapsed(q, Q)
           L == Lapsed(Q)
           K == DOMAIN Q.inflight \ L
           l == Keep(Q.inflight, L)
           f == Keep(Q.inflight, K)
           b == UnleaseAll(l)
           s == IF q \in FifoQueues THEN b \o Q.messages ELSE Q.messages \o b
           h == [i \in MsgIds |-> IF i \in Ids(b) THEN {} ELSE Q.receipt_handle_map[i]]
           back == {Unleased(m) : m \in Flying(Q) \cap Late}
<1> SUFFICES /\ P \in Queue
             /\ SameDedup(P, Q) /\ P.redrive = Q.redrive
             /\ P.receive_attempt_cache = Q.receive_attempt_cache
             /\ P.next_sequence_number = Q.next_sequence_number
             /\ Waiting(P) = Waiting(Q) \cup back
             /\ Flying(P) = Flying(Q) \ Late
             /\ \A i \in MsgIds : P.receipt_handle_map[i] =
                   IF \E m \in Flying(Q) \cap Late : m.id = i THEN {} ELSE Q.receipt_handle_map[i]
             /\ Tidy(Q) => Tidy(P) /\ Holds(P) = Holds(Q)
  OBVIOUS
<1>1. /\ Q.messages \in Seq(Message) /\ Q.inflight \in Seq(Message)
      /\ Q.receipt_handle_map \in [MsgIds -> SUBSET Nat]
  BY QueueFields
<1>2. L \in SUBSET DOMAIN Q.inflight /\ \A i \in DOMAIN Q.inflight : i \in L <=> Q.inflight[i] \in Late
  BY <1>1 DEF Lapsed, Late
<1>3. P = [Q EXCEPT !.inflight = f, !.messages = s, !.receipt_handle_map = h]
  BY DEF ReturnLapsed
<1> HIDE DEF L, P
<1>4. /\ l \in Seq(Message) /\ Elems(l) = Flying(Q) \cap Late
      /\ Distinct(Q.inflight) => Distinct(l)
  BY <1>1, <1>2, KeepBy DEF Flying
<1>5. /\ f \in Seq(Message) /\ Elems(f) = Flying(Q) \ Late
      /\ Distinct(Q.inflight) => Distinct(f)
  <2> DEFINE M == Message \ Late
  <2>1. K \in SUBSET DOMAIN Q.inflight /\ \A i \in DOMAIN Q.inflight : i \in K <=> Q.inflight[i] \in M
    BY <1>1, <1>2
  <2> HIDE DEF K, M
  <2>2. f \in Seq(Message) /\ Elems(f) = Flying(Q) \cap M /\ (Distinct(Q.inflight) => Distinct(f))
    BY <1>1, <2>1, KeepBy DEF Flying
  <2>3. Flying(Q) \cap M = Flying(Q) \ Late
    BY QueueFields DEF M
  <2> QED BY <2>2, <2>3
<1>6. Ids(l) \cap Ids(f) = {} \/ ~Distinct(Q.inflight)
  <2>1. K \in SUBSET DOMAIN Q.inflight /\ L \cap K = {}
    OBVIOUS
  <2> HIDE DEF K
  <2> QED BY <1>1, <1>2, <2>1, KeepSplit
<1>7. Ids(l) \cup Ids(f) = Ids(Q.inflight)
  BY <1>4, <1>5, IdsElems DEF Flying
<1> HIDE DEF l, f
<1>8. /\ b \in Seq(Message) /\ Ids(b) = Ids(l) /\ Elems(b) = back /\ (Distinct(l) => Distinct(b))
  BY <1>4, UnleaseAllList
<1> HIDE DEF b
<1>9. /\ s \in Seq(Message) /\ Elems(s) = Waiting(Q) \cup back /\ Ids(s) = Ids(Q.messages) \cup Ids(l)
      /\ (Distinct(Q.messages) /\ Distinct(b) /\ Ids(Q.messages) \cap Ids(l) = {}) => Distinct(s)
  <2>1. CASE q \in FifoQueues
    <3>1. s = b \o Q.messages
      BY <2>1
    <3> HIDE DEF s, back
    <3> QED BY <1>1, <1>8, <3>1, ConcatMessages DEF Waiting
  <2>2. CASE q \notin FifoQueues
    <3>1. s = Q.messages \o b
      BY <2>2
    <3> HIDE DEF s, back
    <3> QED BY <1>1, <1>8, <3>1, ConcatMessages DEF Waiting
  <2> QED BY <2>1, <2>2
<1> HIDE DEF s
<1>10. h \in [MsgIds -> SUBSET Nat]
  BY <1>1
<1>11. \A i \in MsgIds : h[i] =
           IF \E m \in Flying(Q) \cap Late : m.id = i THEN {} ELSE Q.receipt_handle_map[i]
  <2>1. \A i : i \in Ids(b) <=> \E m \in Flying(Q) \cap Late : m.id = i
    BY <1>4, <1>8, IdsElems
  <2> QED BY <2>1
<1> HIDE DEF h, back
<1>12. /\ P \in Queue /\ P.messages = s /\ P.inflight = f /\ P.receipt_handle_map = h
       /\ SameDedup(P, Q) /\ P.redrive = Q.redrive
       /\ P.receive_attempt_cache = Q.receive_attempt_cache
       /\ P.next_sequence_number = Q.next_sequence_number
  BY <1>3, <1>5, <1>9, <1>10 DEF Queue, SameDedup
<1>13. Waiting(P) = Waiting(Q) \cup back /\ Flying(P) = Flying(Q) \ Late
  BY <1>5, <1>9, <1>12 DEF Waiting, Flying
<1>14. ASSUME Tidy(Q) PROVE Tidy(P) /\ Holds(P) = Holds(Q)
  <2>1. Distinct(s) /\ Distinct(f)
    BY <1>4, <1>5, <1>7, <1>8, <1>9, <1>14 DEF Tidy
  <2>2. Ids(s) \cap Ids(f) = {}
    BY <1>6, <1>7, <1>9, <1>14 DEF Tidy
  <2>3. Ids(s) \cup Ids(f) = Holds(Q)
    BY <1>7, <1>9 DEF Holds
  <2> QED BY <1>12, <2>1, <2>2, <2>3 DEF Tidy, Holds
<1> QED BY <1>11, <1>12, <1>13, <1>14

\* The queue a receive selects from: expired attempts and messages are dropped
\* and lapsed windows over.
LEMMA RefreshedFields ==
    ASSUME NEW q \in Queues, queues \in [Queues -> Queue], now \in Nat
    PROVE  LET Q == queues[q]
               R == Refreshed(q)
               late == Flying(Q) \cap Fresh \cap Late
           IN
           /\ R \in Queue
           /\ SameDedup(R, Q) /\ R.redrive = Q.redrive
           /\ R.next_sequence_number = Q.next_sequence_number
           /\ \A a \in Attempts : R.receive_attempt_cache[a] =
                 IF q \notin FifoQueues \/ Q.receive_attempt_cache[a].expiry > now
                 THEN Q.receive_attempt_cache[a] ELSE NoReceive
           /\ Waiting(R) = (Waiting(Q) \cap Fresh) \cup {Unleased(m) : m \in late}
           /\ Flying(R) = (Flying(Q) \cap Fresh) \ Late
           /\ \A i \in MsgIds : R.receipt_handle_map[i] =
                 IF \E m \in late : m.id = i THEN {} ELSE Q.receipt_handle_map[i]
           /\ Tidy(Q) => Tidy(R) /\ Holds(R) = Holds(Q) \ ExpiredIds(Q)
           /\ ExpiredIds(Q) \subseteq Holds(Q)
<1> DEFINE Q == queues[q]
           A == IF q \in FifoQueues THEN PruneAttempts(Q) ELSE Q
           D == DropExpired(A)
           R == ReturnLapsed(q, D)
           late == Flying(Q) \cap Fresh \cap Late
           back == {Unleased(m) : m \in late}
<1> SUFFICES
       /\ R \in Queue
       /\ SameDedup(R, Q) /\ R.redrive = Q.redrive
       /\ R.next_sequence_number = Q.next_sequence_number
       /\ \A a \in Attempts : R.receive_attempt_cache[a] =
             IF q \notin FifoQueues \/ Q.receive_attempt_cache[a].expiry > now
             THEN Q.receive_attempt_cache[a] ELSE NoReceive
       /\ Waiting(R) = (Waiting(Q) \cap Fresh) \cup back
       /\ Flying(R) = (Flying(Q) \cap Fresh) \ Late
       /\ \A i \in MsgIds : R.receipt_handle_map[i] =
             IF \E m \in late : m.id = i THEN {} ELSE Q.receipt_handle_map[i]
       /\ Tidy(Q) => Tidy(R) /\ Holds(R) = Holds(Q) \ ExpiredIds(Q)
       /\ ExpiredIds(Q) \subseteq Holds(Q)
  BY Zenon DEF Refreshed
<1>1. Q \in Queue
  OBVIOUS
<1> HIDE DEF Q
<1>2. /\ A \in Queue /\ SameLists(A, Q) /\ SameDedup(A, Q) /\ A.redrive = Q.redrive
      /\ A.receipt_handle_map = Q.receipt_handle_map
      /\ A.next_sequence_number = Q.next_sequence_number
      /\ \A a \in Attempts : A.receive_attempt_cache[a] =
             IF q \notin FifoQueues \/ Q.receive_attempt_cache[a].expiry > now
             THEN Q.receive_attempt_cache[a] ELSE NoReceive
  <2>1. CASE q \in FifoQueues
    <3>1. A = PruneAttempts(Q)
      BY <2>1
    <3> HIDE DEF A
    <3> QED BY <1>1, <2>1, <3>1, PruneAttemptsFields
  <2>2. CASE q \notin FifoQueues
    BY <1>1, <2>2 DEF SameLists, SameDedup
  <2> QED BY <2>1, <2>2
<1> HIDE DEF A
<1>3. /\ Waiting(A) = Waiting(Q) /\ Flying(A) = Flying(Q) /\ Holds(A) = Holds(Q)
      /\ ExpiredIds(A) = ExpiredIds(Q) /\ (Tidy(A) <=> Tidy(Q))
  BY <1>2 DEF SameLists, Waiting, Flying, Holds, ExpiredIds, Tidy
<1>4. /\ D \in Queue
      /\ SameHandles(D, A) /\ SameDedup(D, A) /\ D.redrive = A.redrive
      /\ D.next_sequence_number = A.next_sequence_number
      /\ Waiting(D) = Waiting(A) \cap Fresh /\ Flying(D) = Flying(A) \cap Fresh
      /\ Tidy(A) => Tidy(D) /\ Holds(D) = Holds(A) \ ExpiredIds(A)
      /\ ExpiredIds(A) \subseteq Holds(A)
  BY <1>2, DropExpiredFields
<1> HIDE DEF D
<1> DEFINE backD == {Unleased(m) : m \in Flying(D) \cap Late}
<1>5. /\ R \in Queue
      /\ SameDedup(R, D) /\ R.redrive = D.redrive
      /\ R.receive_attempt_cache = D.receive_attempt_cache
      /\ R.next_sequence_number = D.next_sequence_number
      /\ Waiting(R) = Waiting(D) \cup backD
      /\ Flying(R) = Flying(D) \ Late
      /\ \A i \in MsgIds : R.receipt_handle_map[i] =
            IF \E m \in Flying(D) \cap Late : m.id = i THEN {} ELSE D.receipt_handle_map[i]
      /\ Tidy(D) => Tidy(R) /\ Holds(R) = Holds(D)
  BY <1>4, ReturnLapsedFields
<1> HIDE DEF R
<1>6. Flying(D) \cap Late = late /\ backD = back
  BY <1>3, <1>4
<1> HIDE DEF late, back, backD
<1>7. SameDedup(R, Q) /\ R.redrive = Q.redrive /\ R.next_sequence_number = Q.next_sequence_number
  BY <1>2, <1>4, <1>5 DEF SameDedup
<1>8. \A a \in Attempts : R.receive_attempt_cache[a] =
             IF q \notin FifoQueues \/ Q.receive_attempt_cache[a].expiry > now
             THEN Q.receive_attempt_cache[a] ELSE NoReceive
  BY <1>2, <1>4, <1>5 DEF SameHandles
<1>9. Waiting(R) = (Waiting(Q) \cap Fresh) \cup back /\ Flying(R) = (Flying(Q) \cap Fresh) \ Late
  BY <1>3, <1>4, <1>5, <1>6
<1>10. \A i \in MsgIds : R.receipt_handle_map[i] =
             IF \E m \in late : m.id = i THEN {} ELSE Q.receipt_handle_map[i]
  BY <1>2, <1>4, <1>5, <1>6 DEF SameHandles
<1>11. /\ Tidy(Q) => Tidy(R) /\ Holds(R) = Holds(Q) \ ExpiredIds(Q)
       /\ ExpiredIds(Q) \subseteq Holds(Q)
  BY <1>3, <1>4, <1>5
<1> QED BY <1>5, <1>7, <1>8, <1>9, <1>10, <1>11

-----------------------------------------------------------------------------
\* A number in base n + 1 has one last digit.
LEMMA LastDigit ==
    ASSUME NEW n \in Nat, NEW a \in Nat, NEW b \in Nat, NEW i \in 1..n, NEW j \in 1..n,
           a * (n + 1) + i = b * (n + 1) + j
    PROVE  i = j
<1>1. ASSUME NEW x \in Nat, NEW y \in Nat, x < y PROVE x * (n + 1) + (n + 1) <= y * (n + 1)
  <2>1. PICK d \in Nat : y = x + 1 + d
    <3>1. y - x - 1 \in Nat /\ y = x + 1 + (y - x - 1)
      BY <1>1
    <3> QED BY <3>1
  <2>2. y * (n + 1) = x * (n + 1) + (n + 1) + d * (n + 1)
    BY <2>1
  <2>3. d * (n + 1) \in Nat
    OBVIOUS
  <2> QED BY <2>2, <2>3
<1>2. a * (n + 1) \in Nat /\ b * (n + 1) \in Nat
  OBVIOUS
<1>3. ~(a < b)
  <2> SUFFICES ASSUME a < b PROVE FALSE
    OBVIOUS
  <2>1. a * (n + 1) + (n + 1) <= b * (n + 1)
    BY <1>1
  <2> QED BY <1>2, <2>1
<1>4. ~(b < a)
  <2> SUFFICES ASSUME b < a PROVE FALSE
    OBVIOUS
  <2>1. b * (n + 1) + (n + 1) <= a * (n + 1)
    BY <1>1
  <2> QED BY <1>2, <2>1
<1>5. a = b
  BY <1>3, <1>4
<1> QED BY <1>2, <1>5

\* The order of a receive is a sort key: the sort is stable.
LEMMA PickOrderKey ==
    ASSUME NEW q \in Queues, NEW Q \in Queue
    PROVE  /\ IsKey(PickOrder(q, Q), Eligible(q, Q))
           /\ Eligible(q, Q) \subseteq DOMAIN Q.messages
<1> DEFINE E == Eligible(q, Q)
           key == PickOrder(q, Q)
           n == Len(Q.messages)
<1>1. E \in SUBSET DOMAIN Q.messages
  BY DEF Eligible
<1>2. Q.messages \in Seq(Message) /\ Q.inflight \in Seq(Message)
  BY QueueFields
<1>3. n \in Nat /\ DOMAIN Q.messages = 1..n
  BY <1>2
<1>4. IsFiniteSet(E)
  <2>1. IsFiniteSet(1..n)
    BY <1>3, FS_Interval
  <2> QED BY <1>1, <1>3, <2>1, FS_Subset
<1>5. ASSUME NEW m PROVE Load(Q, m) \in Nat
  <2> DEFINE C == {i \in DOMAIN Q.inflight : Q.inflight[i].group = m.group}
  <2>1. Len(Q.inflight) \in Nat /\ DOMAIN Q.inflight = 1..Len(Q.inflight)
    BY <1>2
  <2>2. IsFiniteSet(1..Len(Q.inflight)) /\ C \in SUBSET (1..Len(Q.inflight))
    BY <2>1, FS_Interval
  <2>3. Cardinality(C) \in Nat
    <3> HIDE DEF C
    <3> QED BY <2>2, FS_Subset, FS_CardinalityType
  <2> QED BY <2>3 DEF Load
<1>6. DOMAIN key = E
  BY DEF PickOrder
<1>7. \A i \in E : i \in 1..n
  BY <1>1, <1>3
<1>8. CASE q \in FifoQueues
  <2>1. \A i \in E : key[i] = i
    BY <1>8 DEF PickOrder
  <2> HIDE DEF E, key, n
  <2> QED BY <1>1, <1>4, <1>6, <1>7, <2>1 DEF IsKey, E, key
<1>9. CASE q \notin FifoQueues
  <2> DEFINE W(i) == Load(Q, Q.messages[i])
  <2>1. \A i \in E : key[i] = W(i) * (n + 1) + i
    BY <1>9 DEF PickOrder
  <2>2. \A i \in E : W(i) \in Nat
    BY <1>5
  <2> HIDE DEF E, key, n, W
  <2>3. \A i \in E : key[i] \in Int
    BY <1>3, <1>7, <2>1, <2>2
  <2>4. ASSUME NEW i \in E, NEW j \in E, key[i] = key[j] PROVE i = j
    <3>1. W(i) * (n + 1) + i = W(j) * (n + 1) + j
      BY <2>1, <2>4
    <3>2. i \in 1..n /\ j \in 1..n /\ W(i) \in Nat /\ W(j) \in Nat
      BY <1>7, <2>2
    <3> QED BY <1>3, <3>1, <3>2, LastDigit
  <2> QED BY <1>1, <1>4, <1>6, <2>3, <2>4 DEF IsKey, E, key
<1> QED BY <1>8, <1>9

\* The messages a receive may take.
Ripe(Q) == {m \in Waiting(Q) : IsVisible(m)}

\* A receive splits the waiting messages in three: those it hands out, those it
\* dead-letters and those that stay, and changes none of them.  It takes
\* visible ones only, and dead-letters exactly the exhausted of them.
LEMMA Selection ==
    ASSUME NEW q \in Queues, NEW Q \in Queue, NEW max \in Nat
    PROVE  LET r == Received(q, Q, max)
               d == Dead(q, Q, max)
               s == Remaining(q, Q, max)
           IN
           /\ r \in Seq(Message) /\ d \in Seq(Message) /\ s \in Seq(Message)
           /\ Elems(r) \subseteq Ripe(Q) /\ Elems(d) \subseteq Ripe(Q)
           /\ \A m \in Elems(r) : ~Exhausted(Q, m)
           /\ \A m \in Elems(d) : Exhausted(Q, m)
           /\ q \in FifoQueues => \A m \in Elems(r) : m.group \notin InflightGroups(Q)
           /\ Distinct(Q.messages) =>
                 /\ Elems(r) \cup Elems(d) \cup Elems(s) = Waiting(Q)
                 /\ Distinct(r) /\ Distinct(d) /\ Distinct(s)
                 /\ Ids(r) \cap Ids(d) = {} /\ Ids(r) \cap Ids(s) = {} /\ Ids(d) \cap Ids(s) = {}
<1> DEFINE r == Received(q, Q, max)
           d == Dead(q, Q, max)
           s == Remaining(q, Q, max)
           E == Eligible(q, Q)
           c == Candidates(q, Q)
           T == Taken(Q, c, max)
           Ir == {k \in T : ~Exhausted(Q, c[k])}
           Id == {k \in T : Exhausted(Q, c[k])}
           Is == DOMAIN c \ T
           t == Keep(c, T)
           left == {i \in DOMAIN Q.messages : Q.messages[i].id \notin Ids(t)}
           hidden == DOMAIN Q.messages \ E
<1> SUFFICES
           /\ r \in Seq(Message) /\ d \in Seq(Message) /\ s \in Seq(Message)
           /\ Elems(r) \subseteq Ripe(Q) /\ Elems(d) \subseteq Ripe(Q)
           /\ \A m \in Elems(r) : ~Exhausted(Q, m)
           /\ \A m \in Elems(d) : Exhausted(Q, m)
           /\ q \in FifoQueues => \A m \in Elems(r) : m.group \notin InflightGroups(Q)
           /\ Distinct(Q.messages) =>
                 /\ Elems(r) \cup Elems(d) \cup Elems(s) = Waiting(Q)
                 /\ Distinct(r) /\ Distinct(d) /\ Distinct(s)
                 /\ Ids(r) \cap Ids(d) = {} /\ Ids(r) \cap Ids(s) = {} /\ Ids(d) \cap Ids(s) = {}
  OBVIOUS
<1>1. Q.messages \in Seq(Message)
  BY QueueFields
<1>2. IsKey(PickOrder(q, Q), E) /\ E \subseteq DOMAIN Q.messages
  BY PickOrderKey
<1>3. \A i \in E : IsVisible(Q.messages[i]) /\ (q \in FifoQueues => Q.messages[i].group \notin InflightGroups(Q))
  BY DEF Eligible
<1>4. T \in SUBSET DOMAIN c
  BY DEF Taken
<1>5. r = Keep(c, Ir) /\ d = Keep(c, Id)
  BY DEF Received, Dead
<1>6. s = IF q \in FifoQueues THEN Keep(Q.messages, left)
          ELSE Keep(Q.messages, hidden) \o Keep(c, Is)
  BY DEF Remaining
<1>7. /\ Ir \in SUBSET DOMAIN c /\ Id \in SUBSET DOMAIN c /\ Is \in SUBSET DOMAIN c
      /\ Ir \cap Id = {} /\ Ir \cap Is = {} /\ Id \cap Is = {} /\ Ir \cup Id = T
      /\ T \cap Is = {} /\ T \cup Is = DOMAIN c
  BY <1>4
<1>8. /\ \A k \in Ir : ~Exhausted(Q, c[k])
      /\ \A k \in Id : Exhausted(Q, c[k])
  OBVIOUS
<1>9. /\ left \in SUBSET DOMAIN Q.messages
      /\ \A i \in DOMAIN Q.messages : i \in left <=> Q.messages[i].id \notin Ids(t)
  OBVIOUS
<1> HIDE DEF r, d, s, E, c, T, Ir, Id, Is, left
<1>10. /\ c \in Seq(Message) /\ Elems(c) = {Q.messages[i] : i \in E}
       /\ Distinct(Q.messages) => Distinct(c)
  BY <1>1, <1>2, ArrangeMessages DEF c, Candidates
<1>11. Elems(c) \subseteq Ripe(Q) /\ (q \in FifoQueues => \A m \in Elems(c) : m.group \notin InflightGroups(Q))
  BY <1>2, <1>3, <1>10 DEF Ripe, Waiting, Elems
<1>12. /\ r \in Seq(Message) /\ Elems(r) = {c[k] : k \in Ir} /\ (Distinct(c) => Distinct(r))
       /\ d \in Seq(Message) /\ Elems(d) = {c[k] : k \in Id} /\ (Distinct(c) => Distinct(d))
       /\ t \in Seq(Message) /\ Elems(t) = {c[k] : k \in T}
  BY <1>4, <1>5, <1>7, <1>10, KeepMessages
<1>13. Elems(r) \subseteq Elems(c) /\ Elems(d) \subseteq Elems(c) /\ Elems(t) = Elems(r) \cup Elems(d)
  <2>1. \A k \in DOMAIN c : c[k] \in Elems(c)
    BY DEF Elems
  <2> QED BY <1>7, <1>12, <2>1
<1>14. /\ \A m \in Elems(r) : ~Exhausted(Q, m)
       /\ \A m \in Elems(d) : Exhausted(Q, m)
  BY <1>8, <1>12
<1> DEFINE u == Keep(c, Is)
           v == Keep(Q.messages, hidden)
<1>15. /\ u \in Seq(Message) /\ Elems(u) = {c[k] : k \in Is} /\ (Distinct(c) => Distinct(u))
  BY <1>7, <1>10, KeepMessages
<1>16. hidden \in SUBSET DOMAIN Q.messages
  OBVIOUS
<1>17. \A i \in DOMAIN Q.messages : i \in hidden <=> i \notin E
  OBVIOUS
<1> HIDE DEF hidden
<1>18. /\ v \in Seq(Message) /\ Elems(v) = {Q.messages[i] : i \in hidden}
       /\ (Distinct(Q.messages) => Distinct(v))
  BY <1>1, <1>16, KeepMessages
<1>19. s \in Seq(Message)
  <2>1. CASE q \in FifoQueues
    BY <1>1, <1>6, <1>9, <2>1, KeepMessages
  <2>2. CASE q \notin FifoQueues
    <3> HIDE DEF u, v
    <3> QED BY <1>6, <1>15, <1>18, <2>2, ConcatMessages DEF u, v
  <2> QED BY <2>1, <2>2
<1>20. ASSUME Distinct(Q.messages)
       PROVE  /\ Elems(r) \cup Elems(d) \cup Elems(s) = Waiting(Q)
              /\ Distinct(r) /\ Distinct(d) /\ Distinct(s)
              /\ Ids(r) \cap Ids(d) = {} /\ Ids(r) \cap Ids(s) = {} /\ Ids(d) \cap Ids(s) = {}
  <2>1. Distinct(c) /\ Distinct(r) /\ Distinct(d)
    BY <1>10, <1>12, <1>20
  <2>2. Ids(r) \cap Ids(d) = {}
    BY <1>5, <1>7, <1>10, <2>1, KeepSplit
  <2>3. Ids(t) = Ids(r) \cup Ids(d)
    BY <1>13, IdsElems
  <2>4. Elems(t) \subseteq Waiting(Q)
    BY <1>11, <1>13 DEF Ripe
  <2>5. CASE q \in FifoQueues
    <3>1. s = Keep(Q.messages, left)
      BY <1>6, <2>5
    <3>2. Distinct(s) /\ Elems(s) = {Q.messages[i] : i \in left}
      BY <1>1, <1>9, <1>20, <3>1, KeepMessages
    <3>3. \A m \in Elems(s) : m \in Waiting(Q) /\ m.id \notin Ids(t)
      BY <1>9, <3>2 DEF Waiting, Elems
    <3>4. \A m \in Waiting(Q) : m.id \notin Ids(t) => m \in Elems(s)
      BY <1>9, <3>2 DEF Waiting, Elems
    <3>5. \A m \in Waiting(Q) : m.id \in Ids(t) => m \in Elems(t)
      <4> SUFFICES ASSUME NEW m \in Waiting(Q), m.id \in Ids(t) PROVE m \in Elems(t)
        OBVIOUS
      <4>1. PICK n \in Elems(t) : n.id = m.id
        BY IdsElems
      <4>2. n = m
        BY <1>20, <2>4, <4>1, DistinctElems DEF Waiting
      <4> QED BY <4>1, <4>2
    <3>6. Ids(s) \cap Ids(t) = {}
      BY <3>3, IdsElems
    <3>7. Elems(t) \cup Elems(s) = Waiting(Q)
      BY <2>4, <3>3, <3>4, <3>5
    <3> QED BY <1>13, <2>1, <2>2, <2>3, <3>2, <3>6, <3>7
  <2>6. CASE q \notin FifoQueues
    <3>1. s = v \o u
      BY <1>6, <2>6
    <3>2. Ids(t) \cap Ids(u) = {}
      BY <1>4, <1>7, <1>10, <2>1, KeepSplit
    <3>3. Elems(t) \cup Elems(u) = Elems(c)
      BY <1>7, <1>12, <1>15 DEF Elems
    <3>4. Ids(v) \cap Ids(c) = {}
      <4>1. \A i \in hidden, j \in E : Q.messages[i].id # Q.messages[j].id
        BY <1>2, <1>16, <1>17, <1>20 DEF Distinct
      <4> QED BY <1>10, <1>18, <4>1, IdsElems
    <3>5. Elems(v) \cup Elems(c) = Waiting(Q)
      BY <1>2, <1>10, <1>16, <1>17, <1>18 DEF Waiting, Elems
    <3>6. Ids(c) = Ids(t) \cup Ids(u)
      BY <3>3, IdsElems
    <3>7. Distinct(u) /\ Distinct(v)
      BY <1>15, <1>18, <1>20, <2>1
    <3> HIDE DEF u, v
    <3>8. Distinct(s) /\ Elems(s) = Elems(v) \cup Elems(u) /\ Ids(s) = Ids(v) \cup Ids(u)
      <4>1. Ids(v) \cap Ids(u) = {}
        BY <3>4, <3>6
      <4> QED BY <1>15, <1>18, <3>1, <3>7, <4>1, ConcatMessages
    <3>9. Ids(t) \cap Ids(s) = {}
      BY <3>2, <3>4, <3>6, <3>8
    <3>10. Elems(t) \cup Elems(s) = Waiting(Q)
      BY <3>3, <3>5, <3>8
    <3> QED BY <1>13, <2>1, <2>2, <2>3, <3>8, <3>9, <3>10
  <2> QED BY <2>5, <2>6
<1> QED BY <1>11, <1>12, <1>13, <1>14, <1>19, <1>20

\* The attempt that got the messages ids, for vt.
Delivers(e, ids, vt) ==
    e.ids = ids /\ e.expiry = now + vt /\ \A i \in MsgIds : e.handle[i] = minted[i] + 1

\* The queue after a receive, before the exhausted messages arrive where they
\* are sent.
LEMMA HandedOutFields ==
    ASSUME NEW q \in Queues, NEW Q \in Queue, NEW max \in Nat, NEW vt \in Nat, NEW a,
           now \in Nat, minted \in [MsgIds -> Nat]
    PROVE  LET P == HandedOut(q, Q, max, vt, a)
               r == Received(q, Q, max)
               d == Dead(q, Q, max)
               s == Remaining(q, Q, max)
           IN
           /\ P \in Queue
           /\ SameDedup(P, Q) /\ P.redrive = Q.redrive
           /\ P.next_sequence_number = Q.next_sequence_number
           /\ Waiting(P) = Elems(s)
           /\ Flying(P) = Flying(Q) \cup {HandOut(m, vt) : m \in Elems(r)}
           /\ \A i \in Ids(r) : P.receipt_handle_map[i] = Q.receipt_handle_map[i] \cup {minted[i] + 1}
           /\ \A i \in MsgIds \ Ids(r) : P.receipt_handle_map[i] = Q.receipt_handle_map[i]
           /\ \A b \in Attempts : \/ P.receive_attempt_cache[b] = Q.receive_attempt_cache[b]
                                  \/ Delivers(P.receive_attempt_cache[b], Ids(r), vt)
           /\ Tidy(Q) => Tidy(P) /\ Holds(P) = Holds(Q) \ Ids(d) /\ Ids(d) \subseteq Holds(Q)
<1> DEFINE P == HandedOut(q, Q, max, vt, a)
           r == Received(q, Q, max)
           d == Dead(q, Q, max)
           s == Remaining(q, Q, max)
           h == [i \in DOMAIN r |-> HandOut(r[i], vt)]
           f == Q.inflight \o h
           map == [i \in MsgIds |-> IF i \in Ids(h) THEN Q.receipt_handle_map[i] \cup {minted[i] + 1}
                                    ELSE Q.receipt_handle_map[i]]
           x == now + vt
           g == [i \in MsgIds |-> minted[i] + 1]
           n == [ids |-> Ids(h), expiry |-> x, handle |-> g]
           cache == [b \in Attempts |-> IF b = a /\ q \in FifoQueues /\ r # <<>> THEN n
                                        ELSE Q.receive_attempt_cache[b]]
<1> SUFFICES
           /\ P \in Queue
           /\ SameDedup(P, Q) /\ P.redrive = Q.redrive
           /\ P.next_sequence_number = Q.next_sequence_number
           /\ Waiting(P) = Elems(s)
           /\ Flying(P) = Flying(Q) \cup {HandOut(m, vt) : m \in Elems(r)}
           /\ \A i \in Ids(r) : P.receipt_handle_map[i] = Q.receipt_handle_map[i] \cup {minted[i] + 1}
           /\ \A i \in MsgIds \ Ids(r) : P.receipt_handle_map[i] = Q.receipt_handle_map[i]
           /\ \A b \in Attempts : \/ P.receive_attempt_cache[b] = Q.receive_attempt_cache[b]
                                  \/ Delivers(P.receive_attempt_cache[b], Ids(r), vt)
           /\ Tidy(Q) => Tidy(P) /\ Holds(P) = Holds(Q) \ Ids(d) /\ Ids(d) \subseteq Holds(Q)
  OBVIOUS
<1>1. /\ Q.inflight \in Seq(Message) /\ Q.receipt_handle_map \in [MsgIds -> SUBSET Nat]
      /\ Q.receive_attempt_cache \in [Attempts -> ReceiveAttemptEntry]
  BY QueueFields
<1>2. /\ r \in Seq(Message) /\ d \in Seq(Message) /\ s \in Seq(Message)
      /\ Elems(r) \subseteq Waiting(Q) /\ Elems(d) \subseteq Waiting(Q)
      /\ Distinct(Q.messages) =>
            /\ Elems(r) \cup Elems(d) \cup Elems(s) = Waiting(Q)
            /\ Distinct(r) /\ Distinct(d) /\ Distinct(s)
            /\ Ids(r) \cap Ids(d) = {} /\ Ids(r) \cap Ids(s) = {} /\ Ids(d) \cap Ids(s) = {}
  BY Selection DEF Ripe
<1>3. P = [Q EXCEPT !.messages = s, !.inflight = f, !.receipt_handle_map = map,
                    !.receive_attempt_cache = cache]
  BY DEF HandedOut
<1> HIDE DEF P, r, d, s
<1>4. /\ h \in Seq(Message) /\ Ids(h) = Ids(r) /\ Elems(h) = {HandOut(m, vt) : m \in Elems(r)}
      /\ Distinct(r) => Distinct(h)
  <2>1. h = [i \in DOMAIN r |-> HandOut(r[i], vt)]
    OBVIOUS
  <2>2. r \in Seq(Message)
    BY <1>2
  <2> HIDE DEF h, f, map, x, g, n, cache
  <2> QED BY <2>1, <2>2, HandOutList, ZenonT(60)
<1> HIDE DEF h
<1>5. /\ f \in Seq(Message) /\ Elems(f) = Flying(Q) \cup {HandOut(m, vt) : m \in Elems(r)}
      /\ Ids(f) = Ids(Q.inflight) \cup Ids(r)
      /\ (Distinct(Q.inflight) /\ Distinct(h) /\ Ids(Q.inflight) \cap Ids(r) = {}) => Distinct(f)
  BY <1>1, <1>4, ConcatMessages DEF Flying
<1>6. Ids(r) \subseteq MsgIds
  <2>1. \A m \in Message : m.id \in MsgIds
    BY DEF Message
  <2> QED BY <1>2, <2>1, QueueFields, IdsElems
<1>7. map \in [MsgIds -> SUBSET Nat]
  <2>1. \A i \in MsgIds : minted[i] + 1 \in Nat
    OBVIOUS
  <2> QED BY <1>1, <2>1
<1>8. x \in Nat /\ g \in [MsgIds -> Nat] /\ \A i \in MsgIds : g[i] = minted[i] + 1
  OBVIOUS
<1> HIDE DEF x, g, f
<1>9. n \in ReceiveAttemptEntry /\ n.ids = Ids(r) /\ n.expiry = x /\ n.handle = g
  BY <1>4, <1>6, <1>8 DEF ReceiveAttemptEntry
<1> HIDE DEF n
<1>10. cache \in [Attempts -> ReceiveAttemptEntry]
  BY <1>1, <1>9
<1>11. \A b \in Attempts : cache[b] = IF b = a /\ q \in FifoQueues /\ r # <<>> THEN n
                                       ELSE Q.receive_attempt_cache[b]
  OBVIOUS
<1>12. /\ \A i \in Ids(r) : map[i] = Q.receipt_handle_map[i] \cup {minted[i] + 1}
       /\ \A i \in MsgIds \ Ids(r) : map[i] = Q.receipt_handle_map[i]
  BY <1>4, <1>6
<1> HIDE DEF map, cache
<1>13. /\ P \in Queue /\ P.messages = s /\ P.inflight = f /\ P.receipt_handle_map = map
       /\ P.receive_attempt_cache = cache
       /\ SameDedup(P, Q) /\ P.redrive = Q.redrive
       /\ P.next_sequence_number = Q.next_sequence_number
  BY <1>2, <1>3, <1>5, <1>7, <1>10 DEF Queue, SameDedup
<1>14. Waiting(P) = Elems(s) /\ Flying(P) = Flying(Q) \cup {HandOut(m, vt) : m \in Elems(r)}
  BY <1>5, <1>13 DEF Waiting, Flying
<1>15. ASSUME Tidy(Q) PROVE Tidy(P) /\ Holds(P) = Holds(Q) \ Ids(d) /\ Ids(d) \subseteq Holds(Q)
  <2>1. Ids(Q.messages) = Ids(r) \cup Ids(d) \cup Ids(s)
    BY <1>2, <1>15, IdsElems DEF Tidy, Waiting
  <2>2. Distinct(f) /\ Distinct(s)
    BY <1>2, <1>4, <1>5, <1>15, <2>1 DEF Tidy
  <2>3. Ids(s) \cap Ids(f) = {}
    BY <1>2, <1>5, <1>15, <2>1 DEF Tidy
  <2>4. Ids(s) \cup Ids(f) = Holds(Q) \ Ids(d) /\ Ids(d) \subseteq Holds(Q)
    BY <1>2, <1>5, <1>15, <2>1 DEF Tidy, Holds
  <2> QED BY <1>13, <2>2, <2>3, <2>4 DEF Tidy, Holds
<1>16. \A b \in Attempts : \/ P.receive_attempt_cache[b] = Q.receive_attempt_cache[b]
                          \/ Delivers(P.receive_attempt_cache[b], Ids(r), vt)
  <2>1. Delivers(n, Ids(r), vt)
    BY <1>8, <1>9 DEF Delivers, x
  <2> QED BY <1>11, <1>13, <2>1
<1> QED BY <1>12, <1>13, <1>14, <1>15, <1>16

\* What handing out leaves alone.
LEMMA HandedOutFrame ==
    ASSUME NEW q \in Queues, NEW Q \in Queue, NEW max \in Nat, NEW vt \in Nat, NEW a,
           now \in Nat, minted \in [MsgIds -> Nat]
    PROVE  /\ HandedOut(q, Q, max, vt, a) \in Queue
           /\ HandedOut(q, Q, max, vt, a).redrive = Q.redrive
           /\ SameDedup(HandedOut(q, Q, max, vt, a), Q)
  BY HandedOutFields

\* Removing messages by their ids.
LEMMA WithoutList ==
    ASSUME NEW s \in Seq(Message), NEW ids
    PROVE  /\ Without(s, ids) \in Seq(Message)
           /\ Elems(Without(s, ids)) = {m \in Elems(s) : m.id \notin ids}
           /\ Ids(Without(s, ids)) = Ids(s) \ ids
           /\ Distinct(s) => Distinct(Without(s, ids))
<1> DEFINE I == {i \in DOMAIN s : s[i].id \notin ids}
           M == {m \in Elems(s) : m.id \notin ids}
<1>1. I \in SUBSET DOMAIN s /\ \A i \in DOMAIN s : i \in I <=> s[i] \in M
  BY DEF Elems
<1>2. Without(s, ids) = Keep(s, I)
  BY DEF Without
<1>3. M \subseteq Elems(s) /\ {m.id : m \in M} = Ids(s) \ ids
  BY IdsElems
<1> HIDE DEF I, M
<1>4. /\ Keep(s, I) \in Seq(Message) /\ Elems(Keep(s, I)) = Elems(s) \cap M
      /\ (Distinct(s) => Distinct(Keep(s, I)))
  BY <1>1, KeepBy, Zenon
<1>5. Elems(Keep(s, I)) = M
  BY <1>3, <1>4
<1>6. Ids(Keep(s, I)) = Ids(s) \ ids
  BY <1>3, <1>5, IdsElems
<1> QED BY <1>2, <1>4, <1>5, <1>6 DEF M

\* A delete.
LEMMA DeletedFields ==
    ASSUME NEW Q \in Queue, NEW ids
    PROVE  LET P == Deleted(Q, ids) IN
           /\ P \in Queue
           /\ SameHandles(P, Q) /\ SameDedup(P, Q) /\ P.redrive = Q.redrive
           /\ Waiting(P) = {m \in Waiting(Q) : m.id \notin ids}
           /\ Flying(P) = {m \in Flying(Q) : m.id \notin ids}
           /\ Holds(P) = Holds(Q) \ ids
           /\ Tidy(Q) => Tidy(P)
           /\ P.messages = Without(Q.messages, ids)
<1> DEFINE P == Deleted(Q, ids)
           s == Without(Q.messages, ids)
           f == Without(Q.inflight, ids)
<1> SUFFICES
           /\ P \in Queue
           /\ SameHandles(P, Q) /\ SameDedup(P, Q) /\ P.redrive = Q.redrive
           /\ Waiting(P) = {m \in Waiting(Q) : m.id \notin ids}
           /\ Flying(P) = {m \in Flying(Q) : m.id \notin ids}
           /\ Holds(P) = Holds(Q) \ ids
           /\ Tidy(Q) => Tidy(P)
           /\ P.messages = s
  OBVIOUS
<1>1. Q.messages \in Seq(Message) /\ Q.inflight \in Seq(Message)
  BY QueueFields
<1>2. /\ s \in Seq(Message) /\ Elems(s) = {m \in Waiting(Q) : m.id \notin ids}
      /\ Ids(s) = Ids(Q.messages) \ ids /\ (Distinct(Q.messages) => Distinct(s))
      /\ f \in Seq(Message) /\ Elems(f) = {m \in Flying(Q) : m.id \notin ids}
      /\ Ids(f) = Ids(Q.inflight) \ ids /\ (Distinct(Q.inflight) => Distinct(f))
  BY <1>1, WithoutList DEF Waiting, Flying
<1>3. P = [Q EXCEPT !.inflight = f, !.messages = s]
  BY DEF Deleted
<1> HIDE DEF P, s, f
<1>4. /\ P \in Queue /\ P.messages = s /\ P.inflight = f
      /\ SameHandles(P, Q) /\ SameDedup(P, Q) /\ P.redrive = Q.redrive
  BY <1>2, <1>3 DEF Queue, SameHandles, SameDedup
<1>5. /\ Waiting(P) = {m \in Waiting(Q) : m.id \notin ids}
      /\ Flying(P) = {m \in Flying(Q) : m.id \notin ids}
      /\ Holds(P) = Holds(Q) \ ids
  BY <1>2, <1>4 DEF Waiting, Flying, Holds
<1>6. Tidy(Q) => Tidy(P)
  BY <1>2, <1>4 DEF Tidy
<1> QED BY <1>4, <1>5, <1>6

\* A change of visibility.
LEMMA WithVisibilityFields ==
    ASSUME NEW Q \in Queue, NEW ids, NEW t \in Nat, now \in Nat
    PROVE  LET P == WithVisibility(Q, ids, t)
               flying == ids \cap Ids(Q.inflight)
               waiting == ids \ flying
           IN
           /\ P \in Queue
           /\ SameHandles(P, Q) /\ SameDedup(P, Q) /\ P.redrive = Q.redrive
           /\ Waiting(P) = {IF m.id \in waiting THEN VisibleAt(m, now + t) ELSE m : m \in Waiting(Q)}
           /\ Flying(P) = {IF m.id \in flying THEN VisibleAt(m, now + t) ELSE m : m \in Flying(Q)}
           /\ Ids(P.messages) = Ids(Q.messages) /\ Ids(P.inflight) = Ids(Q.inflight)
           /\ Holds(P) = Holds(Q)
           /\ Tidy(Q) => Tidy(P)
<1> DEFINE P == WithVisibility(Q, ids, t)
           flying == ids \cap Ids(Q.inflight)
           waiting == ids \ flying
           s == Revisible(Q.messages, waiting, t)
           f == Revisible(Q.inflight, flying, t)
           W == {IF m.id \in waiting THEN VisibleAt(m, now + t) ELSE m : m \in Waiting(Q)}
           F == {IF m.id \in flying THEN VisibleAt(m, now + t) ELSE m : m \in Flying(Q)}
<1> SUFFICES
           /\ P \in Queue
           /\ SameHandles(P, Q) /\ SameDedup(P, Q) /\ P.redrive = Q.redrive
           /\ Waiting(P) = W /\ Flying(P) = F
           /\ Ids(P.messages) = Ids(Q.messages) /\ Ids(P.inflight) = Ids(Q.inflight)
           /\ Holds(P) = Holds(Q)
           /\ Tidy(Q) => Tidy(P)
  OBVIOUS
<1>1. Q.messages \in Seq(Message) /\ Q.inflight \in Seq(Message)
  BY QueueFields
<1>2. P = [Q EXCEPT !.inflight = f, !.messages = s]
  BY DEF WithVisibility
<1> HIDE DEF flying, waiting
<1>3. /\ s \in Seq(Message) /\ Ids(s) = Ids(Q.messages) /\ Elems(s) = W
      /\ Distinct(Q.messages) => Distinct(s)
  BY <1>1, RevisibleList DEF Waiting
<1>4. /\ f \in Seq(Message) /\ Ids(f) = Ids(Q.inflight) /\ Elems(f) = F
      /\ Distinct(Q.inflight) => Distinct(f)
  BY <1>1, RevisibleList DEF Flying
<1> HIDE DEF P, s, f, W, F
<1>5. /\ P \in Queue /\ P.messages = s /\ P.inflight = f
      /\ SameHandles(P, Q) /\ SameDedup(P, Q) /\ P.redrive = Q.redrive
  BY <1>2, <1>3, <1>4 DEF Queue, SameHandles, SameDedup
<1>6. Waiting(P) = W /\ Flying(P) = F /\ Holds(P) = Holds(Q)
  BY <1>3, <1>4, <1>5 DEF Waiting, Flying, Holds
<1>7. Tidy(Q) => Tidy(P)
  BY <1>3, <1>4, <1>5 DEF Tidy
<1> QED BY <1>3, <1>4, <1>5, <1>6, <1>7

\* The messages that have reached maxReceiveCount.
Full == {m \in Message : m.receive_count >= MaxReceiveCount}

\* Forced dead-lettering splits a queue in two.
LEMMA LimitedFields ==
    ASSUME NEW Q \in Queue
    PROVE  LET P == WithoutLimited(Q)
               l == Limited(Q)
           IN
           /\ P \in Queue /\ l \in Seq(Message)
           /\ SameHandles(P, Q) /\ SameDedup(P, Q) /\ P.redrive = Q.redrive
           /\ Waiting(P) = Waiting(Q) \ Full /\ Flying(P) = Flying(Q) \ Full
           /\ Elems(l) = {Unleased(m) : m \in (Waiting(Q) \cup Flying(Q)) \cap Full}
           /\ Tidy(Q) =>
                 /\ Tidy(P) /\ Distinct(l)
                 /\ Holds(P) \cup Ids(l) = Holds(Q) /\ Holds(P) \cap Ids(l) = {}
<1> DEFINE P == WithoutLimited(Q)
           l == Limited(Q)
           s == Keep(Q.messages, DOMAIN Q.messages \ AtLimit(Q.messages))
           f == Keep(Q.inflight, DOMAIN Q.inflight \ AtLimit(Q.inflight))
           ls == Keep(Q.messages, AtLimit(Q.messages))
           lf == Keep(Q.inflight, AtLimit(Q.inflight))
           L == {Unleased(m) : m \in (Waiting(Q) \cup Flying(Q)) \cap Full}
<1> SUFFICES
           /\ P \in Queue /\ l \in Seq(Message)
           /\ SameHandles(P, Q) /\ SameDedup(P, Q) /\ P.redrive = Q.redrive
           /\ Waiting(P) = Waiting(Q) \ Full /\ Flying(P) = Flying(Q) \ Full
           /\ Elems(l) = L
           /\ Tidy(Q) =>
                 /\ Tidy(P) /\ Distinct(l)
                 /\ Holds(P) \cup Ids(l) = Holds(Q) /\ Holds(P) \cap Ids(l) = {}
  OBVIOUS
<1>1. Q.messages \in Seq(Message) /\ Q.inflight \in Seq(Message)
  BY QueueFields
<1>2. ASSUME NEW z \in Seq(Message)
      PROVE  /\ Keep(z, AtLimit(z)) \in Seq(Message)
             /\ Elems(Keep(z, AtLimit(z))) = Elems(z) \cap Full
             /\ Distinct(z) => Distinct(Keep(z, AtLimit(z)))
             /\ Keep(z, DOMAIN z \ AtLimit(z)) \in Seq(Message)
             /\ Elems(Keep(z, DOMAIN z \ AtLimit(z))) = Elems(z) \ Full
             /\ Distinct(z) => Distinct(Keep(z, DOMAIN z \ AtLimit(z)))
             /\ Distinct(z) => Ids(Keep(z, AtLimit(z))) \cap Ids(Keep(z, DOMAIN z \ AtLimit(z))) = {}
             /\ Ids(z) = Ids(Keep(z, AtLimit(z))) \cup Ids(Keep(z, DOMAIN z \ AtLimit(z)))
  <2> DEFINE I == AtLimit(z)
             J == DOMAIN z \ AtLimit(z)
             M == Message \ Full
  <2>1. I \in SUBSET DOMAIN z /\ \A i \in DOMAIN z : i \in I <=> z[i] \in Full
    BY DEF AtLimit, Full
  <2>2. J \in SUBSET DOMAIN z /\ \A i \in DOMAIN z : i \in J <=> z[i] \in M
    BY <2>1
  <2>3. I \cap J = {}
    OBVIOUS
  <2>4. Elems(z) \cap M = Elems(z) \ Full
    BY DEF Elems
  <2> HIDE DEF I, J, M
  <2>5. /\ Keep(z, I) \in Seq(Message) /\ Elems(Keep(z, I)) = Elems(z) \cap Full
        /\ Distinct(z) => Distinct(Keep(z, I))
    BY <2>1, KeepBy
  <2>6. /\ Keep(z, J) \in Seq(Message) /\ Elems(Keep(z, J)) = Elems(z) \cap M
        /\ Distinct(z) => Distinct(Keep(z, J))
    BY <2>2, KeepBy
  <2>7. Distinct(z) => Ids(Keep(z, I)) \cap Ids(Keep(z, J)) = {}
    BY <2>1, <2>2, <2>3, KeepSplit
  <2>8. Ids(z) = Ids(Keep(z, I)) \cup Ids(Keep(z, J))
    BY <2>4, <2>5, <2>6, IdsElems
  <2> QED BY <2>4, <2>5, <2>6, <2>7, <2>8 DEF I, J
<1>3. /\ ls \in Seq(Message) /\ Elems(ls) = Waiting(Q) \cap Full
      /\ s \in Seq(Message) /\ Elems(s) = Waiting(Q) \ Full
      /\ Distinct(Q.messages) => Distinct(ls) /\ Distinct(s) /\ Ids(ls) \cap Ids(s) = {}
      /\ Ids(Q.messages) = Ids(ls) \cup Ids(s)
  BY <1>1, <1>2 DEF Waiting
<1>4. /\ lf \in Seq(Message) /\ Elems(lf) = Flying(Q) \cap Full
      /\ f \in Seq(Message) /\ Elems(f) = Flying(Q) \ Full
      /\ Distinct(Q.inflight) => Distinct(lf) /\ Distinct(f) /\ Ids(lf) \cap Ids(f) = {}
      /\ Ids(Q.inflight) = Ids(lf) \cup Ids(f)
  BY <1>1, <1>2 DEF Flying
<1>5. P = [Q EXCEPT !.messages = s, !.inflight = f]
  BY DEF WithoutLimited
<1>6. l = UnleaseAll(ls \o lf)
  BY DEF Limited
<1> HIDE DEF P, l, s, f, ls, lf
<1>7. /\ ls \o lf \in Seq(Message) /\ Elems(ls \o lf) = (Waiting(Q) \cup Flying(Q)) \cap Full
      /\ Ids(ls \o lf) = Ids(ls) \cup Ids(lf)
      /\ (Distinct(ls) /\ Distinct(lf) /\ Ids(ls) \cap Ids(lf) = {}) => Distinct(ls \o lf)
  <2>1. Elems(ls \o lf) = Elems(ls) \cup Elems(lf)
    BY <1>3, <1>4, ConcatMessages
  <2>2. Elems(ls \o lf) = (Waiting(Q) \cup Flying(Q)) \cap Full
    BY <1>3, <1>4, <2>1
  <2> QED BY <1>3, <1>4, <2>2, ConcatMessages
<1>8. l \in Seq(Message) /\ Ids(l) = Ids(ls) \cup Ids(lf) /\ Elems(l) = L /\ (Distinct(ls \o lf) => Distinct(l))
  BY <1>6, <1>7, UnleaseAllList
<1> HIDE DEF L
<1>9. /\ P \in Queue /\ P.messages = s /\ P.inflight = f
      /\ SameHandles(P, Q) /\ SameDedup(P, Q) /\ P.redrive = Q.redrive
  BY <1>3, <1>4, <1>5 DEF Queue, SameHandles, SameDedup
<1>10. Waiting(P) = Waiting(Q) \ Full /\ Flying(P) = Flying(Q) \ Full
  BY <1>3, <1>4, <1>9 DEF Waiting, Flying
<1>11. ASSUME Tidy(Q)
       PROVE  /\ Tidy(P) /\ Distinct(l)
              /\ Holds(P) \cup Ids(l) = Holds(Q) /\ Holds(P) \cap Ids(l) = {}
  <2>1. /\ Distinct(ls) /\ Distinct(lf) /\ Distinct(s) /\ Distinct(f)
        /\ Ids(ls) \cap Ids(s) = {} /\ Ids(lf) \cap Ids(f) = {}
        /\ Ids(Q.messages) \cap Ids(Q.inflight) = {}
    BY <1>3, <1>4, <1>11 DEF Tidy
  <2>2. Tidy(P)
    BY <1>3, <1>4, <1>9, <2>1 DEF Tidy
  <2>3. Distinct(l)
    BY <1>3, <1>4, <1>7, <1>8, <2>1
  <2>4. Holds(P) \cup Ids(l) = Holds(Q) /\ Holds(P) \cap Ids(l) = {}
    BY <1>3, <1>4, <1>8, <1>9, <2>1 DEF Holds
  <2> QED BY <2>2, <2>3, <2>4
<1> QED BY <1>8, <1>9, <1>10, <1>11

-----------------------------------------------------------------------------
(* Where messages are. *)

\* What the queues hold together.
Everything(F) == UNION {Holds(F[q]) : q \in Queues}

\* No message is in two places.
Spread(F) ==
    /\ \A q \in Queues : Tidy(F[q])
    /\ \A p, q \in Queues : p # q => Holds(F[p]) \cap Holds(F[q]) = {}

\* Messages are in one place or gone, and have been sent; a queue that does not
\* exist holds none.
Accounts ==
    /\ Spread(queues)
    /\ Everything(queues) \cap gone = {}
    /\ Everything(queues) \subseteq 1..sent /\ gone \subseteq 1..sent
    /\ \A q \in Queues \ live : Holds(queues[q]) = {}

\* Every message that was sent is somewhere.
Accounted == 1..sent \subseteq Everything(queues) \cup gone

\* One queue changes.
LEMMA ChangeOne ==
    ASSUME NEW F \in [Queues -> Queue], NEW q \in Queues, NEW P \in Queue, Spread(F), Tidy(P),
           Holds(P) \cap (Everything(F) \ Holds(F[q])) = {}
    PROVE  LET G == [F EXCEPT ![q] = P] IN
           /\ G \in [Queues -> Queue]
           /\ G[q] = P /\ \A p \in Queues : p # q => G[p] = F[p]
           /\ Spread(G)
           /\ Everything(G) = (Everything(F) \ Holds(F[q])) \cup Holds(P)
<1> DEFINE G == [F EXCEPT ![q] = P]
<1> SUFFICES /\ G \in [Queues -> Queue]
             /\ G[q] = P /\ \A p \in Queues : p # q => G[p] = F[p]
             /\ Spread(G)
             /\ Everything(G) = (Everything(F) \ Holds(F[q])) \cup Holds(P)
  OBVIOUS
<1>1. /\ G \in [Queues -> Queue]
      /\ G[q] = P /\ \A p \in Queues : p # q => G[p] = F[p]
  OBVIOUS
<1> HIDE DEF G
<1>2. \A p \in Queues : p # q => Holds(F[p]) \subseteq Everything(F) \ Holds(F[q])
  BY DEF Spread, Everything
<1>3. \A p \in Queues : p # q => Holds(P) \cap Holds(F[p]) = {}
  BY <1>2
<1>4. Spread(G)
  <2>1. ASSUME NEW p \in Queues PROVE Tidy(G[p])
    BY <1>1 DEF Spread
  <2>2. ASSUME NEW p \in Queues, NEW r \in Queues, p # r PROVE Holds(G[p]) \cap Holds(G[r]) = {}
    <3>1. CASE p = q
      BY <1>1, <1>3, <2>2, <3>1
    <3>2. CASE r = q
      BY <1>1, <1>3, <2>2, <3>2
    <3>3. CASE p # q /\ r # q
      BY <1>1, <2>2, <3>3 DEF Spread
    <3> QED BY <3>1, <3>2, <3>3
  <2> QED BY <2>1, <2>2 DEF Spread
<1>5. Everything(G) = (Everything(F) \ Holds(F[q])) \cup Holds(P)
  <2>1. ASSUME NEW i \in Everything(G) PROVE i \in (Everything(F) \ Holds(F[q])) \cup Holds(P)
    <3>1. PICK p \in Queues : i \in Holds(G[p])
      BY DEF Everything
    <3> QED BY <1>1, <1>2, <3>1
  <2>2. ASSUME NEW i \in Everything(F), i \notin Holds(F[q]) PROVE i \in Everything(G)
    <3>1. PICK p \in Queues : i \in Holds(F[p])
      BY DEF Everything
    <3>2. p # q /\ G[p] = F[p]
      BY <1>1, <2>2, <3>1
    <3> QED BY <3>1, <3>2 DEF Everything
  <2>3. Holds(P) \subseteq Everything(G)
    BY <1>1 DEF Everything
  <2> QED BY <2>1, <2>2, <2>3
<1> QED BY <1>1, <1>4, <1>5

\* What the invariants say of the next state, put together.
LEMMA NextAccounts ==
    ASSUME Spread(queues'), Everything(queues') \cap gone' = {},
           Everything(queues') \subseteq 1..sent', gone' \subseteq 1..sent',
           \A q \in Queues \ live' : Holds(queues'[q]) = {}
    PROVE  Accounts'
  BY DEF Accounts, Spread, Everything, Tidy, Distinct, Holds, Ids

\* The same of the accounting.
LEMMA NextAccounted ==
    ASSUME 1..sent' \subseteq Everything(queues') \cup gone'
    PROVE  Accounted'
  BY DEF Accounted, Everything, Holds, Ids

\* A step that changes one queue, adds `new` messages and drops `lost` ones.
LEMMA OneQueueStep ==
    ASSUME TypeOK, Accounts, NEW q \in Queues, NEW P \in Queue, Tidy(P),
           queues' = [queues EXCEPT ![q] = P],
           NEW n \in Nat, sent' = sent + n,
           NEW lost, gone' = gone \cup lost, lost \subseteq Holds(queues[q]),
           Holds(P) \subseteq (Holds(queues[q]) \cup ((sent + 1)..sent')) \ lost,
           live' = live \/ live' = live \cup {q} \/ (live' = live \ {q} /\ Holds(P) = {}),
           q \notin live => Holds(P) = {}
    PROVE  /\ Accounts' /\ queues' \in [Queues -> Queue]
           /\ (Accounted /\ Holds(P) = (Holds(queues[q]) \cup ((sent + 1)..sent')) \ lost) => Accounted'
<1>1. sent \in Nat /\ sent' \in Nat /\ sent <= sent' /\ queues \in [Queues -> Queue]
  BY DEF TypeOK
<1> DEFINE new == (sent + 1)..sent'
           A == Everything(queues)
<1>2. /\ \A i \in new : i \in Int /\ i > sent
      /\ \A i \in 1..sent : i \in Int /\ i <= sent
      /\ 1..sent \subseteq 1..sent' /\ new \subseteq 1..sent'
      /\ 1..sent' = (1..sent) \cup new
  BY <1>1
<1>3. new \cap 1..sent = {}
  BY <1>2, <1>1
<1>4. Holds(queues[q]) \subseteq A
  BY DEF Everything
<1>5. A \subseteq 1..sent /\ gone \subseteq 1..sent /\ A \cap gone = {} /\ Spread(queues)
  BY DEF Accounts
<1>a. Holds(P) \subseteq (Holds(queues[q]) \cup new) \ lost
  OBVIOUS
<1> HIDE DEF new, A
<1>6. Holds(P) \cap (A \ Holds(queues[q])) = {}
  BY <1>3, <1>4, <1>5, <1>a
<1>7. /\ queues' \in [Queues -> Queue] /\ Spread(queues')
      /\ queues'[q] = P /\ \A p \in Queues : p # q => queues'[p] = queues[p]
      /\ Everything(queues') = (A \ Holds(queues[q])) \cup Holds(P)
  BY <1>1, <1>5, <1>6, ChangeOne, ZenonT(60) DEF A
<1>8. Everything(queues') \cap gone' = {}
  BY <1>3, <1>4, <1>5, <1>7, <1>a
<1>9. Everything(queues') \subseteq 1..sent' /\ gone' \subseteq 1..sent'
  BY <1>2, <1>4, <1>5, <1>7, <1>a
<1>10. \A p \in Queues \ live' : Holds(queues'[p]) = {}
  BY <1>7 DEF Accounts
<1>11. Accounts'
  BY <1>7, <1>8, <1>9, <1>10, NextAccounts
<1>12. ASSUME Accounted, Holds(P) = (Holds(queues[q]) \cup new) \ lost PROVE Accounted'
  <2>1. 1..sent' \subseteq Everything(queues') \cup gone'
    BY <1>2, <1>4, <1>7, <1>12 DEF Accounted, A
  <2> QED BY <2>1, NextAccounted
<1> QED BY <1>7, <1>11, <1>12 DEF new

\* What every step that loses nothing does to the invariants.
Keeps == TypeOK' /\ Accounts' /\ (Accounted => Accounted')

\* A step that leaves the messages of every queue alone.
LEMMA SameMessagesStep ==
    ASSUME TypeOK, Accounts, NEW q \in Queues, NEW P \in Queue, queues' = [queues EXCEPT ![q] = P],
           SameLists(P, queues[q]), UNCHANGED <<live, sent, minted, gone, accepted>>, now' \in Nat
    PROVE  Keeps
<1>1. Tidy(P) /\ Holds(P) = Holds(queues[q])
  BY DEF SameLists, Tidy, Holds, Accounts, Spread
<1>2. sent \in Nat /\ sent' = sent + 0 /\ (sent + 1)..sent' = {}
  BY DEF TypeOK
<1>3. q \notin live => Holds(P) = {}
  BY <1>1 DEF Accounts
<1>4. gone' = gone \cup {} /\ live' = live
  OBVIOUS
<1>5. /\ Accounts' /\ queues' \in [Queues -> Queue]
      /\ (Accounted /\ Holds(P) = (Holds(queues[q]) \cup ((sent + 1)..sent')) \ {}) => Accounted'
  BY <1>1, <1>2, <1>3, <1>4, OneQueueStep
<1>6. TypeOK'
  BY <1>5 DEF TypeOK
<1> QED BY <1>1, <1>2, <1>5, <1>6 DEF Keeps

\* Time passes.
LEMMA TickKeeps == TypeOK /\ Accounts /\ Tick => Keeps
<1> SUFFICES ASSUME TypeOK, Accounts, Tick PROVE Keeps
  OBVIOUS
<1>1. TypeOK'
  BY DEF TypeOK, Tick
<1>2. queues' = queues /\ live' = live /\ sent' = sent /\ gone' = gone
  BY DEF Tick
<1>3. Accounts'
  BY <1>2, NextAccounts DEF Accounts
<1>4. ASSUME Accounted PROVE Accounted'
  BY <1>2, <1>4, NextAccounted DEF Accounted
<1> QED BY <1>1, <1>3, <1>4 DEF Keeps

\* What the history remembers of a send.
LEMMA AcceptedType ==
    ASSUME NEW q \in Queues, NEW e \in Entries, NEW id \in MsgIds, NEW n \in Nat, now \in Nat
    PROVE  Accepted(q, e, id, n) \subseteq [queue : Queues, key : Keys, at : Nat, id : MsgIds, seq : Nat]
<1>1. DedupKey(q, e) \in Keys
  BY DedupKeyType
<1> QED BY <1>1 DEF Accepted

\* A message sent.
LEMMA SendMessageKeeps ==
    ASSUME TypeOK, Accounts, NEW q \in Queues, NEW e \in Entries, SendMessage(q, e)
    PROVE  Keeps
<1> DEFINE Q == queues[q]
           id == sent + 1
           P == Enqueue(q, Q, e, id)
<1>1. /\ Q \in Queue /\ now \in Nat /\ sent \in Nat /\ id \in MsgIds /\ sent' = sent + 1
      /\ MaxMessages \in Nat
  BY ConstantsAssumption DEF TypeOK, SendMessage, MsgIds
<1>2. queues' = [queues EXCEPT ![q] = P]
  BY DEF SendMessage, TypeOK
<1>3. Holds(Q) \subseteq 1..sent /\ Tidy(Q)
  BY DEF Accounts, Everything, Spread
<1>4. id \notin 1..sent /\ (sent + 1)..sent' = {id}
  BY <1>1
<1>5. gone' = gone \cup {} /\ live' = live /\ q \in live /\ now' = now /\ minted' = minted
  BY DEF SendMessage
<1>6. Q.next_sequence_number \in Nat
  BY <1>1, QueueFields
<1>7. accepted' = accepted \cup Accepted(q, e, id, Q.next_sequence_number)
  BY DEF SendMessage
<1>8. Accepted(q, e, id, Q.next_sequence_number)
         \subseteq [queue : Queues, key : Keys, at : Nat, id : MsgIds, seq : Nat]
  BY <1>1, <1>6, AcceptedType
<1> HIDE DEF Q, id
<1>9. P \in Queue /\ Holds(P) = Holds(Q) \cup {id} /\ Tidy(P)
  BY <1>1, <1>3, <1>4, EnqueueFields
<1> HIDE DEF P
<1>10. Holds(P) = (Holds(Q) \cup ((sent + 1)..sent')) \ {}
  BY <1>4, <1>9
<1>11. Accounts' /\ queues' \in [Queues -> Queue] /\ (Accounted => Accounted')
  BY <1>1, <1>2, <1>5, <1>9, <1>10, OneQueueStep DEF Q
<1>12. TypeOK'
  BY <1>1, <1>5, <1>7, <1>8, <1>11 DEF TypeOK, id, MsgIds
<1> QED BY <1>11, <1>12 DEF Keeps

\* A duplicate, and a send that cannot be encrypted.
LEMMA SendNothingKeeps ==
    ASSUME TypeOK, Accounts, NEW q \in Queues, NEW e \in Entries,
           SendDuplicate(q, e) \/ SendEncryptFails(q, e)
    PROVE  Keeps
<1> DEFINE Q == queues[q]
           D == PruneDedup(Q)
<1>1. Q \in Queue /\ now \in Nat
  BY DEF TypeOK
<1>2. D \in Queue /\ SameLists(D, Q)
  BY <1>1, PruneDedupFields
<1>3. UseNumber(D) \in Queue /\ SameLists(UseNumber(D), Q)
  BY <1>2, UseNumberFields DEF SameLists
<1>4. CASE SendDuplicate(q, e)
  <2>1. queues' = [queues EXCEPT ![q] = D] /\ UNCHANGED <<now, live, sent, minted, gone, accepted>>
    BY <1>4 DEF SendDuplicate
  <2> QED BY <1>1, <1>2, <2>1, SameMessagesStep
<1>5. CASE SendEncryptFails(q, e)
  <2>1. queues' = [queues EXCEPT ![q] = UseNumber(D)] /\ UNCHANGED <<now, live, sent, minted, gone, accepted>>
    BY <1>5 DEF SendEncryptFails
  <2> QED BY <1>1, <1>3, <2>1, SameMessagesStep
<1> QED BY <1>4, <1>5

\* A delivery from another service.
LEMMA DeliverKeeps ==
    ASSUME TypeOK, Accounts, NEW q \in Queues, NEW g \in Groups \cup {NoGroup}, Deliver(q, g)
    PROVE  Keeps
<1> DEFINE Q == queues[q]
           id == sent + 1
           e == [group |-> g, delay |-> 0]
           P == PushBack(q, Q, e, id)
<1>1. /\ Q \in Queue /\ now \in Nat /\ sent \in Nat /\ id \in MsgIds /\ sent' = sent + 1
      /\ MaxMessages \in Nat
  BY ConstantsAssumption DEF TypeOK, Deliver, MsgIds
<1>2. queues' = [queues EXCEPT ![q] = P]
  BY DEF Deliver, TypeOK
<1>3. Holds(Q) \subseteq 1..sent /\ Tidy(Q)
  BY DEF Accounts, Everything, Spread
<1>4. id \notin 1..sent /\ (sent + 1)..sent' = {id}
  BY <1>1
<1>5. /\ gone' = gone \cup {} /\ live' = live /\ q \in live /\ now' = now /\ minted' = minted
      /\ accepted' = accepted
  BY DEF Deliver
<1>6. e.group \in Groups \cup {NoGroup} /\ e.delay \in Nat
  OBVIOUS
<1> HIDE DEF Q, id, e
<1>9. P \in Queue /\ Holds(P) = Holds(Q) \cup {id} /\ Tidy(P)
  BY <1>1, <1>3, <1>4, <1>6, PushBackFields
<1> HIDE DEF P
<1>10. Holds(P) = (Holds(Q) \cup ((sent + 1)..sent')) \ {}
  BY <1>4, <1>9
<1>11. Accounts' /\ queues' \in [Queues -> Queue] /\ (Accounted => Accounted')
  BY <1>1, <1>2, <1>5, <1>9, <1>10, OneQueueStep DEF Q
<1>12. TypeOK'
  BY <1>1, <1>5, <1>11 DEF TypeOK, id, MsgIds
<1> QED BY <1>11, <1>12 DEF Keeps

\* One that cannot be encrypted, and a replayed receive.
LEMMA DeliverEncryptFailsKeeps ==
    ASSUME TypeOK, Accounts, NEW q \in Queues, DeliverEncryptFails(q)
    PROVE  Keeps
<1>1. queues[q] \in Queue /\ now \in Nat
  BY DEF TypeOK
<1>2. UseNumber(queues[q]) \in Queue /\ SameLists(UseNumber(queues[q]), queues[q])
  BY <1>1, UseNumberFields
<1>3. /\ queues' = [queues EXCEPT ![q] = UseNumber(queues[q])]
      /\ UNCHANGED <<now, live, sent, minted, gone, accepted>>
  BY DEF DeliverEncryptFails
<1> QED BY <1>1, <1>2, <1>3, SameMessagesStep

\* A replayed receive.
LEMMA ReplayReceiveKeeps ==
    ASSUME TypeOK, Accounts, NEW q \in Queues, NEW a, ReplayReceive(q, a)
    PROVE  Keeps
<1>1. queues[q] \in Queue /\ now \in Nat
  BY DEF TypeOK
<1>2. PruneAttempts(queues[q]) \in Queue /\ SameLists(PruneAttempts(queues[q]), queues[q])
  BY <1>1, PruneAttemptsFields
<1>3. /\ queues' = [queues EXCEPT ![q] = PruneAttempts(queues[q])]
      /\ UNCHANGED <<now, live, sent, minted, gone, accepted>>
  BY DEF ReplayReceive
<1> QED BY <1>1, <1>2, <1>3, SameMessagesStep

\* A step that sends nothing, and drops the messages `lost` from one queue.
LEMMA DropStep ==
    ASSUME TypeOK, Accounts, NEW q \in Queues, NEW P \in Queue, Tidy(P),
           queues' = [queues EXCEPT ![q] = P],
           NEW lost, gone' = gone \cup lost, lost \subseteq Holds(queues[q]),
           Holds(P) \subseteq Holds(queues[q]) \ lost,
           UNCHANGED <<now, live, sent, accepted>>, minted' \in [MsgIds -> Nat]
    PROVE  /\ TypeOK' /\ Accounts'
           /\ Holds(P) = Holds(queues[q]) \ lost => (Accounted => Accounted')
<1>1. sent \in Nat /\ sent' = sent + 0 /\ (sent + 1)..sent' = {}
  BY DEF TypeOK
<1>2. q \notin live => Holds(P) = {}
  BY DEF Accounts
<1>3. /\ Accounts' /\ queues' \in [Queues -> Queue]
      /\ (Accounted /\ Holds(P) = (Holds(queues[q]) \cup ((sent + 1)..sent')) \ lost) => Accounted'
  BY <1>1, <1>2, OneQueueStep
<1>4. lost \subseteq MsgIds
  BY QueueFields DEF TypeOK
<1>5. TypeOK'
  BY <1>3, <1>4 DEF TypeOK
<1> QED BY <1>1, <1>3, <1>5

\* A delete.
LEMMA DeleteMessageBatchKeeps ==
    ASSUME TypeOK, Accounts, NEW q \in Queues, NEW ids, DeleteMessageBatch(q, ids)
    PROVE  Keeps
<1> DEFINE Q == queues[q]
           P == Deleted(Q, ids)
           lost == ids \cap (Ids(Q.inflight) \cup Ids(Q.messages))
<1>1. Q \in Queue /\ Tidy(Q)
  BY DEF TypeOK, Accounts, Spread
<1>2. P \in Queue /\ Holds(P) = Holds(Q) \ ids /\ Tidy(P)
  BY <1>1, DeletedFields
<1>3. /\ queues' = [queues EXCEPT ![q] = P] /\ gone' = gone \cup lost
      /\ UNCHANGED <<now, live, sent, minted, accepted>>
  BY DEF DeleteMessageBatch
<1>4. lost = ids \cap Holds(Q)
  BY DEF Holds
<1>5. minted' \in [MsgIds -> Nat]
  BY <1>3 DEF TypeOK
<1> HIDE DEF P, lost
<1>6. lost \subseteq Holds(queues[q]) /\ Holds(P) = Holds(queues[q]) \ lost
  BY <1>2, <1>4
<1>7. TypeOK' /\ Accounts' /\ (Accounted => Accounted')
  BY <1>2, <1>3, <1>5, <1>6, DropStep
<1> QED BY <1>7 DEF Keeps

\* A change of visibility.
LEMMA ChangeVisibilityKeeps ==
    ASSUME TypeOK, Accounts, NEW q \in Queues, NEW ids, NEW t \in Nat,
           ChangeMessageVisibilityBatch(q, ids, t)
    PROVE  Keeps
<1> DEFINE Q == queues[q]
           P == WithVisibility(Q, ids, t)
<1>1. Q \in Queue /\ Tidy(Q) /\ now \in Nat
  BY DEF TypeOK, Accounts, Spread
<1>2. P \in Queue /\ Holds(P) = Holds(Q) /\ Tidy(P)
  BY <1>1, WithVisibilityFields
<1>3. /\ queues' = [queues EXCEPT ![q] = P] /\ gone' = gone \cup {}
      /\ UNCHANGED <<now, live, sent, minted, accepted>>
  BY DEF ChangeMessageVisibilityBatch
<1>5. minted' \in [MsgIds -> Nat]
  BY <1>3 DEF TypeOK
<1> HIDE DEF P
<1>6. {} \subseteq Holds(queues[q]) /\ Holds(P) = Holds(queues[q]) \ {}
  BY <1>2
<1>7. TypeOK' /\ Accounts' /\ (Accounted => Accounted')
  BY <1>2, <1>3, <1>5, <1>6, DropStep
<1> QED BY <1>7 DEF Keeps

\* Creating, deleting, purging and configuring queues.
LEMMA CreateQueueKeeps ==
    ASSUME TypeOK, Accounts, NEW q \in Queues, NEW target \in Queues \cup {NoQueue},
           CreateQueue(q, target)
    PROVE  Keeps
<1> DEFINE P == NewQueue(target)
<1>1. P \in Queue /\ Holds(P) = {} /\ Tidy(P)
  BY NewQueueFields
<1>2. /\ queues' = [queues EXCEPT ![q] = P] /\ q \notin live /\ live' = live \cup {q}
      /\ gone' = gone \cup {} /\ UNCHANGED <<now, sent, minted, accepted, gone>>
  BY DEF CreateQueue
<1>3. Holds(queues[q]) = {}
  BY <1>2 DEF Accounts
<1>4. sent \in Nat /\ sent' = sent + 0 /\ (sent + 1)..sent' = {}
  BY <1>2 DEF TypeOK
<1> HIDE DEF P
<1>5. Holds(P) = (Holds(queues[q]) \cup ((sent + 1)..sent')) \ {}
  BY <1>1, <1>3, <1>4
<1>6. Accounts' /\ queues' \in [Queues -> Queue] /\ (Accounted => Accounted')
  BY <1>1, <1>2, <1>4, <1>5, OneQueueStep
<1>7. TypeOK'
  BY <1>2, <1>6 DEF TypeOK
<1> QED BY <1>6, <1>7 DEF Keeps

\* A queue deleted.
LEMMA DeleteQueueKeeps ==
    ASSUME TypeOK, Accounts, NEW q \in Queues, DeleteQueue(q)
    PROVE  Keeps
<1> DEFINE P == NewQueue(NoQueue)
           lost == Holds(queues[q])
<1>1. P \in Queue /\ Holds(P) = {} /\ Tidy(P)
  BY NewQueueFields
<1>2. /\ queues' = [queues EXCEPT ![q] = P] /\ live' = live \ {q}
      /\ gone' = gone \cup lost /\ UNCHANGED <<now, sent, minted>>
      /\ accepted' \subseteq accepted
  BY DEF DeleteQueue, Holds
<1>4. sent \in Nat /\ sent' = sent + 0 /\ (sent + 1)..sent' = {}
  BY <1>2 DEF TypeOK
<1>l. lost \subseteq MsgIds
  BY QueueFields DEF TypeOK
<1> HIDE DEF P
<1>5. Holds(P) = (Holds(queues[q]) \cup ((sent + 1)..sent')) \ lost
  BY <1>1, <1>4
<1>6. Accounts' /\ queues' \in [Queues -> Queue] /\ (Accounted => Accounted')
  BY <1>1, <1>2, <1>4, <1>5, OneQueueStep
<1>7. TypeOK'
  BY <1>2, <1>6, <1>l DEF TypeOK
<1> QED BY <1>6, <1>7 DEF Keeps

\* A queue without messages.
LEMMA EmptiedFields ==
    ASSUME NEW Q \in Queue
    PROVE  LET P == [Q EXCEPT !.messages = <<>>, !.inflight = <<>>] IN
           /\ P \in Queue /\ Tidy(P) /\ Holds(P) = {} /\ Waiting(P) = {} /\ Flying(P) = {}
           /\ SameHandles(P, Q) /\ SameDedup(P, Q) /\ P.redrive = Q.redrive
           /\ P.next_sequence_number = Q.next_sequence_number
<1> DEFINE e == <<>>
           P == [Q EXCEPT !.messages = e, !.inflight = e]
<1> SUFFICES
           /\ P \in Queue /\ Tidy(P) /\ Holds(P) = {} /\ Waiting(P) = {} /\ Flying(P) = {}
           /\ SameHandles(P, Q) /\ SameDedup(P, Q) /\ P.redrive = Q.redrive
           /\ P.next_sequence_number = Q.next_sequence_number
  OBVIOUS
<1>1. e \in Seq(Message) /\ DOMAIN e = {}
  OBVIOUS
<1> HIDE DEF e
<1>2. /\ P \in Queue /\ P.messages = e /\ P.inflight = e
      /\ SameHandles(P, Q) /\ SameDedup(P, Q) /\ P.redrive = Q.redrive
      /\ P.next_sequence_number = Q.next_sequence_number
  BY <1>1 DEF Queue, SameHandles, SameDedup
<1> HIDE DEF P
<1>3. Tidy(P) /\ Holds(P) = {} /\ Waiting(P) = {} /\ Flying(P) = {}
  BY <1>1, <1>2 DEF Tidy, Holds, Distinct, Ids, Waiting, Flying, Elems
<1> QED BY <1>2, <1>3

\* A queue purged.
LEMMA PurgeQueueKeeps ==
    ASSUME TypeOK, Accounts, NEW q \in Queues, PurgeQueue(q)
    PROVE  Keeps
<1> DEFINE P == [queues[q] EXCEPT !.messages = <<>>, !.inflight = <<>>]
           lost == Holds(queues[q])
<1>1. P \in Queue /\ Holds(P) = {} /\ Tidy(P)
  BY EmptiedFields DEF TypeOK
<1>2. /\ queues' = [queues EXCEPT ![q] = P]
      /\ gone' = gone \cup lost /\ UNCHANGED <<now, live, sent, minted, accepted>>
  BY DEF PurgeQueue, Holds
<1>3. minted' \in [MsgIds -> Nat]
  BY <1>2 DEF TypeOK
<1> HIDE DEF P
<1>4. lost \subseteq Holds(queues[q]) /\ Holds(P) = Holds(queues[q]) \ lost
  BY <1>1
<1>5. TypeOK' /\ Accounts' /\ (Accounted => Accounted')
  BY <1>1, <1>2, <1>3, <1>4, DropStep
<1> QED BY <1>5 DEF Keeps

\* A queue with another redrive policy.
LEMMA RedriveFields ==
    ASSUME NEW Q \in Queue, NEW r \in Queues \cup {NoQueue}
    PROVE  LET P == [Q EXCEPT !.redrive = r] IN
           /\ P \in Queue /\ SameLists(P, Q) /\ SameHandles(P, Q) /\ SameDedup(P, Q)
           /\ P.redrive = r /\ P.next_sequence_number = Q.next_sequence_number
  BY DEF Queue, SameLists, SameHandles, SameDedup

\* A redrive policy set.
LEMMA SetRedrivePolicyKeeps ==
    ASSUME TypeOK, Accounts, NEW q \in Queues, NEW target \in Queues \cup {NoQueue},
           SetRedrivePolicy(q, target)
    PROVE  Keeps
<1> DEFINE P == [queues[q] EXCEPT !.redrive = target]
<1>1. queues[q] \in Queue /\ now \in Nat
  BY DEF TypeOK
<1>2. P \in Queue /\ SameLists(P, queues[q])
  BY <1>1, RedriveFields
<1>3. queues' = [queues EXCEPT ![q] = P] /\ UNCHANGED <<now, live, sent, minted, gone, accepted>>
  BY DEF SetRedrivePolicy
<1> HIDE DEF P
<1> QED BY <1>1, <1>2, <1>3, SameMessagesStep

\* The retention period on every queue.
LEMMA TickExpirationKeeps == TypeOK /\ Accounts /\ TickExpiration => Keeps
<1> SUFFICES ASSUME TypeOK, Accounts, TickExpiration PROVE Keeps
  OBVIOUS
<1> DEFINE lost == UNION {ExpiredIds(queues[q]) : q \in live}
<1>1. /\ queues' = [q \in Queues |-> IF q \in live THEN DropExpired(queues[q]) ELSE queues[q]]
      /\ gone' = gone \cup lost /\ UNCHANGED <<now, live, sent, minted, accepted>>
  BY DEF TickExpiration
<1>2. live \subseteq Queues /\ queues \in [Queues -> Queue]
  BY DEF TypeOK
<1>3. ASSUME NEW q \in Queues
      PROVE  /\ queues'[q] \in Queue /\ Tidy(queues'[q]) /\ Holds(queues'[q]) \subseteq Holds(queues[q])
             /\ q \in live => Holds(queues'[q]) = Holds(queues[q]) \ ExpiredIds(queues[q])
             /\ q \in live => ExpiredIds(queues[q]) \subseteq Holds(queues[q])
             /\ q \notin live => Holds(queues'[q]) = {} /\ Holds(queues[q]) = {}
  <2>1. queues[q] \in Queue /\ Tidy(queues[q]) /\ (q \notin live => Holds(queues[q]) = {})
    BY <1>2 DEF Accounts, Spread
  <2>2. /\ DropExpired(queues[q]) \in Queue /\ Tidy(DropExpired(queues[q]))
        /\ Holds(DropExpired(queues[q])) = Holds(queues[q]) \ ExpiredIds(queues[q])
        /\ ExpiredIds(queues[q]) \subseteq Holds(queues[q])
    BY <2>1, DropExpiredFields
  <2>3. queues'[q] = IF q \in live THEN DropExpired(queues[q]) ELSE queues[q]
    BY <1>1
  <2> QED BY <2>1, <2>2, <2>3
<1>4. \A p, q \in Queues : p # q => Holds(queues[p]) \cap Holds(queues[q]) = {}
  BY DEF Accounts, Spread
<1>5. queues' \in [Queues -> Queue]
  <2>1. \A q \in Queues : queues'[q] \in Queue
    BY <1>3
  <2>2. DOMAIN queues' = Queues /\ queues' = [q \in DOMAIN queues' |-> queues'[q]]
    BY <1>1
  <2> QED BY <2>1, <2>2
<1>6. Spread(queues')
  BY <1>3, <1>4 DEF Spread
<1>7. Everything(queues') \subseteq Everything(queues)
  BY <1>3 DEF Everything
<1>8. lost \subseteq Everything(queues)
  BY <1>2, <1>3 DEF Everything
<1>9. Everything(queues') \cap lost = {}
  <2>1. SUFFICES ASSUME NEW i \in Everything(queues'), i \in lost PROVE FALSE
    OBVIOUS
  <2>2. PICK p \in Queues : i \in Holds(queues'[p])
    BY <2>1 DEF Everything
  <2>3. PICK q \in live : i \in ExpiredIds(queues[q])
    BY <2>1
  <2>4. q \in Queues /\ i \in Holds(queues[q]) /\ i \in Holds(queues[p])
    BY <1>2, <1>3, <2>2, <2>3
  <2>5. p = q
    BY <1>4, <2>4
  <2> QED BY <1>3, <2>2, <2>3, <2>5
<1>10. ASSUME NEW i \in Everything(queues), i \notin lost PROVE i \in Everything(queues')
  <2>1. PICK q \in Queues : i \in Holds(queues[q])
    BY DEF Everything
  <2>2. q \in live /\ i \notin ExpiredIds(queues[q])
    BY <1>3, <1>10, <2>1
  <2> QED BY <1>3, <2>1, <2>2 DEF Everything
<1> HIDE DEF lost
<1>11. Accounts'
  BY <1>1, <1>3, <1>6, <1>7, <1>8, <1>9, NextAccounts DEF Accounts
<1>12. ASSUME Accounted PROVE Accounted'
  <2>1. 1..sent' \subseteq Everything(queues') \cup gone'
    BY <1>1, <1>10, <1>12 DEF Accounted
  <2> QED BY <2>1, NextAccounted
<1>13. TypeOK'
  <2>1. Everything(queues) \subseteq MsgIds
    BY <1>2, QueueFields DEF Everything
  <2> QED BY <1>1, <1>5, <1>8, <2>1 DEF TypeOK
<1> QED BY <1>11, <1>12, <1>13 DEF Keeps

\* A step that takes the messages s out of one queue and puts them at the back
\* of another (or of the same), and drops the messages `lost`.
LEMMA MoveStep ==
    ASSUME TypeOK, Accounts, NEW q \in live, NEW t \in live, NEW P \in Queue, Tidy(P),
           NEW s \in Seq(Message), Distinct(s), Holds(P) \cap Ids(s) = {},
           NEW lost, lost \subseteq Holds(queues[q]),
           Holds(P) \cup Ids(s) = Holds(queues[q]) \ lost,
           NEW F, F = [queues EXCEPT ![q] = P], queues' = [F EXCEPT ![t] = Arrive(F[t], s)],
           gone' = gone \cup lost, UNCHANGED <<now, live, sent, accepted>>,
           minted' \in [MsgIds -> Nat]
    PROVE  Keeps
<1> DEFINE A == Everything(queues)
           R == Arrive(F[t], s)
<1>1. q \in Queues /\ t \in Queues /\ queues \in [Queues -> Queue]
  BY DEF TypeOK
<1>2. A \subseteq 1..sent /\ gone \subseteq 1..sent /\ A \cap gone = {} /\ Spread(queues)
  BY DEF Accounts
<1>3. Holds(queues[q]) \subseteq A
  BY <1>1 DEF Everything
<1>4. Holds(P) \cap (Everything(queues) \ Holds(queues[q])) = {}
  OBVIOUS
<1> HIDE DEF A
<1>5. /\ F \in [Queues -> Queue] /\ Spread(F) /\ Everything(F) = (A \ Holds(queues[q])) \cup Holds(P)
      /\ F[q] = P /\ \A p \in Queues : p # q => F[p] = queues[p]
  <2>1. F \in [Queues -> Queue] /\ F[q] = P /\ \A p \in Queues : p # q => F[p] = queues[p]
    BY <1>1
  <2>2. Spread(F) /\ Everything(F) = (Everything(queues) \ Holds(queues[q])) \cup Holds(P)
    BY <1>1, <1>2, <1>4, ChangeOne
  <2> QED BY <2>1, <2>2 DEF A
<1>6. Everything(F) \cap Ids(s) = {}
  BY <1>5
<1>7. Holds(F[t]) \subseteq Everything(F) /\ F[t] \in Queue /\ Tidy(F[t])
  BY <1>1, <1>5 DEF Everything, Spread
<1>8. R \in Queue /\ Holds(R) = Holds(F[t]) \cup Ids(s) /\ Tidy(R)
  BY <1>6, <1>7, ArriveFields
<1> HIDE DEF R
<1>9. Holds(R) \cap (Everything(F) \ Holds(F[t])) = {}
  BY <1>6, <1>8
<1>10. /\ queues' \in [Queues -> Queue] /\ Spread(queues')
       /\ queues'[t] = R /\ \A p \in Queues : p # t => queues'[p] = F[p]
       /\ Everything(queues') = (Everything(F) \ Holds(F[t])) \cup Holds(R)
  BY <1>1, <1>5, <1>8, <1>9, ChangeOne, ZenonT(60) DEF R
<1>11. Everything(queues') = A \ lost
  BY <1>3, <1>5, <1>7, <1>8, <1>10
<1>12. \A p \in Queues \ live' : Holds(queues'[p]) = {}
  <2>1. ASSUME NEW p \in Queues \ live' PROVE Holds(queues'[p]) = {}
    <3>1. p # t /\ p # q /\ p \notin live
      OBVIOUS
    <3>2. queues'[p] = queues[p]
      BY <1>5, <1>10, <3>1
    <3> QED BY <3>1, <3>2 DEF Accounts
  <2> QED BY <2>1
<1>13. Accounts'
  BY <1>2, <1>3, <1>10, <1>11, <1>12, NextAccounts
<1>14. ASSUME Accounted PROVE Accounted'
  <2>1. 1..sent' \subseteq Everything(queues') \cup gone'
    BY <1>11, <1>14 DEF Accounted, A
  <2> QED BY <2>1, NextAccounted
<1>15. TypeOK'
  <2>1. lost \subseteq MsgIds
    BY <1>1, QueueFields
  <2> QED BY <1>10, <2>1 DEF TypeOK
<1> QED BY <1>13, <1>14, <1>15 DEF Keeps

\* A receive.
LEMMA ReceiveMessageKeeps ==
    ASSUME TypeOK, Accounts, NEW q \in Queues, NEW max \in Nat, NEW vt \in Nat, NEW a,
           ReceiveMessage(q, max, vt, a)
    PROVE  Keeps
<1> DEFINE R == Refreshed(q)
           P == HandedOut(q, R, max, vt, a)
           d == Dead(q, R, max)
           s == Restart(d)
           t == IF R.redrive \in live THEN R.redrive ELSE q
           F == [queues EXCEPT ![q] = P]
           lost == ExpiredIds(queues[q])
<1>1. /\ queues \in [Queues -> Queue] /\ queues[q] \in Queue /\ now \in Nat
      /\ minted \in [MsgIds -> Nat] /\ Tidy(queues[q])
  BY DEF TypeOK, Accounts, Spread
<1>2. /\ q \in live /\ gone' = gone \cup lost /\ UNCHANGED <<now, live, sent, accepted>>
      /\ queues' = [F EXCEPT ![t] = Arrive(F[t], s)]
      /\ minted' = [i \in MsgIds |-> IF i \in Ids(Received(q, R, max)) THEN minted[i] + 1 ELSE minted[i]]
  BY DEF ReceiveMessage
<1>3. R \in Queue /\ Tidy(R) /\ Holds(R) = Holds(queues[q]) \ lost /\ lost \subseteq Holds(queues[q])
  BY <1>1, RefreshedFields
<1>4. t \in live
  BY <1>2
<1>5. minted' \in [MsgIds -> Nat]
  <2>1. \A i \in MsgIds : minted[i] + 1 \in Nat
    BY <1>1
  <2> QED BY <1>1, <1>2, <2>1
<1> HIDE DEF R, lost, t
<1>6. P \in Queue /\ Tidy(P) /\ Holds(P) = Holds(R) \ Ids(d) /\ Ids(d) \subseteq Holds(R)
  BY <1>1, <1>3, HandedOutFields
<1>7. d \in Seq(Message) /\ Distinct(d)
  <2>1. Distinct(R.messages)
    BY <1>3 DEF Tidy
  <2> QED BY <1>3, <2>1, Selection
<1> HIDE DEF P, d
<1>8. s \in Seq(Message) /\ Distinct(s) /\ Ids(s) = Ids(d)
  BY <1>7, RestartList
<1> HIDE DEF s, F
<1>9. Holds(P) \cap Ids(s) = {} /\ Holds(P) \cup Ids(s) = Holds(queues[q]) \ lost
  BY <1>3, <1>6, <1>8
<1> QED BY <1>2, <1>3, <1>4, <1>5, <1>6, <1>8, <1>9, MoveStep DEF F

\* A receive whose messages cannot be decrypted: without a redrive policy
\* nothing is lost.
LEMMA ReceiveDecryptFailsKeeps ==
    ASSUME TypeOK, Accounts, NEW q \in Queues, NEW max \in Nat, NEW a, ReceiveDecryptFails(q, max, a)
    PROVE  /\ TypeOK' /\ Accounts'
           /\ queues[q].redrive = NoQueue => (Accounted => Accounted')
<1> DEFINE R == Refreshed(q)
           r == Received(q, R, max)
           d == Dead(q, R, max)
           m == Remaining(q, R, max)
           u == UnleaseAll(r)
           s == u \o m
           P == [R EXCEPT !.messages = s]
           lost == ExpiredIds(queues[q])
<1>1. /\ queues \in [Queues -> Queue] /\ queues[q] \in Queue /\ now \in Nat
      /\ minted \in [MsgIds -> Nat] /\ Tidy(queues[q])
  BY DEF TypeOK, Accounts, Spread
<1>2. /\ q \in live /\ gone' = gone \cup lost /\ UNCHANGED <<now, live, sent, minted, accepted>>
      /\ queues' = [queues EXCEPT ![q] = P]
  BY DEF ReceiveDecryptFails
<1>3. /\ R \in Queue /\ Tidy(R) /\ Holds(R) = Holds(queues[q]) \ lost /\ lost \subseteq Holds(queues[q])
      /\ R.redrive = queues[q].redrive
  BY <1>1, RefreshedFields
<1> HIDE DEF R, lost
<1>4. /\ r \in Seq(Message) /\ d \in Seq(Message) /\ m \in Seq(Message)
      /\ Elems(r) \cup Elems(d) \cup Elems(m) = Waiting(R)
      /\ Distinct(r) /\ Distinct(d) /\ Distinct(m) /\ Ids(r) \cap Ids(m) = {}
      /\ \A x \in Elems(d) : Exhausted(R, x)
  <2>1. Distinct(R.messages)
    BY <1>3 DEF Tidy
  <2> QED BY <1>3, <2>1, Selection
<1> HIDE DEF r, d, m
<1>5. u \in Seq(Message) /\ Ids(u) = Ids(r) /\ Distinct(u)
  BY <1>4, UnleaseAllList
<1> HIDE DEF u
<1>6. s \in Seq(Message) /\ Ids(s) = Ids(r) \cup Ids(m) /\ Distinct(s)
  BY <1>4, <1>5, ConcatMessages
<1> HIDE DEF s
<1>7. P \in Queue /\ P.messages = s /\ P.inflight = R.inflight
  BY <1>3, <1>6, MessagesFields
<1> HIDE DEF P
<1>8. Ids(r) \cup Ids(d) \cup Ids(m) = Ids(R.messages)
  BY <1>4, IdsElems DEF Waiting
<1>9. Tidy(P) /\ Holds(P) \subseteq Holds(R)
  BY <1>3, <1>6, <1>7, <1>8 DEF Tidy, Holds
<1>10. R.redrive = NoQueue => Holds(P) = Holds(R)
  <2> SUFFICES ASSUME R.redrive = NoQueue PROVE Holds(P) = Holds(R)
    OBVIOUS
  <2>1. Elems(d) = {}
    BY <1>4 DEF Exhausted
  <2>2. Ids(d) = {}
    BY <2>1, IdsElems
  <2> QED BY <1>6, <1>7, <1>8, <2>2 DEF Holds
<1>11. minted' \in [MsgIds -> Nat]
  BY <1>1, <1>2
<1>12. /\ TypeOK' /\ Accounts'
       /\ Holds(P) = Holds(queues[q]) \ lost => (Accounted => Accounted')
  BY <1>2, <1>3, <1>7, <1>9, <1>11, DropStep
<1> QED BY <1>3, <1>10, <1>12

\* Forced dead-lettering.
LEMMA ForceDlqKeeps ==
    ASSUME TypeOK, Accounts, NEW q \in Queues, ForceDlq(q)
    PROVE  Keeps
<1> DEFINE Q == queues[q]
           P == WithoutLimited(Q)
           s == Limited(Q)
           t == Q.redrive
           F == [queues EXCEPT ![q] = P]
<1>1. Q \in Queue /\ Tidy(Q) /\ minted \in [MsgIds -> Nat]
  BY DEF TypeOK, Accounts, Spread
<1>2. /\ q \in live /\ t \in live /\ gone' = gone \cup {} /\ UNCHANGED <<now, live, sent, accepted, minted>>
      /\ queues' = [F EXCEPT ![t] = Arrive(F[t], s)]
  BY DEF ForceDlq
<1>3. /\ P \in Queue /\ s \in Seq(Message) /\ Tidy(P) /\ Distinct(s)
      /\ Holds(P) \cup Ids(s) = Holds(Q) /\ Holds(P) \cap Ids(s) = {}
  BY <1>1, LimitedFields
<1>4. minted' \in [MsgIds -> Nat]
  BY <1>1, <1>2
<1> HIDE DEF P, s, t, F
<1>5. {} \subseteq Holds(queues[q]) /\ Holds(P) \cup Ids(s) = Holds(queues[q]) \ {}
  BY <1>3
<1> QED BY <1>2, <1>3, <1>4, <1>5, MoveStep DEF F

\* One entry of a batch: a message, or nothing if it is a duplicate.
BatchEntry(q, Q, e, n, id) == IF n = 0 THEN PruneDedup(Q) ELSE Enqueue(q, Q, e, id)

\* What it leaves.
LEMMA BatchEntryFields ==
    ASSUME NEW q \in Queues, NEW Q \in Queue, NEW e \in Entries, now \in Nat,
           NEW n \in {0, 1}, NEW id, n = 1 => id \in MsgIds
    PROVE  LET P == BatchEntry(q, Q, e, n, id) IN
           /\ P \in Queue
           /\ SameHandles(P, Q) /\ P.redrive = Q.redrive /\ P.inflight = Q.inflight
           /\ Waiting(P) = Waiting(Q) \cup (IF n = 0 THEN {} ELSE {NewMessage(q, Q, e, id)})
           /\ Flying(P) = Flying(Q)
           /\ Holds(P) = Holds(Q) \cup (IF n = 0 THEN {} ELSE {id})
           /\ (Tidy(Q) /\ id \notin Holds(Q)) => Tidy(P)
<1> DEFINE P == BatchEntry(q, Q, e, n, id)
<1> SUFFICES
           /\ P \in Queue
           /\ SameHandles(P, Q) /\ P.redrive = Q.redrive /\ P.inflight = Q.inflight
           /\ Waiting(P) = Waiting(Q) \cup (IF n = 0 THEN {} ELSE {NewMessage(q, Q, e, id)})
           /\ Flying(P) = Flying(Q)
           /\ Holds(P) = Holds(Q) \cup (IF n = 0 THEN {} ELSE {id})
           /\ (Tidy(Q) /\ id \notin Holds(Q)) => Tidy(P)
  OBVIOUS
<1>1. CASE n = 0
  <2>1. P = PruneDedup(Q)
    BY <1>1 DEF BatchEntry
  <2>2. P \in Queue /\ SameLists(P, Q) /\ SameHandles(P, Q) /\ P.redrive = Q.redrive
    BY <2>1, PruneDedupFields
  <2> HIDE DEF P
  <2> QED BY <1>1, <2>2 DEF SameLists, Waiting, Flying, Holds, Tidy
<1>2. CASE n = 1
  <2>1. P = Enqueue(q, Q, e, id)
    BY <1>2 DEF BatchEntry
  <2>2. /\ P \in Queue
        /\ SameHandles(P, Q) /\ P.redrive = Q.redrive /\ P.inflight = Q.inflight
        /\ Waiting(P) = Waiting(Q) \cup {NewMessage(q, Q, e, id)} /\ Flying(P) = Flying(Q)
        /\ Holds(P) = Holds(Q) \cup {id}
        /\ (Tidy(Q) /\ id \notin Holds(Q)) => Tidy(P)
    BY <1>2, <2>1, EnqueueFields
  <2> HIDE DEF P
  <2> QED BY <1>2, <2>2
<1> QED BY <1>1, <1>2

\* The two entries of a batch, one after the other.
LEMMA BatchSteps ==
    ASSUME TypeOK, NEW q \in Queues, NEW e1 \in Entries, NEW e2 \in Entries,
           SendMessageBatch(q, e1, e2)
    PROVE  \E n1, n2 \in {0, 1}, Q1 \in Queue :
              /\ q \in live
              /\ (n1 = 0) <=> IsDuplicate(q, e1)
              /\ Q1 = BatchEntry(q, queues[q], e1, n1, sent + 1)
              /\ (n2 = 0) <=> (q \in FifoQueues /\ PruneDedup(Q1).dedup_cache[DedupKey(q, e2)] # NoDedup)
              /\ sent' = sent + n1 + n2 /\ sent + n1 + n2 <= MaxMessages
              /\ queues' = [queues EXCEPT ![q] = BatchEntry(q, Q1, e2, n2, sent + n1 + 1)]
              /\ accepted' = accepted
                    \cup (IF n1 = 0 THEN {}
                          ELSE Accepted(q, e1, sent + 1, queues[q].next_sequence_number))
                    \cup (IF n2 = 0 THEN {}
                          ELSE Accepted(q, e2, sent + n1 + 1, Q1.next_sequence_number))
              /\ UNCHANGED <<now, live, minted, gone>>
<1> DEFINE Q == queues[q]
           n1 == IF IsDuplicate(q, e1) THEN 0 ELSE 1
           Q1 == IF n1 = 0 THEN PruneDedup(Q) ELSE Enqueue(q, Q, e1, sent + 1)
           n2 == IF /\ q \in FifoQueues
                    /\ PruneDedup(Q1).dedup_cache[DedupKey(q, e2)] # NoDedup
                 THEN 0 ELSE 1
<1>1. /\ q \in live /\ sent' = sent + n1 + n2 /\ sent + n1 + n2 <= MaxMessages
      /\ queues' = [queues EXCEPT ![q] =
              IF n2 = 0 THEN PruneDedup(Q1) ELSE Enqueue(q, Q1, e2, sent + n1 + 1)]
      /\ accepted' = accepted
              \cup (IF n1 = 0 THEN {} ELSE Accepted(q, e1, sent + 1, Q.next_sequence_number))
              \cup (IF n2 = 0 THEN {} ELSE Accepted(q, e2, sent + n1 + 1, Q1.next_sequence_number))
      /\ UNCHANGED <<now, live, minted, gone>>
  BY DEF SendMessageBatch
<1>2. n1 \in {0, 1} /\ n2 \in {0, 1}
  OBVIOUS
<1>3. (n1 = 0) <=> IsDuplicate(q, e1)
  OBVIOUS
<1>4. (n2 = 0) <=> (q \in FifoQueues /\ PruneDedup(Q1).dedup_cache[DedupKey(q, e2)] # NoDedup)
  OBVIOUS
<1>5. Q1 = BatchEntry(q, Q, e1, n1, sent + 1)
  BY DEF BatchEntry
<1> HIDE DEF n1, n2
<1>6. n1 = 1 => sent + 1 \in MsgIds
  BY <1>1, <1>2, ConstantsAssumption DEF TypeOK, MsgIds
<1>7. Q1 \in Queue
  <2>1. Q \in Queue /\ now \in Nat
    BY DEF TypeOK
  <2> QED BY <1>2, <1>5, <1>6, <2>1, BatchEntryFields
<1> HIDE DEF Q1
<1>8. queues' = [queues EXCEPT ![q] = BatchEntry(q, Q1, e2, n2, sent + n1 + 1)]
  BY <1>1 DEF BatchEntry
<1> QED BY <1>1, <1>2, <1>3, <1>4, <1>5, <1>7, <1>8, ZenonT(60)

\* A batch of two.
LEMMA SendMessageBatchKeeps ==
    ASSUME TypeOK, Accounts, NEW q \in Queues, NEW e1 \in Entries, NEW e2 \in Entries,
           SendMessageBatch(q, e1, e2)
    PROVE  Keeps
<1>1. PICK n1 \in {0, 1}, n2 \in {0, 1}, Q1 \in Queue :
              /\ q \in live
              /\ Q1 = BatchEntry(q, queues[q], e1, n1, sent + 1)
              /\ sent' = sent + n1 + n2 /\ sent + n1 + n2 <= MaxMessages
              /\ queues' = [queues EXCEPT ![q] = BatchEntry(q, Q1, e2, n2, sent + n1 + 1)]
              /\ accepted' = accepted
                    \cup (IF n1 = 0 THEN {}
                          ELSE Accepted(q, e1, sent + 1, queues[q].next_sequence_number))
                    \cup (IF n2 = 0 THEN {}
                          ELSE Accepted(q, e2, sent + n1 + 1, Q1.next_sequence_number))
              /\ UNCHANGED <<now, live, minted, gone>>
  BY BatchSteps
<1> DEFINE Q == queues[q]
           i1 == sent + 1
           i2 == sent + n1 + 1
           P == BatchEntry(q, Q1, e2, n2, i2)
           I1 == IF n1 = 0 THEN {} ELSE {i1}
           I2 == IF n2 = 0 THEN {} ELSE {i2}
<1>2. /\ Q \in Queue /\ Tidy(Q) /\ Holds(Q) \subseteq 1..sent /\ now \in Nat /\ sent \in Nat
  BY DEF TypeOK, Accounts, Spread, Everything
<1>3. /\ n1 = 1 => i1 \in MsgIds
      /\ n2 = 1 => i2 \in MsgIds
      /\ i1 \notin 1..sent /\ i2 \notin (1..sent) \cup I1
      /\ sent' \in Nat /\ (sent + 1)..sent' = I1 \cup I2
  BY <1>1, <1>2, ConstantsAssumption DEF MsgIds
<1>4. Q1 = BatchEntry(q, Q, e1, n1, i1) /\ queues' = [queues EXCEPT ![q] = P]
  BY <1>1
<1> HIDE DEF Q, i1, i2
<1>5. Q1 \in Queue /\ Tidy(Q1) /\ Holds(Q1) = Holds(Q) \cup I1
  BY <1>2, <1>3, <1>4, BatchEntryFields
<1> HIDE DEF I1
<1>6. P \in Queue /\ Tidy(P) /\ Holds(P) = Holds(Q1) \cup I2
  BY <1>2, <1>3, <1>5, BatchEntryFields
<1> HIDE DEF P, I2
<1>7. Holds(P) = (Holds(Q) \cup ((sent + 1)..sent')) \ {}
  BY <1>3, <1>5, <1>6
<1>8. n1 + n2 \in Nat /\ sent' = sent + (n1 + n2) /\ gone' = gone \cup {} /\ live' = live
  BY <1>1, <1>2
<1>9. Accounts' /\ queues' \in [Queues -> Queue] /\ (Accounted => Accounted')
  BY <1>1, <1>4, <1>6, <1>7, <1>8, OneQueueStep DEF Q
<1> DEFINE T == [queue : Queues, key : Keys, at : Nat, id : MsgIds, seq : Nat]
<1>10. Q.next_sequence_number \in Nat /\ Q1.next_sequence_number \in Nat
  BY <1>2, QueueFields
<1>11. accepted' \subseteq T
  <2>1. n1 = 1 => Accepted(q, e1, i1, Q.next_sequence_number) \subseteq T
    BY <1>2, <1>3, <1>10, AcceptedType
  <2>2. n2 = 1 => Accepted(q, e2, i2, Q1.next_sequence_number) \subseteq T
    BY <1>2, <1>3, <1>10, AcceptedType
  <2>3. accepted \subseteq T
    BY DEF TypeOK
  <2> HIDE DEF T
  <2> QED BY <1>1, <2>1, <2>2, <2>3 DEF i1, i2, Q
<1>12. sent' \in 0..MaxMessages
  BY <1>1, <1>2, ConstantsAssumption
<1>13. TypeOK'
  BY <1>1, <1>9, <1>11, <1>12 DEF TypeOK
<1> QED BY <1>9, <1>13 DEF Keeps

\* Going around a nonempty set of queues always names one of them.
LEMMA RoundRobinTarget ==
    ASSUME NEW D \in SUBSET Queues, D # {}, NEW i \in Nat \ {0}
    PROVE  Nth([q \in D |-> UrlOrder[q]], ((i - 1) % Cardinality(D)) + 1) \in D
<1> DEFINE key == [q \in D |-> UrlOrder[q]]
           n == Cardinality(D)
           m == ((i - 1) % n) + 1
<1>1. IsFiniteSet(D)
  BY ConstantsAssumption, FS_Subset
<1>2. n \in Nat /\ n # 0
  BY <1>1, FS_CardinalityType, FS_EmptySet
<1>3. IsKey(key, D)
  <2>1. \A q \in D : key[q] \in Int
    BY ConstantsAssumption
  <2>2. \A p, q \in D : key[p] = key[q] => p = q
    BY ConstantsAssumption
  <2> HIDE DEF key
  <2>3. DOMAIN key = D
    BY DEF key
  <2> QED BY <1>1, <2>1, <2>2, <2>3 DEF IsKey
<1>4. m \in 1..n
  BY <1>2
<1> HIDE DEF key, n, m
<1>6. Nth(key, m) \in D
  BY <1>3, <1>4, NthRank DEF n
<1> QED BY <1>6 DEF key, m, n

\* A queue without waiting messages.
Emptied(Q) == [Q EXCEPT !.messages = <<>>]

\* The step that shares the waiting messages of src out among existing queues,
\* each to one of them; M[q] is what q gets.
SharedOut(src, M) ==
    /\ src \in live /\ src \in RedriveSources
    /\ \A q \in Queues :
          queues'[q] = Arrive(IF q = src THEN Emptied(queues[q]) ELSE queues[q], M[q])
    /\ DOMAIN queues' = Queues /\ queues' = [q \in DOMAIN queues' |-> queues'[q]]
    /\ \A q \in Queues : Elems(M[q]) \subseteq {Redriven(m) : m \in Waiting(queues[src])}
    /\ \A q \in Queues \ live : Ids(M[q]) = {}
    /\ UNION {Ids(M[q]) : q \in Queues} = Ids(queues[src].messages)
    /\ Distinct(queues[src].messages) =>
          /\ \A q \in Queues : Distinct(M[q])
          /\ \A p, q \in Queues : p # q => Ids(M[p]) \cap Ids(M[q]) = {}
    /\ UNCHANGED <<now, live, sent, minted, gone, accepted>>

\* A move without a rate is such a step.
LEMMA RedriveSteps ==
    ASSUME TypeOK, NEW src \in Queues, NEW dest \in Queues \cup {NoQueue}, RedriveNow(src, dest)
    PROVE  \E M \in [Queues -> Seq(Message)] : SharedOut(src, M)
<1> DEFINE D == DlqSources(src)
           order == [q \in D |-> UrlOrder[q]]
           count == Cardinality(D)
           Target(i) == IF dest # NoQueue THEN dest ELSE Nth(order, ((i - 1) % count) + 1)
           W == queues[src].messages
           I(q) == {i \in DOMAIN W : Target(i) = q}
           Share(q) == Keep(W, I(q))
           Moved(q) == [i \in DOMAIN Share(q) |-> Redriven(Share(q)[i])]
           M == [q \in Queues |-> Moved(q)]
           F == [queues EXCEPT ![src] = [@ EXCEPT !.messages = <<>>]]
<1>1. /\ src \in live /\ src \in RedriveSources /\ D # {} /\ dest \in live \cup {NoQueue}
      /\ queues' = [q \in Queues |-> Arrive(F[q], Moved(q))]
      /\ UNCHANGED <<now, live, sent, minted, gone, accepted>>
  BY DEF RedriveNow
<1>2. queues \in [Queues -> Queue] /\ live \subseteq Queues /\ W \in Seq(Message)
  BY QueueFields DEF TypeOK
<1>3. D \subseteq live /\ D \in SUBSET Queues
  BY <1>2 DEF DlqSources
<1>4. ASSUME NEW i \in DOMAIN W PROVE Target(i) \in live
  <2>1. i \in Nat \ {0}
    BY <1>2
  <2> HIDE DEF W, D
  <2>2. Nth(order, ((i - 1) % count) + 1) \in D
    BY <1>1, <1>3, <2>1, RoundRobinTarget
  <2> QED BY <1>1, <1>3, <2>2
<1>5. ASSUME NEW q \in Queues PROVE F[q] = IF q = src THEN Emptied(queues[q]) ELSE queues[q]
  BY <1>2 DEF Emptied
<1>6. \A q \in Queues : queues'[q] = Arrive(F[q], Moved(q))
  BY <1>1
<1>7. DOMAIN queues' = Queues /\ queues' = [q \in DOMAIN queues' |-> queues'[q]]
  BY <1>1
<1> HIDE DEF W, Target, F
<1>8. ASSUME NEW q \in Queues PROVE I(q) \in SUBSET DOMAIN W
  OBVIOUS
<1>8a. \A q \in Queues : \A i \in DOMAIN W : i \in I(q) <=> Target(i) = q
  OBVIOUS
<1> HIDE DEF I
<1>9. ASSUME NEW q \in Queues
      PROVE  /\ Share(q) \in Seq(Message) /\ Elems(Share(q)) = {W[i] : i \in I(q)}
             /\ Distinct(W) => Distinct(Share(q))
  <2>1. I(q) \in SUBSET DOMAIN W
    BY <1>8
  <2> QED BY <1>2, <2>1, KeepMessages
<1>10. ASSUME NEW p \in Queues, NEW q \in Queues, p # q, Distinct(W)
       PROVE  Ids(Share(p)) \cap Ids(Share(q)) = {}
  <2>1. I(p) \in SUBSET DOMAIN W /\ I(q) \in SUBSET DOMAIN W
    BY <1>8
  <2>2. I(p) \cap I(q) = {}
    BY <1>8a, <1>10, <2>1
  <2> QED BY <1>2, <1>10, <2>1, <2>2, KeepSplit
<1> HIDE DEF Share
<1>11. ASSUME NEW q \in Queues
       PROVE  /\ Moved(q) \in Seq(Message) /\ Ids(Moved(q)) = Ids(Share(q))
              /\ Elems(Moved(q)) = {Redriven(m) : m \in Elems(Share(q))}
              /\ Distinct(Share(q)) => Distinct(Moved(q))
  <2>1. Moved(q) = [i \in DOMAIN Share(q) |-> Redriven(Share(q)[i])]
    OBVIOUS
  <2>2. Share(q) \in Seq(Message)
    BY <1>9
  <2> HIDE DEF Moved
  <2> QED BY <2>1, <2>2, RedrivenList
<1> HIDE DEF Moved
<1>12. M \in [Queues -> Seq(Message)] /\ \A q \in Queues : M[q] = Moved(q)
  BY <1>11
<1> HIDE DEF M
<1>13. ASSUME NEW q \in Queues
       PROVE  Ids(Share(q)) = {W[i].id : i \in I(q)}
  <2>1. Ids(Share(q)) = {m.id : m \in Elems(Share(q))}
    BY IdsElems
  <2>2. Elems(Share(q)) = {W[i] : i \in I(q)}
    BY <1>9
  <2> QED BY <2>1, <2>2
<1>14. \A q \in Queues : Elems(M[q]) \subseteq {Redriven(m) : m \in Waiting(queues[src])}
  <2>1. ASSUME NEW q \in Queues PROVE Elems(Share(q)) \subseteq Waiting(queues[src])
    <3>1. {W[i] : i \in DOMAIN W} = Waiting(queues[src])
      BY DEF Waiting, Elems, W
    <3> QED BY <1>8, <1>9, <3>1
  <2> QED BY <1>11, <1>12, <2>1
<1>15. \A q \in Queues \ live : Ids(M[q]) = {}
  <2>1. ASSUME NEW q \in Queues \ live PROVE I(q) = {}
    BY <1>4, <1>8, <1>8a
  <2> QED BY <1>11, <1>12, <1>13, <2>1
<1>16. UNION {Ids(M[q]) : q \in Queues} = Ids(W)
  <2>1. ASSUME NEW q \in Queues, NEW x \in Ids(M[q]) PROVE x \in Ids(W)
    <3>1. PICK i \in I(q) : x = W[i].id
      BY <1>11, <1>12, <1>13, <2>1
    <3>2. i \in DOMAIN W
      BY <1>8, <3>1
    <3> QED BY <3>1, <3>2 DEF Ids
  <2>2. ASSUME NEW x \in Ids(W) PROVE \E q \in Queues : x \in Ids(M[q])
    <3>1. PICK i \in DOMAIN W : x = W[i].id
      BY DEF Ids
    <3>2. Target(i) \in Queues /\ i \in I(Target(i))
      BY <1>2, <1>4, <1>8a
    <3>3. x \in Ids(Share(Target(i)))
      BY <1>13, <3>1, <3>2
    <3> QED BY <1>11, <1>12, <3>2, <3>3
  <2> QED BY <2>1, <2>2
<1>17. ASSUME Distinct(W)
       PROVE  /\ \A q \in Queues : Distinct(M[q])
              /\ \A p, q \in Queues : p # q => Ids(M[p]) \cap Ids(M[q]) = {}
  BY <1>9, <1>10, <1>11, <1>12, <1>17
<1>18. \A q \in Queues : queues'[q] = Arrive(IF q = src THEN Emptied(queues[q]) ELSE queues[q], M[q])
  <2>1. ASSUME NEW q \in Queues
        PROVE  queues'[q] = Arrive(IF q = src THEN Emptied(queues[q]) ELSE queues[q], M[q])
    <3>1. queues'[q] = Arrive(F[q], M[q])
      BY <1>6, <1>12
    <3>2. F[q] = IF q = src THEN Emptied(queues[q]) ELSE queues[q]
      BY <1>5
    <3> QED BY <3>1, <3>2
  <2> QED BY <2>1
<1>19. SharedOut(src, M)
  BY <1>1, <1>7, <1>14, <1>15, <1>16, <1>17, <1>18 DEF SharedOut, W
<1> QED BY <1>12, <1>19

\* What is left of a queue whose waiting messages were moved.
LEMMA EmptiedWaiting ==
    ASSUME NEW Q \in Queue
    PROVE  LET P == Emptied(Q) IN
           /\ P \in Queue /\ Waiting(P) = {} /\ Flying(P) = Flying(Q) /\ P.inflight = Q.inflight
           /\ Holds(P) = Ids(Q.inflight) /\ (Tidy(Q) => Tidy(P))
           /\ SameHandles(P, Q) /\ SameDedup(P, Q) /\ P.redrive = Q.redrive
<1> DEFINE e == <<>>
           P == [Q EXCEPT !.messages = e]
<1> SUFFICES
           /\ P \in Queue /\ Waiting(P) = {} /\ Flying(P) = Flying(Q) /\ P.inflight = Q.inflight
           /\ Holds(P) = Ids(Q.inflight) /\ (Tidy(Q) => Tidy(P))
           /\ SameHandles(P, Q) /\ SameDedup(P, Q) /\ P.redrive = Q.redrive
  BY DEF Emptied
<1>1. e \in Seq(Message) /\ DOMAIN e = {}
  OBVIOUS
<1> HIDE DEF e
<1>2. /\ P \in Queue /\ P.messages = e /\ P.inflight = Q.inflight
      /\ SameHandles(P, Q) /\ SameDedup(P, Q) /\ P.redrive = Q.redrive
  BY <1>1, MessagesFields
<1> HIDE DEF P
<1>3. Ids(e) = {} /\ Elems(e) = {} /\ Distinct(e)
  BY <1>1 DEF Ids, Elems, Distinct
<1>4. Holds(P) = Ids(Q.inflight) /\ Waiting(P) = {} /\ Flying(P) = Flying(Q)
  BY <1>2, <1>3 DEF Holds, Waiting, Flying
<1>5. Tidy(Q) => Tidy(P)
  BY <1>2, <1>3 DEF Tidy
<1> QED BY <1>2, <1>4, <1>5

\* A move without a rate.
LEMMA RedriveNowKeeps ==
    ASSUME TypeOK, Accounts, NEW src \in Queues, NEW dest \in Queues \cup {NoQueue},
           RedriveNow(src, dest)
    PROVE  Keeps
<1>0. PICK M \in [Queues -> Seq(Message)] : SharedOut(src, M)
  BY RedriveSteps
<1>1. /\ src \in live
      /\ \A q \in Queues :
            queues'[q] = Arrive(IF q = src THEN Emptied(queues[q]) ELSE queues[q], M[q])
      /\ DOMAIN queues' = Queues /\ queues' = [q \in DOMAIN queues' |-> queues'[q]]
      /\ \A q \in Queues \ live : Ids(M[q]) = {}
      /\ UNION {Ids(M[q]) : q \in Queues} = Ids(queues[src].messages)
      /\ Distinct(queues[src].messages) =>
            /\ \A q \in Queues : Distinct(M[q])
            /\ \A p, q \in Queues : p # q => Ids(M[p]) \cap Ids(M[q]) = {}
      /\ UNCHANGED <<now, live, sent, minted, gone, accepted>>
  BY <1>0 DEF SharedOut
<1> DEFINE W == Ids(queues[src].messages)
           base(q) == IF q = src THEN Emptied(queues[q]) ELSE queues[q]
<1>2. queues \in [Queues -> Queue] /\ Spread(queues)
  BY DEF TypeOK, Accounts
<1>3. ASSUME NEW q \in Queues
      PROVE  /\ base(q) \in Queue /\ Tidy(base(q)) /\ Holds(base(q)) \subseteq Holds(queues[q]) \ W
             /\ Holds(queues[q]) \subseteq Holds(base(q)) \cup W
  <2>1. queues[q] \in Queue /\ Tidy(queues[q]) /\ W \subseteq Holds(queues[src])
    BY <1>2 DEF Spread, Holds
  <2>2. CASE q = src
    <3>1. /\ Emptied(queues[q]) \in Queue /\ Tidy(Emptied(queues[q]))
          /\ Holds(Emptied(queues[q])) = Ids(queues[q].inflight)
      BY <2>1, EmptiedWaiting
    <3>2. Ids(queues[q].messages) \cap Ids(queues[q].inflight) = {}
      BY <2>1 DEF Tidy
    <3> QED BY <2>2, <3>1, <3>2 DEF Holds
  <2>3. CASE q # src
    <3>1. Holds(queues[q]) \cap Holds(queues[src]) = {}
      BY <1>2, <2>3 DEF Spread
    <3> QED BY <2>1, <2>3, <3>1
  <2> QED BY <2>2, <2>3
<1>4. \A p, q \in Queues : p # q => Holds(queues[p]) \cap Holds(queues[q]) = {}
  BY <1>2 DEF Spread
<1>5. \A q \in Queues : queues'[q] = Arrive(base(q), M[q])
  BY <1>1
<1>6. Distinct(queues[src].messages)
  BY <1>2 DEF Spread, Tidy
<1>7. \A q \in Queues : Distinct(M[q]) /\ Ids(M[q]) \subseteq W
  BY <1>1, <1>6
<1>7a. \A p, q \in Queues : p # q => Ids(M[p]) \cap Ids(M[q]) = {}
  BY <1>1, <1>6
<1>7b. \A i \in W : \E q \in Queues : i \in Ids(M[q])
  BY <1>1
<1>7c. W \subseteq Holds(queues[src])
  BY DEF Holds
<1> HIDE DEF W, base
<1>8. ASSUME NEW q \in Queues
      PROVE  /\ queues'[q] \in Queue /\ Tidy(queues'[q])
             /\ Holds(queues'[q]) = Holds(base(q)) \cup Ids(M[q])
  <2>1. M[q] \in Seq(Message) /\ Distinct(M[q]) /\ Holds(base(q)) \cap Ids(M[q]) = {}
    BY <1>3, <1>7
  <2>2. base(q) \in Queue /\ Tidy(base(q)) /\ queues'[q] = Arrive(base(q), M[q])
    BY <1>3, <1>5
  <2> QED BY <2>1, <2>2, ArriveFields, ZenonT(60)
<1>9. queues' \in [Queues -> Queue]
  BY <1>1, <1>8
<1>10. Spread(queues')
  <2>1. ASSUME NEW p \in Queues, NEW q \in Queues, p # q
        PROVE  Holds(queues'[p]) \cap Holds(queues'[q]) = {}
    <3>1. Holds(base(p)) \cap Holds(base(q)) = {}
      BY <1>3, <1>4, <2>1
    <3>2. Holds(base(p)) \cap Ids(M[q]) = {} /\ Holds(base(q)) \cap Ids(M[p]) = {}
      BY <1>3, <1>7
    <3> QED BY <1>7a, <1>8, <2>1, <3>1, <3>2
  <2> QED BY <1>8, <2>1 DEF Spread
<1>11. Everything(queues') = Everything(queues)
  <2>1. ASSUME NEW q \in Queues, NEW i \in Holds(queues'[q]) PROVE i \in Everything(queues)
    BY <1>3, <1>7, <1>7c, <1>8 DEF Everything
  <2>2. ASSUME NEW q \in Queues, NEW i \in Holds(queues[q]) PROVE i \in Everything(queues')
    <3>1. CASE i \in W
      BY <1>7b, <1>8, <3>1 DEF Everything
    <3>2. CASE i \notin W
      BY <1>3, <1>8, <3>2 DEF Everything
    <3> QED BY <3>1, <3>2
  <2> QED BY <2>1, <2>2 DEF Everything
<1>12. \A q \in Queues \ live' : Holds(queues'[q]) = {}
  <2>1. \A q \in Queues \ live : Holds(queues[q]) = {} /\ Ids(M[q]) = {}
    BY <1>1 DEF Accounts
  <2>2. ASSUME NEW q \in Queues \ live PROVE Holds(queues'[q]) = {}
    BY <1>3, <1>8, <2>1
  <2> QED BY <1>1, <2>2
<1>13. Accounts'
  BY <1>1, <1>10, <1>11, <1>12, NextAccounts DEF Accounts
<1>14. ASSUME Accounted PROVE Accounted'
  BY <1>1, <1>11, <1>14, NextAccounted DEF Accounted
<1>15. TypeOK'
  BY <1>1, <1>9 DEF TypeOK
<1> QED BY <1>13, <1>14, <1>15 DEF Keeps

\* Every step keeps the types and the places; it loses nothing, a failed receive
\* of a queue with a redrive policy excepted.
LEMMA NextKeeps ==
    ASSUME TypeOK, Accounts, Next
    PROVE  /\ TypeOK' /\ Accounts'
           /\ ((\A q \in EncryptedQueues : queues[q].redrive = NoQueue) /\ Accounted) => Accounted'
<1> DEFINE Decrypts == \A q \in EncryptedQueues : queues[q].redrive = NoQueue
           Goal == TypeOK' /\ Accounts' /\ ((Decrypts /\ Accounted) => Accounted')
<1>0. Keeps => Goal
  BY DEF Keeps
<1> SUFFICES Goal
  OBVIOUS
<1>1. CASE Tick \/ TickExpiration
  BY <1>0, <1>1, TickKeeps, TickExpirationKeeps
<1>2. ASSUME NEW q \in Queues, Send(q) PROVE Keeps
  <2>1. PICK e \in Entries :
          \/ SendMessage(q, e) \/ SendDuplicate(q, e) \/ SendEncryptFails(q, e)
          \/ \E e2 \in Entries : SendMessageBatch(q, e, e2)
    BY <1>2 DEF Send
  <2> QED BY <2>1, SendMessageKeeps, SendNothingKeeps, SendMessageBatchKeeps
<1>3. ASSUME NEW q \in Queues, UseHandle(q) PROVE Keeps
  <2>1. \/ \E ids : DeleteMessageBatch(q, ids)
        \/ \E ids : \E t \in NewTimeouts : ChangeMessageVisibilityBatch(q, ids, t)
    BY <1>3 DEF UseHandle, DeleteMessage, ChangeMessageVisibility
  <2>2. NewTimeouts \subseteq Nat
    BY ConstantsAssumption
  <2> QED BY <2>1, <2>2, DeleteMessageBatchKeeps, ChangeVisibilityKeeps
<1>4. ASSUME NEW q \in Queues, Manage(q) PROVE Keeps
  BY <1>4, DeleteQueueKeeps, PurgeQueueKeeps, CreateQueueKeeps, SetRedrivePolicyKeeps DEF Manage
<1>5. ASSUME NEW q \in Queues, Receive(q) PROVE Goal
  <2>1. PICK max \in BatchSizes, a \in Attempts \cup {NoAttempt} :
          \/ \E vt \in Timeouts : ReceiveMessage(q, max, vt, a)
          \/ ReceiveDecryptFails(q, max, a)
          \/ ReplayReceive(q, a)
    BY <1>5 DEF Receive
  <2>2. max \in Nat /\ Timeouts \subseteq Nat
    BY ConstantsAssumption
  <2>3. CASE \E vt \in Timeouts : ReceiveMessage(q, max, vt, a)
    BY <1>0, <2>2, <2>3, ReceiveMessageKeeps
  <2>4. CASE ReceiveDecryptFails(q, max, a)
    <3>1. q \in EncryptedQueues
      BY <2>4 DEF ReceiveDecryptFails
    <3> QED BY <2>2, <2>4, <3>1, ReceiveDecryptFailsKeeps
  <2> QED BY <1>0, <2>1, <2>3, <2>4, ReplayReceiveKeeps
<1>6. ASSUME NEW q \in Queues,
             (\E g \in Groups \cup {NoGroup} : Deliver(q, g)) \/ DeliverEncryptFails(q)
      PROVE  Keeps
  BY <1>6, DeliverKeeps, DeliverEncryptFailsKeeps
<1>7. ASSUME NEW q \in Queues, ForceDlq(q) PROVE Keeps
  BY <1>7, ForceDlqKeeps
<1>8. ASSUME NEW q \in Queues, NEW dest \in Queues \cup {NoQueue}, RedriveNow(q, dest) PROVE Keeps
  BY <1>8, RedriveNowKeeps
<1> HIDE DEF Goal
<1> QED BY <1>0, <1>1, <1>2, <1>3, <1>4, <1>5, <1>6, <1>7, <1>8 DEF Next

\* The first state.
LEMMA InitKeeps == Init => TypeOK /\ Accounts /\ Accounted
<1> SUFFICES ASSUME Init PROVE TypeOK /\ Accounts /\ Accounted
  OBVIOUS
<1>1. \A q \in Queues : queues[q] = NewQueue(InitialRedrive[q]) /\ InitialRedrive[q] \in Queues \cup {NoQueue}
  BY ConstantsAssumption DEF Init
<1>2. \A q \in Queues : queues[q] \in Queue /\ Holds(queues[q]) = {} /\ Tidy(queues[q])
  BY <1>1, NewQueueFields
<1>3. TypeOK
  <2>1. queues \in [Queues -> Queue]
    BY <1>2 DEF Init
  <2>2. 0 \in 0..MaxMessages
    BY ConstantsAssumption
  <2> QED BY <2>1, <2>2 DEF TypeOK, Init
<1>4. Everything(queues) = {}
  BY <1>2 DEF Everything
<1>5. Accounts
  BY <1>2, <1>4 DEF Accounts, Spread, Init
<1>6. Accounted
  BY DEF Accounted, Init
<1> QED BY <1>3, <1>5, <1>6

\* A step that changes nothing.
LEMMA StutterKeeps == TypeOK /\ Accounts /\ UNCHANGED vars => Keeps
<1> SUFFICES ASSUME TypeOK, Accounts, UNCHANGED vars PROVE Keeps
  OBVIOUS
<1>1. UNCHANGED <<now, live, queues, sent, minted, gone, accepted>>
  BY DEF vars
<1>2. TypeOK'
  BY <1>1 DEF TypeOK
<1>3. Accounts'
  BY <1>1, NextAccounts DEF Accounts
<1>4. ASSUME Accounted PROVE Accounted'
  BY <1>1, <1>4, NextAccounted DEF Accounted
<1> QED BY <1>2, <1>3, <1>4 DEF Keeps

\* How many copies of a message the queues hold.
LEMMA CopiesOf ==
    ASSUME Accounts, TypeOK, NEW i \in MsgIds
    PROVE  /\ Copies(i) # {} <=> i \in Everything(queues)
           /\ Cardinality(Copies(i)) <= (IF i \in gone THEN 0 ELSE 1)
<1> DEFINE At(s) == {k \in DOMAIN s : s[k].id = i}
           Mess(q) == {q} \X {"messages"} \X At(queues[q].messages)
           Fly(q) == {q} \X {"inflight"} \X At(queues[q].inflight)
<1>1. Copies(i) = UNION {Mess(q) \cup Fly(q) : q \in Queues}
  BY DEF Copies
<1>2. ASSUME NEW s PROVE (i \in Ids(s)) <=> (At(s) # {})
  BY DEF Ids
<1>3. ASSUME NEW q \in Queues, NEW c \in Mess(q)
      PROVE  /\ c = <<q, "messages", c[3]>> /\ c[3] \in At(queues[q].messages)
             /\ i \in Ids(queues[q].messages)
  BY DEF Ids
<1>4. ASSUME NEW q \in Queues, NEW c \in Fly(q)
      PROVE  /\ c = <<q, "inflight", c[3]>> /\ c[3] \in At(queues[q].inflight)
             /\ i \in Ids(queues[q].inflight)
  BY DEF Ids
<1>5. ASSUME NEW q \in Queues, i \in Holds(queues[q]) PROVE Copies(i) # {}
  <2>1. CASE i \in Ids(queues[q].messages)
    <3>1. PICK k \in At(queues[q].messages) : TRUE
      BY <1>2, <2>1
    <3>2. <<q, "messages", k>> \in Mess(q)
      BY <3>1
    <3> HIDE DEF Mess, Fly
    <3> QED BY <1>1, <3>2
  <2>2. CASE i \in Ids(queues[q].inflight)
    <3>1. PICK k \in At(queues[q].inflight) : TRUE
      BY <1>2, <2>2
    <3>2. <<q, "inflight", k>> \in Fly(q)
      BY <3>1
    <3> HIDE DEF Mess, Fly
    <3> QED BY <1>1, <3>2
  <2> QED BY <1>5, <2>1, <2>2 DEF Holds
<1>6. ASSUME NEW c \in Copies(i), NEW d \in Copies(i) PROVE c = d /\ i \in Everything(queues)
  <2>1. PICK p \in Queues : c \in Mess(p) \cup Fly(p)
    <3> HIDE DEF Mess, Fly
    <3> QED BY <1>1
  <2>2. PICK q \in Queues : d \in Mess(q) \cup Fly(q)
    <3> HIDE DEF Mess, Fly
    <3> QED BY <1>1
  <2> HIDE DEF Mess, Fly
  <2>3. i \in Holds(queues[p]) /\ i \in Holds(queues[q])
    BY <1>3, <1>4, <2>1, <2>2 DEF Holds
  <2>4. p = q /\ Tidy(queues[q])
    BY <2>3 DEF Accounts, Spread
  <2>5. i \in Everything(queues)
    BY <2>3 DEF Everything
  <2>6. \/ c \in Mess(q) /\ d \in Mess(q)
        \/ c \in Fly(q) /\ d \in Fly(q)
    BY <1>3, <1>4, <2>1, <2>2, <2>4 DEF Tidy
  <2>7. c = d
    BY <1>3, <1>4, <2>4, <2>6 DEF Tidy, Distinct
  <2> QED BY <2>5, <2>7
<1>7. Copies(i) # {} <=> i \in Everything(queues)
  <2>1. ASSUME i \in Everything(queues) PROVE Copies(i) # {}
    BY <1>5, <2>1 DEF Everything
  <2> QED BY <1>6, <2>1
<1>8. Cardinality(Copies(i)) <= (IF i \in gone THEN 0 ELSE 1)
  <2>1. CASE Copies(i) = {}
    BY <2>1, FS_EmptySet
  <2>2. CASE Copies(i) # {}
    <3>1. PICK c : c \in Copies(i)
      BY <2>2
    <3>2. Copies(i) = {c}
      BY <1>6, <3>1
    <3>3. Cardinality(Copies(i)) = 1
      BY <3>2, FS_Singleton
    <3>4. i \notin gone
      BY <1>7, <2>2 DEF Accounts
    <3> QED BY <3>3, <3>4
  <2> QED BY <2>1, <2>2
<1> QED BY <1>7, <1>8

\* What NextKeeps says of a step of the specification.
LEMMA AccountsStep == TypeOK /\ Accounts /\ [Next]_vars => TypeOK' /\ Accounts'
  BY NextKeeps, StutterKeeps DEF Keeps

\* The values of the variables are those of the code's fields.
THEOREM QueueTypeCorrect == Spec => []TypeOK
<1>1. Init => TypeOK /\ Accounts
  BY InitKeeps
<1> QED BY <1>1, AccountsStep, PTL DEF Spec

\* The places of messages say how often each is there.
LEMMA AccountsNeverTwice == TypeOK /\ Accounts => NeverTwice
  BY CopiesOf DEF NeverTwice

\* A message is never in two places, and a removed one does not come back:
\* whatever is sent, received, moved, expired and deleted, on any queues.
THEOREM QueueNeverTwice == Spec => []NeverTwice
<1>1. Init => TypeOK /\ Accounts
  BY InitKeeps
<1> QED BY <1>1, AccountsNeverTwice, AccountsStep, PTL DEF Spec

\* Redrive policies change by the calls that manage queues only; a queue that is
\* not managed exists for good.
Settings ==
    \A q \in Queues \ ManagedQueues : q \in live /\ queues[q].redrive = InitialRedrive[q]

\* What every step but a send and the management of a queue leaves alone.
Framed ==
    /\ live' = live /\ accepted' = accepted
    /\ \A p \in Queues : queues'[p].redrive = queues[p].redrive /\ SameDedup(queues'[p], queues[p])

\* A step that changes other fields of one queue.
LEMMA OneQueueFrame ==
    ASSUME TypeOK, NEW q \in Queues, NEW P, queues' = [queues EXCEPT ![q] = P],
           P.redrive = queues[q].redrive, SameDedup(P, queues[q]), UNCHANGED <<live, accepted>>
    PROVE  Framed
<1>1. \A p \in Queues : queues'[p] = IF p = q THEN P ELSE queues[p]
  BY DEF TypeOK
<1> QED BY <1>1 DEF Framed, SameDedup

\* A step that moves messages.
LEMMA MoveFrame ==
    ASSUME TypeOK, NEW q \in Queues, NEW t \in Queues, NEW P \in Queue,
           P.redrive = queues[q].redrive, SameDedup(P, queues[q]), NEW s \in Seq(Message),
           NEW F, F = [queues EXCEPT ![q] = P], queues' = [F EXCEPT ![t] = Arrive(F[t], s)],
           UNCHANGED <<live, accepted>>
    PROVE  Framed
<1>1. queues \in [Queues -> Queue]
  BY DEF TypeOK
<1>2. \A p \in Queues : F[p] \in Queue /\ F[p].redrive = queues[p].redrive /\ SameDedup(F[p], queues[p])
  BY <1>1 DEF SameDedup
<1> DEFINE R == Arrive(F[t], s)
<1>3. R.redrive = F[t].redrive /\ SameDedup(R, F[t])
  BY <1>2, ArriveFields
<1>4. \A p \in Queues : queues'[p] = IF p = t THEN R ELSE F[p]
  BY <1>1
<1> HIDE DEF R
<1>5. ASSUME NEW p \in Queues
      PROVE  queues'[p].redrive = queues[p].redrive /\ SameDedup(queues'[p], queues[p])
  <2>1. R.redrive = queues[t].redrive /\ SameDedup(R, queues[t])
    BY <1>2, <1>3 DEF SameDedup
  <2>2. CASE p = t
    <3>1. queues'[p] = R
      BY <1>4, <2>2
    <3> QED BY <2>1, <2>2, <3>1
  <2>3. CASE p # t
    BY <1>2, <1>4, <2>3, ZenonT(60)
  <2> QED BY <2>2, <2>3
<1> QED BY <1>5 DEF Framed

\* Every such step.
LEMMA FrameStep ==
    ASSUME TypeOK, [Next]_vars, \A q \in Queues : ~Send(q) /\ ~Manage(q)
    PROVE  Framed
<1>t. /\ queues \in [Queues -> Queue] /\ now \in Nat /\ sent \in Nat /\ minted \in [MsgIds -> Nat]
      /\ live \subseteq Queues
  BY DEF TypeOK
<1>0. CASE UNCHANGED vars \/ Tick
  <2>1. queues' = queues /\ UNCHANGED <<live, accepted>>
    BY <1>0 DEF vars, Tick
  <2> QED BY <2>1 DEF Framed, SameDedup
<1>1. CASE TickExpiration
  <2>1. \A q \in Queues : /\ DropExpired(queues[q]).redrive = queues[q].redrive
                           /\ SameDedup(DropExpired(queues[q]), queues[q])
    BY <1>t, DropExpiredFields
  <2>2. /\ \A q \in Queues : queues'[q] = IF q \in live THEN DropExpired(queues[q]) ELSE queues[q]
        /\ UNCHANGED <<live, accepted>>
    BY <1>1 DEF TickExpiration
  <2> QED BY <2>1, <2>2 DEF Framed, SameDedup
<1>3. ASSUME NEW q \in Queues, UseHandle(q) PROVE Framed
  <2>1. \/ \E ids : DeleteMessageBatch(q, ids)
        \/ \E ids : \E t \in NewTimeouts : ChangeMessageVisibilityBatch(q, ids, t)
    BY <1>3 DEF UseHandle, DeleteMessage, ChangeMessageVisibility
  <2>2. ASSUME NEW ids, DeleteMessageBatch(q, ids) PROVE Framed
    <3>1. queues' = [queues EXCEPT ![q] = Deleted(queues[q], ids)] /\ UNCHANGED <<live, accepted>>
      BY <2>2 DEF DeleteMessageBatch
    <3>2. /\ Deleted(queues[q], ids).redrive = queues[q].redrive
          /\ SameDedup(Deleted(queues[q], ids), queues[q])
      BY <1>t, DeletedFields
    <3> QED BY <3>1, <3>2, OneQueueFrame
  <2>3. ASSUME NEW ids, NEW t \in NewTimeouts, ChangeMessageVisibilityBatch(q, ids, t) PROVE Framed
    <3>1. queues' = [queues EXCEPT ![q] = WithVisibility(queues[q], ids, t)] /\ UNCHANGED <<live, accepted>>
      BY <2>3 DEF ChangeMessageVisibilityBatch
    <3>2. t \in Nat
      BY ConstantsAssumption
    <3>3. /\ WithVisibility(queues[q], ids, t).redrive = queues[q].redrive
          /\ SameDedup(WithVisibility(queues[q], ids, t), queues[q])
      BY <1>t, <3>2, WithVisibilityFields
    <3> QED BY <3>1, <3>3, OneQueueFrame
  <2> QED BY <2>1, <2>2, <2>3
<1>5. ASSUME NEW q \in Queues, Receive(q) PROVE Framed
  <2>1. PICK max \in BatchSizes, a \in Attempts \cup {NoAttempt} :
          \/ \E vt \in Timeouts : ReceiveMessage(q, max, vt, a)
          \/ ReceiveDecryptFails(q, max, a)
          \/ ReplayReceive(q, a)
    BY <1>5 DEF Receive
  <2>2. max \in Nat /\ Timeouts \subseteq Nat
    BY ConstantsAssumption
  <2> DEFINE R == Refreshed(q)
  <2>3. R \in Queue /\ R.redrive = queues[q].redrive /\ SameDedup(R, queues[q])
    BY <1>t, RefreshedFields
  <2>4. ASSUME NEW vt \in Timeouts, ReceiveMessage(q, max, vt, a) PROVE Framed
    <3> DEFINE P == HandedOut(q, R, max, vt, a)
               s == Restart(Dead(q, R, max))
               t == IF R.redrive \in live THEN R.redrive ELSE q
               F == [queues EXCEPT ![q] = P]
    <3>1. queues' = [F EXCEPT ![t] = Arrive(F[t], s)] /\ UNCHANGED <<live, accepted>>
      BY <2>4 DEF ReceiveMessage
    <3>2. t \in Queues
      BY <1>t
    <3> HIDE DEF R, t
    <3>3. P \in Queue /\ P.redrive = queues[q].redrive /\ SameDedup(P, queues[q])
      <4>1. P \in Queue /\ P.redrive = R.redrive /\ SameDedup(P, R)
        <5>1. R \in Queue /\ max \in Nat /\ vt \in Nat /\ now \in Nat /\ minted \in [MsgIds -> Nat]
          BY <1>t, <2>2, <2>3
        <5> HIDE DEF F, s
        <5> QED BY <5>1, HandedOutFrame
      <4> HIDE DEF P
      <4> QED BY <2>3, <4>1 DEF SameDedup
    <3>4. s \in Seq(Message)
      BY <2>2, <2>3, Selection, RestartList
    <3> HIDE DEF P, s, F
    <3> QED BY <2>3, <3>1, <3>2, <3>3, <3>4, MoveFrame DEF F
  <2>5. CASE ReceiveDecryptFails(q, max, a)
    <3> DEFINE s == UnleaseAll(Received(q, R, max)) \o Remaining(q, R, max)
    <3>1. queues' = [queues EXCEPT ![q] = [R EXCEPT !.messages = s]] /\ UNCHANGED <<live, accepted>>
      BY <2>5 DEF ReceiveDecryptFails
    <3> HIDE DEF R, s
    <3>2. /\ [R EXCEPT !.messages = s].redrive = queues[q].redrive
          /\ SameDedup([R EXCEPT !.messages = s], queues[q])
      BY <2>3 DEF Queue, SameDedup
    <3> QED BY <2>3, <3>1, <3>2, OneQueueFrame
  <2>6. CASE ReplayReceive(q, a)
    <3>1. queues' = [queues EXCEPT ![q] = PruneAttempts(queues[q])] /\ UNCHANGED <<live, accepted>>
      BY <2>6 DEF ReplayReceive
    <3> QED BY <1>t, <3>1, PruneAttemptsFields, OneQueueFrame
  <2> QED BY <2>1, <2>4, <2>5, <2>6
<1>6. ASSUME NEW q \in Queues, NEW g \in Groups \cup {NoGroup}, Deliver(q, g) PROVE Framed
  <2> DEFINE e == [group |-> g, delay |-> 0]
             P == PushBack(q, queues[q], e, sent + 1)
  <2>1. queues' = [queues EXCEPT ![q] = P] /\ UNCHANGED <<live, accepted>> /\ sent + 1 \in MsgIds
    BY <1>t, <1>6, ConstantsAssumption DEF Deliver, MsgIds
  <2>2. e.group \in Groups \cup {NoGroup} /\ e.delay \in Nat
    OBVIOUS
  <2> HIDE DEF e
  <2>3. P.redrive = queues[q].redrive /\ SameDedup(P, queues[q])
    BY <1>t, <2>1, <2>2, PushBackFields
  <2> QED BY <2>1, <2>3, OneQueueFrame
<1>7. ASSUME NEW q \in Queues, DeliverEncryptFails(q) PROVE Framed
  <2>1. queues' = [queues EXCEPT ![q] = UseNumber(queues[q])] /\ UNCHANGED <<live, accepted>>
    BY <1>7 DEF DeliverEncryptFails
  <2> QED BY <1>t, <2>1, UseNumberFields, OneQueueFrame
<1>8. ASSUME NEW q \in Queues, ForceDlq(q) PROVE Framed
  <2> DEFINE P == WithoutLimited(queues[q])
             s == Limited(queues[q])
             t == queues[q].redrive
             F == [queues EXCEPT ![q] = P]
  <2>1. queues' = [F EXCEPT ![t] = Arrive(F[t], s)] /\ UNCHANGED <<live, accepted>> /\ t \in Queues
    BY <1>t, <1>8 DEF ForceDlq
  <2>2. P \in Queue /\ P.redrive = queues[q].redrive /\ SameDedup(P, queues[q]) /\ s \in Seq(Message)
    BY <1>t, LimitedFields
  <2> HIDE DEF P, s, F, t
  <2> QED BY <2>1, <2>2, MoveFrame DEF F
<1>9. ASSUME NEW q \in Queues, NEW dest \in Queues \cup {NoQueue}, RedriveNow(q, dest) PROVE Framed
  <2>1. PICK M \in [Queues -> Seq(Message)] : SharedOut(q, M)
    BY <1>9, RedriveSteps
  <2>2. /\ \A p \in Queues :
            queues'[p] = Arrive(IF p = q THEN Emptied(queues[p]) ELSE queues[p], M[p])
        /\ UNCHANGED <<live, accepted>>
    BY <2>1 DEF SharedOut
  <2>3. ASSUME NEW p \in Queues
        PROVE  queues'[p].redrive = queues[p].redrive /\ SameDedup(queues'[p], queues[p])
    <3> DEFINE B == IF p = q THEN Emptied(queues[p]) ELSE queues[p]
    <3>1. B \in Queue /\ B.redrive = queues[p].redrive /\ SameDedup(B, queues[p])
      <4>1. /\ Emptied(queues[p]) \in Queue /\ Emptied(queues[p]).redrive = queues[p].redrive
            /\ SameDedup(Emptied(queues[p]), queues[p])
        BY <1>t, EmptiedWaiting
      <4> QED BY <1>t, <4>1 DEF SameDedup
    <3>2. queues'[p] = Arrive(B, M[p])
      BY <2>2
    <3> HIDE DEF B
    <3>3. Arrive(B, M[p]).redrive = B.redrive /\ SameDedup(Arrive(B, M[p]), B)
      BY <3>1, ArriveFields
    <3> QED BY <3>1, <3>2, <3>3 DEF SameDedup
  <2> QED BY <2>2, <2>3 DEF Framed, SameDedup
<1> QED BY <1>0, <1>1, <1>3, <1>5, <1>6, <1>7, <1>8, <1>9 DEF Next

-----------------------------------------------------------------------------
(* Deduplication. *)

\* The sends on record.
Accepts == [queue : Queues, key : Keys, at : Nat, id : MsgIds, seq : Nat]

\* At time n the cache c of queue q remembers every send in A to q that is
\* within its window.
Remembers(A, q, c, n) ==
    \A s \in A : s.queue = q =>
        /\ s.at <= n
        /\ s.at + DedupWindow > n => c[s.key].expiry >= s.at + DedupWindow

\* Sends under one key are a window apart.
Apart(A) ==
    \A s, t \in A :
        (s # t /\ s.queue = t.queue /\ s.key = t.key)
            => (s.at - t.at >= DedupWindow \/ t.at - s.at >= DedupWindow)

\* The inductive invariant: sends on record are to queues that exist, and their
\* queues remember them.
DedupInv ==
    /\ \A s \in accepted : s.queue \in live
    /\ \A q \in Queues : Remembers(accepted, q, queues[q].dedup_cache, now)
    /\ Apart(accepted)

\* An entry that has not expired is not taken for NoDedup.
LEMMA NotDuplicate ==
    ASSUME NEW Q \in Queue, now \in Nat, NEW k \in Keys, PruneDedup(Q).dedup_cache[k] = NoDedup
    PROVE  Q.dedup_cache[k].expiry <= now
<1>1. Q.dedup_cache[k] \in DedupEntry
  BY QueueFields
<1>2. Q.dedup_cache[k].expiry \in Nat
  BY <1>1 DEF DedupEntry
<1>3. Q.dedup_cache[k].expiry > now => Q.dedup_cache[k] = NoDedup
  BY PruneDedupFields
<1>4. NoDedup.expiry = 0
  BY DEF NoDedup
<1> QED BY <1>2, <1>3, <1>4

\* One entry of a send: its key is remembered, and no other key is forgotten.
LEMMA EntryRemembered ==
    ASSUME NEW q \in Queues, NEW Q \in Queue, NEW e \in Entries, now \in Nat,
           NEW n \in {0, 1}, NEW id, n = 1 => id \in MsgIds, NEW seq \in Nat,
           NEW A \in SUBSET Accepts,
           Remembers(A, q, Q.dedup_cache, now), Apart(A),
           (n = 0) <=> (q \in FifoQueues /\ PruneDedup(Q).dedup_cache[DedupKey(q, e)] # NoDedup)
    PROVE  LET P == BatchEntry(q, Q, e, n, id)
               B == A \cup (IF n = 0 THEN {} ELSE Accepted(q, e, id, seq))
           IN  Remembers(B, q, P.dedup_cache, now) /\ Apart(B) /\ B \in SUBSET Accepts
<1> DEFINE P == BatchEntry(q, Q, e, n, id)
           new == IF n = 0 THEN {} ELSE Accepted(q, e, id, seq)
           B == A \cup new
           k == DedupKey(q, e)
           c == Q.dedup_cache
           d == P.dedup_cache
<1> SUFFICES Remembers(B, q, d, now) /\ Apart(B) /\ B \in SUBSET Accepts
  OBVIOUS
<1>1. k \in Keys
  BY DedupKeyType
<1>2. DedupWindow \in Nat \ {0}
  BY ConstantsAssumption
<1>3. \A l \in Keys : c[l].expiry \in Nat
  BY QueueFields DEF DedupEntry
<1>4. \A s \in A : s.at \in Nat /\ s.key \in Keys
  BY DEF Accepts
<1>5. CASE n = 0
  <2>1. P = PruneDedup(Q) /\ B = A
    BY <1>5 DEF BatchEntry
  <2>2. \A l \in Keys : c[l].expiry > now => d[l] = c[l]
    BY <2>1, PruneDedupFields
  <2> HIDE DEF d, c, B
  <2>3. ASSUME NEW s \in A, s.queue = q
        PROVE  /\ s.at <= now
               /\ s.at + DedupWindow > now => d[s.key].expiry >= s.at + DedupWindow
    <3>1. /\ s.at <= now
          /\ s.at + DedupWindow > now => c[s.key].expiry >= s.at + DedupWindow
      BY <2>3 DEF Remembers, c
    <3> QED BY <1>2, <1>3, <1>4, <2>2, <3>1
  <2> QED BY <2>1, <2>3 DEF Remembers
<1>6. CASE n = 1 /\ q \notin FifoQueues
  <2>1. P = Enqueue(q, Q, e, id)
    BY <1>6 DEF BatchEntry
  <2>2. d = c
    BY <1>6, <2>1, EnqueueFields DEF SameDedup
  <2>3. B = A
    BY <1>6 DEF Accepted
  <2> QED BY <2>2, <2>3
<1>7. CASE n = 1 /\ q \in FifoQueues
  <2> DEFINE x == [queue |-> q, key |-> k, at |-> now, id |-> id, seq |-> seq]
  <2>1. P = Enqueue(q, Q, e, id)
    BY <1>7 DEF BatchEntry
  <2>2. \A l \in Keys : /\ l = k => d[l].expiry = now + DedupWindow
                        /\ (l # k /\ c[l].expiry > now) => d[l] = c[l]
    BY <1>7, <2>1, EnqueueFields
  <2>3. B = A \cup {x}
    BY <1>7 DEF Accepted
  <2>4. x \in Accepts /\ x.queue = q /\ x.key = k /\ x.at = now
    BY <1>1, <1>7 DEF Accepts
  <2>5. c[k].expiry <= now
    BY <1>1, <1>7, NotDuplicate
  <2> HIDE DEF d, c, B, x, P, k
  <2>6. ASSUME NEW s \in A, s.queue = q
        PROVE  /\ s.at <= now
               /\ s.at + DedupWindow > now => c[s.key].expiry >= s.at + DedupWindow
    BY <2>6 DEF Remembers, c
  <2>7. ASSUME NEW s \in A, s.queue = q, s.key = k PROVE now - s.at >= DedupWindow
    BY <1>1, <1>2, <1>3, <1>4, <2>5, <2>6, <2>7
  <2>8. ASSUME NEW s \in B, s.queue = q
        PROVE  /\ s.at <= now
               /\ s.at + DedupWindow > now => d[s.key].expiry >= s.at + DedupWindow
    <3>1. CASE s = x
      BY <1>1, <1>2, <2>2, <2>4, <3>1
    <3>2. CASE s \in A
      BY <1>1, <1>2, <1>3, <1>4, <2>2, <2>6, <2>7, <2>8, <3>2
    <3> QED BY <2>3, <3>1, <3>2
  <2>9. Apart(B)
    <3>1. ASSUME NEW s \in B, NEW t \in B, s # t, s.queue = t.queue, s.key = t.key
          PROVE  s.at - t.at >= DedupWindow \/ t.at - s.at >= DedupWindow
      <4>1. CASE s \in A /\ t \in A
        BY <3>1, <4>1 DEF Apart
      <4>2. CASE s = x /\ t \in A
        BY <2>4, <2>7, <3>1, <4>2
      <4>3. CASE t = x /\ s \in A
        BY <2>4, <2>7, <3>1, <4>3
      <4> QED BY <2>3, <3>1, <4>1, <4>2, <4>3
    <3> QED BY <3>1 DEF Apart
  <2> QED BY <2>3, <2>4, <2>8, <2>9 DEF Remembers
<1> QED BY <1>5, <1>6, <1>7

\* A step that forgets no key that has not expired.
LEMMA DedupFrame ==
    ASSUME TypeOK, DedupInv, accepted' \subseteq accepted, now' \in Nat, now' >= now,
           \A s \in accepted' : s.queue \in live',
           \A q \in live' : q \in live => \A k \in Keys :
               queues[q].dedup_cache[k].expiry > now =>
                   queues'[q].dedup_cache[k] = queues[q].dedup_cache[k]
    PROVE  DedupInv'
<1>1. DedupWindow \in Nat \ {0} /\ now \in Nat
  BY ConstantsAssumption DEF TypeOK
<1>2. \A s \in accepted : s.queue \in Queues /\ s.at \in Nat /\ s.key \in Keys
  BY DEF TypeOK
<1>3. \A q \in Queues : \A k \in Keys : queues[q].dedup_cache[k].expiry \in Nat
  BY QueueFields DEF TypeOK, DedupEntry
<1>4. ASSUME NEW q \in Queues PROVE Remembers(accepted', q, queues'[q].dedup_cache, now')
  <2> SUFFICES ASSUME NEW s \in accepted', s.queue = q
               PROVE  /\ s.at <= now'
                      /\ s.at + DedupWindow > now'
                            => queues'[q].dedup_cache[s.key].expiry >= s.at + DedupWindow
    BY DEF Remembers
  <2>1. s \in accepted /\ q \in live /\ q \in live' /\ s.at \in Nat /\ s.key \in Keys
    BY <1>2 DEF DedupInv
  <2>2. /\ s.at <= now
        /\ s.at + DedupWindow > now
               => queues[q].dedup_cache[s.key].expiry >= s.at + DedupWindow
    BY <2>1 DEF DedupInv, Remembers
  <2>3. queues[q].dedup_cache[s.key].expiry > now =>
           queues'[q].dedup_cache[s.key] = queues[q].dedup_cache[s.key]
    BY <2>1
  <2>4. queues[q].dedup_cache[s.key].expiry \in Nat
    BY <1>3, <2>1
  <2> QED BY <1>1, <2>1, <2>2, <2>3, <2>4
<1>5. Apart(accepted')
  BY DEF DedupInv, Apart
<1> QED BY <1>4, <1>5 DEF DedupInv, Remembers, Apart

\* A send to q: its policy stays, and what the queue remembers of the sends on
\* record it goes on remembering.
LEMMA SendRemembers ==
    ASSUME TypeOK, NEW q \in Queues, Send(q)
    PROVE  \E P \in Queue :
              /\ queues' = [queues EXCEPT ![q] = P] /\ P.redrive = queues[q].redrive
              /\ UNCHANGED <<now, live, minted, gone>>
              /\ \A s \in accepted' : s \in accepted \/ s.queue = q
              /\ accepted \subseteq accepted'
              /\ q \in live
              /\ (Remembers(accepted, q, queues[q].dedup_cache, now) /\ Apart(accepted))
                    => (Remembers(accepted', q, P.dedup_cache, now) /\ Apart(accepted'))
<1> DEFINE Q == queues[q]
           Before == Remembers(accepted, q, Q.dedup_cache, now) /\ Apart(accepted)
<1>t. /\ Q \in Queue /\ now \in Nat /\ sent \in Nat /\ accepted \in SUBSET Accepts
      /\ Q.next_sequence_number \in Nat /\ MaxMessages \in Nat
  BY ConstantsAssumption, QueueFields DEF TypeOK, Accepts
<1>a. \A e, id, n : \A s \in Accepted(q, e, id, n) : s.queue = q
  BY DEF Accepted
<1>d. \A e : IsDuplicate(q, e) <=> (q \in FifoQueues /\ PruneDedup(Q).dedup_cache[DedupKey(q, e)] # NoDedup)
  BY DEF IsDuplicate
<1>1. PICK e \in Entries :
          \/ SendMessage(q, e) \/ SendDuplicate(q, e) \/ SendEncryptFails(q, e)
          \/ \E e2 \in Entries : SendMessageBatch(q, e, e2)
  BY DEF Send
<1>2. CASE SendMessage(q, e)
  <2> DEFINE id == sent + 1
             P == BatchEntry(q, Q, e, 1, id)
             new == Accepted(q, e, id, Q.next_sequence_number)
             B == accepted \cup (IF 1 = 0 THEN {} ELSE new)
  <2>1. /\ id \in MsgIds /\ ~IsDuplicate(q, e) /\ accepted' = accepted \cup new
        /\ UNCHANGED <<now, live, minted, gone>> /\ q \in live
        /\ queues' = [queues EXCEPT ![q] = Enqueue(q, Q, e, id)]
    BY <1>t, <1>2 DEF SendMessage, MsgIds
  <2>2. queues' = [queues EXCEPT ![q] = P] /\ accepted' = B
    BY <2>1 DEF BatchEntry
  <2>3. (1 = 0) <=> (q \in FifoQueues /\ PruneDedup(Q).dedup_cache[DedupKey(q, e)] # NoDedup)
    BY <1>d, <2>1
  <2> HIDE DEF id, Q
  <2>4. P \in Queue /\ P.redrive = Q.redrive
    BY <1>t, <2>1, BatchEntryFields
  <2>5. Before => (Remembers(B, q, P.dedup_cache, now) /\ Apart(B))
    BY <1>t, <2>1, <2>3, EntryRemembered
  <2>6. \A s \in accepted' : s \in accepted \/ s.queue = q
    BY <1>a, <2>1
  <2> HIDE DEF P, B, new
  <2> QED BY <2>1, <2>2, <2>4, <2>5, <2>6 DEF Q
<1>3. CASE SendDuplicate(q, e)
  <2>n. PICK n \in {0, 1} : n = 0
    OBVIOUS
  <2> DEFINE P == BatchEntry(q, Q, e, n, 0)
             B == accepted \cup (IF n = 0 THEN {} ELSE Accepted(q, e, 0, 0))
  <2>1. /\ IsDuplicate(q, e) /\ accepted' = accepted /\ UNCHANGED <<now, live, minted, gone>>
        /\ queues' = [queues EXCEPT ![q] = PruneDedup(Q)] /\ q \in live
    BY <1>3 DEF SendDuplicate
  <2>2. queues' = [queues EXCEPT ![q] = P] /\ accepted' = B
    BY <2>n, <2>1 DEF BatchEntry
  <2>3. (n = 0) <=> (q \in FifoQueues /\ PruneDedup(Q).dedup_cache[DedupKey(q, e)] # NoDedup)
    BY <1>d, <2>n, <2>1
  <2> HIDE DEF Q
  <2>4. P \in Queue /\ P.redrive = Q.redrive
    BY <1>t, <2>n, BatchEntryFields
  <2>5. Before => (Remembers(B, q, P.dedup_cache, now) /\ Apart(B))
    <3> SUFFICES ASSUME Before PROVE Remembers(B, q, P.dedup_cache, now) /\ Apart(B)
      OBVIOUS
    <3>1. (n = 1 => 0 \in MsgIds) /\ 0 \in Nat
      BY <2>n
    <3>2. Remembers(accepted, q, Q.dedup_cache, now) /\ Apart(accepted)
      OBVIOUS
    <3> HIDE <2>n
    <3> QED BY <1>t, <2>3, <3>1, <3>2, EntryRemembered, ZenonT(60)
  <2> HIDE DEF P, B
  <2> QED BY <2>1, <2>2, <2>4, <2>5 DEF Q
<1>4. CASE SendEncryptFails(q, e)
  <2> DEFINE D == BatchEntry(q, Q, e, 0, 0)
             P == UseNumber(PruneDedup(Q))
  <2>1. /\ accepted' = accepted /\ UNCHANGED <<now, live, minted, gone>> /\ q \in live
        /\ queues' = [queues EXCEPT ![q] = P]
    BY <1>4 DEF SendEncryptFails
  <2> HIDE DEF Q
  <2>2. /\ PruneDedup(Q) \in Queue /\ PruneDedup(Q).redrive = Q.redrive
        /\ \A k \in Keys : Q.dedup_cache[k].expiry > now
                              => PruneDedup(Q).dedup_cache[k] = Q.dedup_cache[k]
    BY <1>t, PruneDedupFields
  <2>3. P \in Queue /\ P.redrive = Q.redrive /\ SameDedup(P, PruneDedup(Q))
    BY <2>2, UseNumberFields
  <2>4. \A k \in Keys : Q.dedup_cache[k].expiry > now => P.dedup_cache[k] = Q.dedup_cache[k]
    BY <2>2, <2>3 DEF SameDedup
  <2> HIDE DEF P
  <2>5. Before => Remembers(accepted, q, P.dedup_cache, now)
    <3> SUFFICES ASSUME Before, NEW s \in accepted, s.queue = q
                 PROVE  /\ s.at <= now
                        /\ s.at + DedupWindow > now => P.dedup_cache[s.key].expiry >= s.at + DedupWindow
      BY DEF Remembers
    <3>1. /\ s.at <= now
          /\ s.at + DedupWindow > now => Q.dedup_cache[s.key].expiry >= s.at + DedupWindow
      BY DEF Remembers
    <3>2. s.at \in Nat /\ s.key \in Keys /\ DedupWindow \in Nat
      BY <1>t, ConstantsAssumption DEF Accepts
    <3>3. Q.dedup_cache[s.key].expiry \in Nat
      BY <1>t, <3>2, QueueFields DEF DedupEntry
    <3> QED BY <1>t, <2>4, <3>1, <3>2, <3>3
  <2> QED BY <2>1, <2>3, <2>5 DEF Q
<1>5. ASSUME NEW e2 \in Entries, SendMessageBatch(q, e, e2)
      PROVE  \E P \in Queue :
              /\ queues' = [queues EXCEPT ![q] = P] /\ P.redrive = queues[q].redrive
              /\ UNCHANGED <<now, live, minted, gone>>
              /\ \A s \in accepted' : s \in accepted \/ s.queue = q
              /\ accepted \subseteq accepted'
              /\ q \in live
              /\ Before => (Remembers(accepted', q, P.dedup_cache, now) /\ Apart(accepted'))
  <2>1. PICK n1 \in {0, 1}, n2 \in {0, 1}, Q1 \in Queue :
              /\ q \in live
              /\ (n1 = 0) <=> IsDuplicate(q, e)
              /\ Q1 = BatchEntry(q, queues[q], e, n1, sent + 1)
              /\ (n2 = 0) <=> (q \in FifoQueues /\ PruneDedup(Q1).dedup_cache[DedupKey(q, e2)] # NoDedup)
              /\ sent' = sent + n1 + n2 /\ sent + n1 + n2 <= MaxMessages
              /\ queues' = [queues EXCEPT ![q] = BatchEntry(q, Q1, e2, n2, sent + n1 + 1)]
              /\ accepted' = accepted
                    \cup (IF n1 = 0 THEN {}
                          ELSE Accepted(q, e, sent + 1, queues[q].next_sequence_number))
                    \cup (IF n2 = 0 THEN {}
                          ELSE Accepted(q, e2, sent + n1 + 1, Q1.next_sequence_number))
              /\ UNCHANGED <<now, live, minted, gone>>
    BY <1>5, BatchSteps
  <2> DEFINE i1 == sent + 1
             i2 == sent + n1 + 1
             P == BatchEntry(q, Q1, e2, n2, i2)
             B == accepted \cup (IF n1 = 0 THEN {} ELSE Accepted(q, e, i1, Q.next_sequence_number))
             C == B \cup (IF n2 = 0 THEN {} ELSE Accepted(q, e2, i2, Q1.next_sequence_number))
  <2>2. /\ n1 = 1 => i1 \in MsgIds
        /\ n2 = 1 => i2 \in MsgIds
    BY <1>t, <2>1 DEF MsgIds
  <2>3. /\ Q1 = BatchEntry(q, Q, e, n1, i1) /\ queues' = [queues EXCEPT ![q] = P]
        /\ accepted' = C /\ Q1.next_sequence_number \in Nat
    BY <2>1, QueueFields
  <2>4. (n1 = 0) <=> (q \in FifoQueues /\ PruneDedup(Q).dedup_cache[DedupKey(q, e)] # NoDedup)
    BY <1>d, <2>1
  <2>5. \A s \in accepted' : s \in accepted \/ s.queue = q
    BY <1>a, <2>1
  <2> HIDE DEF Q, i1, i2
  <2>6. Q1.redrive = Q.redrive
    BY <1>t, <2>2, <2>3, BatchEntryFields
  <2>7. P \in Queue /\ P.redrive = Q1.redrive
    BY <1>t, <2>2, BatchEntryFields
  <2>8. Before => (Remembers(B, q, Q1.dedup_cache, now) /\ Apart(B) /\ B \in SUBSET Accepts)
    BY <1>t, <2>2, <2>3, <2>4, EntryRemembered
  <2> HIDE DEF B
  <2>9. Before => (Remembers(C, q, P.dedup_cache, now) /\ Apart(C))
    <3> SUFFICES ASSUME Before PROVE Remembers(C, q, P.dedup_cache, now) /\ Apart(C)
      OBVIOUS
    <3>1. Remembers(B, q, Q1.dedup_cache, now) /\ Apart(B) /\ B \in SUBSET Accepts
      BY <2>8
    <3>2. (n2 = 0) <=> (q \in FifoQueues /\ PruneDedup(Q1).dedup_cache[DedupKey(q, e2)] # NoDedup)
      BY <2>1
    <3>3. Q1 \in Queue /\ Q1.next_sequence_number \in Nat /\ now \in Nat
      BY <1>t, <2>3
    <3> QED BY <2>2, <3>1, <3>2, <3>3, EntryRemembered
  <2> HIDE DEF P, C
  <2> QED BY <2>1, <2>3, <2>5, <2>6, <2>7, <2>9 DEF Q
<1> QED BY <1>1, <1>2, <1>3, <1>4, <1>5

\* The management of a queue: the others are left alone.
LEMMA ManageSteps ==
    ASSUME TypeOK, NEW q \in Queues, Manage(q)
    PROVE  /\ q \in ManagedQueues
           /\ \A p \in Queues : p # q => queues'[p] = queues[p] /\ (p \in live <=> p \in live')
           /\ now' = now
           /\ \/ live' = live /\ accepted' = accepted /\ SameDedup(queues'[q], queues[q])
              \/ accepted' = accepted /\ q \notin live
              \/ accepted' = {s \in accepted : s.queue # q} /\ q \notin live'
<1>t. queues \in [Queues -> Queue] /\ queues[q] \in Queue
  BY DEF TypeOK
<1>1. CASE DeleteQueue(q)
  BY <1>t, <1>1 DEF DeleteQueue
<1>2. CASE PurgeQueue(q)
  <2>1. /\ queues' = [queues EXCEPT ![q] = [queues[q] EXCEPT !.messages = <<>>, !.inflight = <<>>]]
        /\ q \in ManagedQueues /\ UNCHANGED <<now, live, accepted>>
    BY <1>2 DEF PurgeQueue
  <2>2. SameDedup([queues[q] EXCEPT !.messages = <<>>, !.inflight = <<>>], queues[q])
    BY <1>t, EmptiedFields
  <2> QED BY <1>t, <2>1, <2>2
<1>3. ASSUME NEW target \in Queues \cup {NoQueue}, CreateQueue(q, target)
      PROVE  /\ q \in ManagedQueues /\ q \notin live /\ accepted' = accepted /\ now' = now
             /\ \A p \in Queues : p # q => queues'[p] = queues[p] /\ (p \in live <=> p \in live')
  BY <1>t, <1>3 DEF CreateQueue
<1>4. ASSUME NEW target \in Queues \cup {NoQueue}, SetRedrivePolicy(q, target)
      PROVE  /\ q \in ManagedQueues /\ live' = live /\ accepted' = accepted /\ now' = now
             /\ \A p \in Queues : p # q => queues'[p] = queues[p]
             /\ SameDedup(queues'[q], queues[q])
  <2>1. /\ queues' = [queues EXCEPT ![q] = [queues[q] EXCEPT !.redrive = target]]
        /\ q \in ManagedQueues /\ UNCHANGED <<now, live, accepted>>
    BY <1>4 DEF SetRedrivePolicy
  <2>2. SameDedup([queues[q] EXCEPT !.redrive = target], queues[q])
    BY <1>t, RedriveFields
  <2> QED BY <1>t, <2>1, <2>2
<1> QED BY <1>1, <1>2, <1>3, <1>4 DEF Manage

\* Policies that nobody changes stay.
LEMMA SettingsStep == TypeOK /\ Settings /\ [Next]_vars => Settings'
<1> SUFFICES ASSUME TypeOK, Settings, [Next]_vars PROVE Settings'
  OBVIOUS
<1>1. ASSUME NEW q \in Queues, Send(q) PROVE Settings'
  <2>1. PICK P : /\ queues' = [queues EXCEPT ![q] = P] /\ P.redrive = queues[q].redrive
                 /\ live' = live
    BY <1>1, SendRemembers
  <2>2. \A p \in Queues : queues'[p] = IF p = q THEN P ELSE queues[p]
    BY <2>1 DEF TypeOK
  <2> QED BY <2>1, <2>2 DEF Settings
<1>2. ASSUME NEW q \in Queues, Manage(q) PROVE Settings'
  BY <1>2, ManageSteps DEF Settings
<1>3. CASE \A q \in Queues : ~Send(q) /\ ~Manage(q)
  BY <1>3, FrameStep DEF Framed, Settings
<1> QED BY <1>1, <1>2, <1>3

\* Every step keeps what the queues remember of sends.
LEMMA DedupStep == TypeOK /\ TypeOK' /\ DedupInv /\ [Next]_vars => DedupInv'
<1> SUFFICES ASSUME TypeOK, TypeOK', DedupInv, [Next]_vars PROVE DedupInv'
  OBVIOUS
<1>t. now \in Nat /\ now' \in Nat /\ live \subseteq Queues
  BY DEF TypeOK
<1>1. ASSUME NEW q \in Queues, Send(q) PROVE DedupInv'
  <2>1. PICK P \in Queue :
              /\ queues' = [queues EXCEPT ![q] = P]
              /\ UNCHANGED <<now, live, minted, gone>>
              /\ \A s \in accepted' : s \in accepted \/ s.queue = q
              /\ q \in live
              /\ (Remembers(accepted, q, queues[q].dedup_cache, now) /\ Apart(accepted))
                    => (Remembers(accepted', q, P.dedup_cache, now) /\ Apart(accepted'))
    BY <1>1, SendRemembers
  <2>2. \A p \in Queues : queues'[p] = IF p = q THEN P ELSE queues[p]
    BY <2>1 DEF TypeOK
  <2>3. Remembers(accepted', q, queues'[q].dedup_cache, now') /\ Apart(accepted')
    BY <2>1, <2>2 DEF DedupInv
  <2>4. ASSUME NEW p \in Queues, p # q PROVE Remembers(accepted', p, queues'[p].dedup_cache, now')
    <3>1. Remembers(accepted, p, queues[p].dedup_cache, now)
      BY DEF DedupInv
    <3>2. queues'[p] = queues[p] /\ now' = now
      BY <2>1, <2>2, <2>4
    <3>3. \A s \in accepted' : s.queue = p => s \in accepted
      BY <2>1, <2>4
    <3> QED BY <3>1, <3>2, <3>3 DEF Remembers
  <2>5. \A p \in Queues : Remembers(accepted', p, queues'[p].dedup_cache, now')
    BY <2>3, <2>4
  <2>6. \A s \in accepted' : s.queue \in live'
    BY <2>1 DEF DedupInv
  <2> QED BY <2>3, <2>5, <2>6 DEF DedupInv, Remembers, Apart
<1>2. ASSUME NEW q \in Queues, Manage(q) PROVE DedupInv'
  <2>1. /\ \A p \in Queues : p # q => queues'[p] = queues[p] /\ (p \in live <=> p \in live')
        /\ now' = now
        /\ \/ live' = live /\ accepted' = accepted /\ SameDedup(queues'[q], queues[q])
           \/ accepted' = accepted /\ q \notin live
           \/ accepted' = {s \in accepted : s.queue # q} /\ q \notin live'
    BY <1>2, ManageSteps
  <2>2. accepted' \subseteq accepted
    BY <2>1
  <2>3. \A s \in accepted : s.queue \in live /\ s.queue \in Queues
    BY <1>t DEF DedupInv
  <2>4. \A s \in accepted' : s.queue \in live'
    BY <2>1, <2>2, <2>3
  <2>5. \A p \in live' : p \in live => \A k \in Keys : queues'[p].dedup_cache[k] = queues[p].dedup_cache[k]
    BY <1>t, <2>1 DEF SameDedup
  <2> QED BY <1>t, <2>1, <2>2, <2>4, <2>5, DedupFrame
<1>3. CASE \A q \in Queues : ~Send(q) /\ ~Manage(q)
  <2>1. Framed
    BY <1>3, FrameStep
  <2>2. now' >= now
    <3>1. CASE Tick \/ UNCHANGED vars
      BY <1>t, <3>1 DEF Tick, vars
    <3>2. CASE ~Tick /\ Next
      <4>1. now' = now
        <5>1. \A q \in Queues : UseHandle(q) => now' = now
          BY DEF UseHandle, DeleteMessage, DeleteMessageBatch,
                 ChangeMessageVisibility, ChangeMessageVisibilityBatch
        <5>2. \A q \in Queues : Receive(q) => now' = now
          BY DEF Receive, ReceiveMessage, ReceiveDecryptFails, ReplayReceive
        <5>3. \A q \in Queues : (\E g \in Groups \cup {NoGroup} : Deliver(q, g)) => now' = now
          BY DEF Deliver
        <5>4. \A q \in Queues : DeliverEncryptFails(q) \/ ForceDlq(q) => now' = now
          BY DEF DeliverEncryptFails, ForceDlq
        <5>5. \A q \in Queues : (\E dest \in Queues \cup {NoQueue} : RedriveNow(q, dest)) => now' = now
          BY DEF RedriveNow
        <5>6. TickExpiration => now' = now
          BY DEF TickExpiration
        <5> QED BY <1>3, <3>2, <5>1, <5>2, <5>3, <5>4, <5>5, <5>6 DEF Next
      <4> QED BY <1>t, <4>1
    <3> QED BY <3>1, <3>2
  <2>3. accepted' = accepted /\ live' = live
    BY <2>1 DEF Framed
  <2>4. \A p \in live' : p \in live => \A k \in Keys : queues'[p].dedup_cache[k] = queues[p].dedup_cache[k]
    BY <1>t, <2>1 DEF SameDedup, Framed
  <2>5. \A s \in accepted' : s.queue \in live'
    BY <2>3 DEF DedupInv
  <2> QED BY <1>t, <2>2, <2>3, <2>4, <2>5, DedupFrame
<1> QED BY <1>1, <1>2, <1>3

\* Two messages accepted under one deduplication key are at least the window
\* apart: on every queue, with batches, deletes, purges and moves in between.
THEOREM QueueDedupOnce == Spec => []DedupOnce
<1> DEFINE Inv == TypeOK /\ Accounts /\ DedupInv
<1>1. Init => Inv
  <2>1. Init => DedupInv
    BY DEF Init, DedupInv, Remembers, Apart
  <2> QED BY <2>1, InitKeeps
<1>2. Inv /\ [Next]_vars => Inv'
  BY AccountsStep, DedupStep
<1>3. Inv => DedupOnce
  BY DEF DedupInv, Apart, DedupOnce
<1> QED BY <1>1, <1>2, <1>3, PTL DEF Spec

\* An encrypted queue has no redrive policy: its failed receives take no
\* exhausted message out of it.
NoEncryptedRedrive ==
    \A q \in EncryptedQueues : q \notin ManagedQueues /\ InitialRedrive[q] = NoQueue

\* Every queue starts with its policy.
LEMMA InitSettings == Init => Settings
  BY ConstantsAssumption, NewQueueFields DEF Init, Settings

\* A message that is somewhere has a copy.
LEMMA AccountedNothingLost == TypeOK /\ Accounts /\ Accounted => NothingLost
<1> SUFFICES ASSUME TypeOK, Accounts, Accounted, NEW i \in (1..sent) \ gone PROVE Copies(i) # {}
  BY DEF NothingLost
<1>1. i \in MsgIds
  BY ConstantsAssumption DEF TypeOK, MsgIds
<1>2. i \in Everything(queues)
  BY DEF Accounted
<1> QED BY <1>1, <1>2, CopiesOf

\* An accepted message stays in some queue until it is deleted, purged, expired
\* or goes down with its queue.
THEOREM QueueNothingLost == NoEncryptedRedrive /\ Spec => []NothingLost
<1> SUFFICES ASSUME NoEncryptedRedrive PROVE Spec => []NothingLost
  OBVIOUS
<1> DEFINE Inv == TypeOK /\ Accounts /\ Accounted /\ Settings
<1>1. Init => Inv
  BY InitKeeps, InitSettings
<1>2. Inv /\ [Next]_vars => Inv'
  <2> SUFFICES ASSUME Inv, [Next]_vars PROVE Inv'
    OBVIOUS
  <2>1. \A q \in EncryptedQueues : queues[q].redrive = NoQueue
    BY ConstantsAssumption DEF NoEncryptedRedrive, Settings
  <2>2. TypeOK' /\ Accounts' /\ Accounted'
    BY <2>1, NextKeeps, StutterKeeps DEF Keeps
  <2>3. Settings'
    BY SettingsStep
  <2> QED BY <2>2, <2>3
<1>3. Inv => NothingLost
  BY AccountedNothingLost
<1> QED BY <1>1, <1>2, <1>3, PTL DEF Spec
=============================================================================
