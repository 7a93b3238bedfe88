------------------------- MODULE SqsMoveTaskProofs -------------------------
(* Theorems about SqsMoveTask, for any queues, redrive policies, numbers of *)
(* messages, tasks and crashes, and whether or not saves fail.              *)
EXTENDS SqsMoveTask, DequeProofs

SnapshotType ==
    [live : SUBSET Queues, messages : [Queues -> Seq(Nat)],
     tasks : [TaskIds -> MessageMoveTask], placed : SUBSET Nat]

\* A mover that has not yet written the outcome of its task.
Working(m) ==
    \/ m.pc \in {"check", "move", "finalize"}
    \/ m.pc = "checkpoint" /\ m.outcome = "Moved"

-----------------------------------------------------------------------------
\* No task is a task.
LEMMA NoTaskType == NoTask \in MessageMoveTask
  BY DEF NoTask, MessageMoveTask

\* Changing a field of a task changes that field and no other.
LEMMA StatusFields ==
    ASSUME NEW task \in MessageMoveTask, NEW s \in Active \cup Terminal \cup {"Absent"}
    PROVE  LET u == WithStatus(task, s)
           IN  /\ u \in MessageMoveTask /\ u.status = s /\ u.source = task.source
               /\ u.driver_pid = task.driver_pid /\ u.late = task.late
  BY DEF MessageMoveTask, Active, Terminal, WithStatus

\* Taking a task over changes its driver and nothing else.
LEMMA DriverFields ==
    ASSUME NEW task \in MessageMoveTask, NEW me \in Nat
    PROVE  LET u == WithDriver(task, me)
           IN  /\ u \in MessageMoveTask /\ u.status = task.status
               /\ u.source = task.source /\ u.driver_pid = me /\ u.late = task.late
  BY DEF MessageMoveTask, Active, Terminal, WithDriver

\* What counting a move does to a task.
LEMMA CountMoveFields ==
    ASSUME NEW task \in MessageMoveTask
    PROVE  /\ CountMove(task) \in MessageMoveTask
           /\ CountMove(task).status = task.status /\ CountMove(task).source = task.source
           /\ CountMove(task).driver_pid = task.driver_pid
           /\ task.status \in {"Running", "Absent"} => CountMove(task).late = task.late
           /\ CountMove(task).late <= task.late + 1
<1>1. CASE task.status = "Absent"
  BY <1>1 DEF CountMove, MessageMoveTask
<1>2. CASE task.status # "Absent"
  <2> DEFINE n == task.messages_moved + 1
             l == IF task.status = "Running" THEN task.late ELSE task.late + 1
  <2>1. n \in Nat /\ l \in Nat /\ l <= task.late + 1
    BY DEF MessageMoveTask
  <2>2. CountMove(task) = [task EXCEPT !.messages_moved = n, !.late = l]
    BY <1>2 DEF CountMove
  <2>3. task.status = "Running" => l = task.late
    OBVIOUS
  <2> HIDE DEF n, l
  <2>4. LET u == [task EXCEPT !.messages_moved = n, !.late = l]
        IN  /\ u \in MessageMoveTask /\ u.status = task.status /\ u.source = task.source
            /\ u.driver_pid = task.driver_pid /\ u.late = l
    BY <2>1 DEF MessageMoveTask
  <2> QED BY <1>2, <2>1, <2>2, <2>3, <2>4
<1> QED BY <1>1, <1>2

\* The steps of a mover.
Pcs == {"none", "check", "move", "finalize", "checkpoint"}

\* Going to a step leaves the rest of a mover.
LEMMA MoverPc ==
    ASSUME NEW m \in Mover, NEW p \in Pcs
    PROVE  LET u == Goto(m, p)
           IN  /\ u \in Mover /\ u.pc = p /\ u.outcome = m.outcome
               /\ u.source = m.source /\ u.cancel_flag = m.cancel_flag
  BY DEF Mover, Pcs, Goto

\* A mover that has decided on an outcome goes on to write it.
LEMMA MoverFinalizes ==
    ASSUME NEW m \in Mover, NEW o \in Terminal, NEW s \in BOOLEAN
    PROVE  LET u == Decided(m, o, s)
           IN  /\ u \in Mover /\ u.pc = "finalize" /\ u.outcome = o
               /\ u.source = m.source /\ u.cancel_flag = m.cancel_flag
  BY DEF Mover, Pcs, Decided

\* A mover that has moved a message goes on to its checkpoint.
LEMMA MoverMoved ==
    ASSUME NEW m \in Mover
    PROVE  LET u == Advanced(m)
           IN  /\ u \in Mover /\ u.pc = "checkpoint" /\ u.outcome = "Moved"
               /\ u.source = m.source /\ u.cancel_flag = m.cancel_flag
<1> DEFINE n == IF m.destination = NoQueue THEN m.idx + 1 ELSE m.idx
           u == [m EXCEPT !.pc = "checkpoint", !.outcome = "Moved", !.idx = n]
<1>1. n \in Nat /\ Advanced(m) = u
  BY DEF Mover, Advanced
<1> HIDE DEF n
<1>2. /\ u \in Mover /\ u.pc = "checkpoint" /\ u.outcome = "Moved"
      /\ u.source = m.source /\ u.cancel_flag = m.cancel_flag
  BY <1>1 DEF Mover
<1> QED BY <1>1, <1>2

\* The cancel flag changes nothing else of a mover.
LEMMA MoverFlagged ==
    ASSUME NEW m \in Mover
    PROVE  LET u == Flagged(m)
           IN  /\ u \in Mover /\ u.pc = m.pc /\ u.outcome = m.outcome
               /\ u.source = m.source /\ u.cancel_flag = TRUE
  BY DEF Mover, Pcs, Flagged

\* The fields of a spawned mover and of no mover.
LEMMA SpawnFields ==
    ASSUME NEW src \in Queues \cup {NoQueue}, NEW dest \in Queues \cup {NoQueue},
           NEW T \in SUBSET Queues, NEW c \in BOOLEAN
    PROVE  /\ Spawn(src, dest, T, c) \in Mover /\ Spawn(src, dest, T, c).pc = "check"
           /\ Spawn(src, dest, T, c).outcome = "Moved" /\ Spawn(src, dest, T, c).source = src
           /\ Spawn(src, dest, T, c).cancel_flag = c
  BY DEF Spawn, Mover

\* No mover is a mover without a step.
LEMMA NoMoverFields == NoMover \in Mover /\ NoMover.pc = "none"
  BY DEF NoMover, Spawn, Mover, Terminal

-----------------------------------------------------------------------------
(* What each step makes of the tasks and the movers. *)

\* A mover reads its cancel flag.
LEMMA CheckCancelEffect ==
    ASSUME TypeOK, NEW t \in TaskIds, CheckCancel(t)
    PROVE  \E u \in Mover :
              /\ movers' = [movers EXCEPT ![t] = u] /\ u.source = movers[t].source
              /\ u.cancel_flag = movers[t].cancel_flag
              /\ u.pc = IF movers[t].cancel_flag THEN "finalize" ELSE "move"
              /\ u.pc = "finalize" => u.outcome \in Terminal
<1>1. movers[t] \in Mover
  BY DEF TypeOK
<1>2. CASE movers[t].cancel_flag
  <2> DEFINE u == Decided(movers[t], "Cancelled", FALSE)
  <2>1. movers' = [movers EXCEPT ![t] = u]
    BY <1>2 DEF CheckCancel
  <2>2. "Cancelled" \in Terminal
    BY DEF Terminal
  <2>3. /\ u \in Mover /\ u.pc = "finalize" /\ u.outcome = "Cancelled"
        /\ u.source = movers[t].source /\ u.cancel_flag = movers[t].cancel_flag
    BY <1>1, <2>2, MoverFinalizes
  <2> HIDE DEF u
  <2> QED BY <1>2, <2>1, <2>2, <2>3
<1>3. CASE ~movers[t].cancel_flag
  <2> DEFINE u == Goto(movers[t], "move")
  <2>1. movers' = [movers EXCEPT ![t] = u]
    BY <1>3 DEF CheckCancel
  <2>2. /\ u \in Mover /\ u.pc = "move"
        /\ u.source = movers[t].source /\ u.cancel_flag = movers[t].cancel_flag
    BY <1>1, MoverPc DEF Pcs
  <2> HIDE DEF u
  <2> QED BY <1>3, <2>1, <2>2
<1> QED BY <1>2, <1>3

\* A mover that finds nothing to move decides on an outcome.
LEMMA FindNothingEffect ==
    ASSUME TypeOK, NEW t \in TaskIds, FindNothing(t)
    PROVE  \E u \in Mover :
              /\ movers' = [movers EXCEPT ![t] = u] /\ u.source = movers[t].source
              /\ u.cancel_flag = movers[t].cancel_flag
              /\ u.pc = "finalize" /\ u.outcome \in Terminal
<1> DEFINE o == IF movers[t].source \in live /\ TargetOf(movers[t]) \in live
                THEN "Completed" ELSE "Failed"
           s == movers[t].source \in live
           u == Decided(movers[t], o, s)
<1>1. movers[t] \in Mover
  BY DEF TypeOK
<1>2. movers' = [movers EXCEPT ![t] = u]
  BY DEF FindNothing
<1>3. o \in Terminal /\ s \in BOOLEAN
  BY DEF Terminal
<1> HIDE DEF o, s
<1>4. /\ u \in Mover /\ u.pc = "finalize" /\ u.outcome = o
      /\ u.source = movers[t].source /\ u.cancel_flag = movers[t].cancel_flag
  BY <1>1, <1>3, MoverFinalizes
<1> HIDE DEF u
<1> QED BY <1>2, <1>3, <1>4

\* A mover that moves a message counts it and goes on to its checkpoint.
LEMMA MoveOneEffect ==
    ASSUME TypeOK, NEW t \in TaskIds, MoveOne(t)
    PROVE  /\ \E u \in Mover :
                 /\ movers' = [movers EXCEPT ![t] = u] /\ u.source = movers[t].source
                 /\ u.cancel_flag = movers[t].cancel_flag
                 /\ u.pc = "checkpoint" /\ u.outcome = "Moved"
           /\ tasks' = [tasks EXCEPT ![t] = CountMove(tasks[t])]
<1> DEFINE u == Advanced(movers[t])
<1>1. movers[t] \in Mover
  BY DEF TypeOK
<1>2. movers' = [movers EXCEPT ![t] = u] /\ tasks' = [tasks EXCEPT ![t] = CountMove(tasks[t])]
  BY DEF MoveOne
<1>3. /\ u \in Mover /\ u.pc = "checkpoint" /\ u.outcome = "Moved"
      /\ u.source = movers[t].source /\ u.cancel_flag = movers[t].cancel_flag
  BY <1>1, MoverMoved
<1> HIDE DEF u
<1> QED BY <1>2, <1>3

\* A mover writes its outcome, and has done its work.
LEMMA FinalizeEffect ==
    ASSUME TypeOK, NEW t \in TaskIds, FinalizeMoveTask(t), movers[t].outcome \in Terminal
    PROVE  /\ \E u \in Mover :
                 /\ movers' = [movers EXCEPT ![t] = u] /\ u.outcome = movers[t].outcome
                 /\ u.pc \in {"checkpoint", "none"}
           /\ \E v \in MessageMoveTask :
                 /\ tasks' = [tasks EXCEPT ![t] = v]
                 /\ v.status \in Terminal \cup {"Absent"} /\ v.late = tasks[t].late
                 /\ v.status = "Absent" => tasks[t].status = "Absent"
<1> DEFINE p == IF movers[t].save THEN "checkpoint" ELSE "none"
           u == Goto(movers[t], p)
           v == IF tasks[t].status = "Absent" THEN tasks[t]
                ELSE WithStatus(tasks[t], movers[t].outcome)
<1>1. movers[t] \in Mover /\ tasks[t] \in MessageMoveTask
  BY DEF TypeOK
<1>2. movers' = [movers EXCEPT ![t] = u] /\ tasks' = [tasks EXCEPT ![t] = v]
  BY DEF FinalizeMoveTask
<1>3. p \in {"checkpoint", "none"}
  OBVIOUS
<1> HIDE DEF p
<1>4. u \in Mover /\ u.pc = p /\ u.outcome = movers[t].outcome
  BY <1>1, <1>3, MoverPc DEF Pcs
<1>5. /\ v \in MessageMoveTask /\ v.late = tasks[t].late
      /\ v.status \in Terminal \cup {"Absent"}
      /\ v.status = "Absent" => tasks[t].status = "Absent"
  <2>1. CASE tasks[t].status = "Absent"
    BY <1>1, <2>1
  <2>2. CASE tasks[t].status # "Absent"
    BY <1>1, <2>2, StatusFields DEF Terminal
  <2> QED BY <2>1, <2>2
<1> HIDE DEF u, v
<1> QED BY <1>2, <1>3, <1>4, <1>5

\* A checkpoint after a move leads back to the loop, after an outcome out of it.
LEMMA CheckpointEffect ==
    ASSUME TypeOK, NEW t \in TaskIds, Checkpoint(t)
    PROVE  \E u \in Mover :
              /\ movers' = [movers EXCEPT ![t] = u] /\ u.source = movers[t].source
              /\ u.cancel_flag = movers[t].cancel_flag
              /\ u.pc = IF movers[t].outcome = "Moved" THEN "check" ELSE "none"
<1> DEFINE p == IF movers[t].outcome = "Moved" THEN "check" ELSE "none"
           u == Goto(movers[t], p)
<1>1. movers[t] \in Mover
  BY DEF TypeOK
<1>2. movers' = [movers EXCEPT ![t] = u]
  BY DEF Checkpoint
<1>3. p \in Pcs
  BY DEF Pcs
<1>4. p = IF movers[t].outcome = "Moved" THEN "check" ELSE "none"
  OBVIOUS
<1> HIDE DEF p
<1>5. /\ u \in Mover /\ u.pc = p
      /\ u.source = movers[t].source /\ u.cancel_flag = movers[t].cancel_flag
  BY <1>1, <1>3, MoverPc
<1> HIDE DEF u
<1> QED BY <1>2, <1>4, <1>5

\* A cancel marks the task and flags the mover.
LEMMA CancelEffect ==
    ASSUME TypeOK, NEW t \in TaskIds, CancelMessageMoveTask(t)
    PROVE  /\ \E u \in Mover :
                 /\ movers' = [movers EXCEPT ![t] = u] /\ u.source = movers[t].source
                 /\ u.cancel_flag = TRUE /\ u.pc = movers[t].pc
                 /\ u.outcome = movers[t].outcome
           /\ \E v \in MessageMoveTask :
                 /\ tasks' = [tasks EXCEPT ![t] = v]
                 /\ v.status = "Cancelling" /\ v.late = tasks[t].late
                 /\ v.source = tasks[t].source /\ v.driver_pid = tasks[t].driver_pid
<1> DEFINE u == Flagged(movers[t])
           v == WithStatus(tasks[t], "Cancelling")
<1>1. movers[t] \in Mover /\ tasks[t] \in MessageMoveTask
  BY DEF TypeOK
<1>2. movers' = [movers EXCEPT ![t] = u] /\ tasks' = [tasks EXCEPT ![t] = v]
  BY DEF CancelMessageMoveTask
<1>3. /\ u \in Mover /\ u.source = movers[t].source
      /\ u.cancel_flag = TRUE /\ u.pc = movers[t].pc /\ u.outcome = movers[t].outcome
  BY <1>1, MoverFlagged
<1>4. "Cancelling" \in Active
  BY DEF Active
<1>5. /\ v \in MessageMoveTask /\ v.status = "Cancelling" /\ v.late = tasks[t].late
      /\ v.source = tasks[t].source /\ v.driver_pid = tasks[t].driver_pid
  BY <1>1, <1>4, StatusFields
<1> HIDE DEF u, v
<1> QED BY <1>2, <1>3, <1>5

\* The task a start records.
LEMMA NewTaskFields ==
    ASSUME TypeOK, NEW q \in Queues, NEW dest \in Dests, NEW moved \in Nat,
           NEW s \in {"Running", "Completed"}
    PROVE  /\ NewTask(q, dest, s, moved) \in MessageMoveTask
           /\ NewTask(q, dest, s, moved).status = s /\ NewTask(q, dest, s, moved).source = q
           /\ NewTask(q, dest, s, moved).driver_pid = pid
           /\ NewTask(q, dest, s, moved).late = 0
<1>1. dest \in Queues \cup {NoQueue}
  BY MoveAssumption
<1> QED BY <1>1 DEF NewTask, MessageMoveTask, Active, Terminal, TypeOK

\* A start with a rate records a running task of this process and spawns its mover.
LEMMA StartEffect ==
    ASSUME TypeOK, NEW q \in Queues, NEW dest \in Dests, StartMessageMoveTask(q, dest)
    PROVE  /\ \E v \in MessageMoveTask :
                 /\ tasks' = [tasks EXCEPT ![started + 1] = v]
                 /\ v.status = "Running" /\ v.source = q /\ v.driver_pid = pid /\ v.late = 0
           /\ \E u \in Mover :
                 /\ movers' = [movers EXCEPT ![started + 1] = u]
                 /\ u.pc = "check" /\ u.source = q /\ u.outcome = "Moved"
<1> DEFINE T == DlqSources(q, live)
           c == FALSE
           v == NewTask(q, dest, "Running", 0)
           u == Spawn(q, dest, T, c)
<1>1. tasks' = [tasks EXCEPT ![started + 1] = v] /\ movers' = [movers EXCEPT ![started + 1] = u]
  BY DEF StartMessageMoveTask
<1>2. T \in SUBSET Queues /\ c \in BOOLEAN
  BY DEF DlqSources, TypeOK
<1>3. dest \in Queues \cup {NoQueue}
  BY MoveAssumption
<1> HIDE DEF T, c
<1>4. /\ v \in MessageMoveTask /\ v.status = "Running" /\ v.source = q
      /\ v.driver_pid = pid /\ v.late = 0
  BY NewTaskFields
<1>5. u \in Mover /\ u.pc = "check" /\ u.source = q /\ u.outcome = "Moved"
  BY <1>2, <1>3, SpawnFields
<1> HIDE DEF v, u
<1> QED BY <1>1, <1>4, <1>5

\* A start without one records a completed task and spawns nothing.
LEMMA StartWithoutRateEffect ==
    ASSUME TypeOK, NEW q \in Queues, NEW dest \in Dests, StartWithoutRate(q, dest)
    PROVE  /\ \E v \in MessageMoveTask :
                 /\ tasks' = [tasks EXCEPT ![started + 1] = v]
                 /\ v.status = "Completed" /\ v.late = 0
           /\ movers' = movers
<1> DEFINE l == Len(messages[q])
           v == NewTask(q, dest, "Completed", l)
<1>1. tasks' = [tasks EXCEPT ![started + 1] = v] /\ movers' = movers
  BY DEF StartWithoutRate
<1>2. l \in Nat
  BY DEF TypeOK
<1> HIDE DEF l
<1>3. v \in MessageMoveTask /\ v.status = "Completed" /\ v.late = 0
  BY <1>2, NewTaskFields
<1> HIDE DEF v
<1> QED BY <1>1, <1>3

\* What resuming makes of a task: it is this process's if it is active, and an
\* active task with a mover has its source and its cancel intent.
LEMMA ResumeEffect ==
    ASSUME NEW task \in MessageMoveTask, NEW me \in Nat, NEW existing \in SUBSET Queues
    PROVE  LET v == ResumedTask(task, me, existing)
               u == ResumedMover(task, me, existing)
           IN  /\ v \in MessageMoveTask /\ u \in Mover
               /\ v.source = task.source /\ v.late = task.late
               /\ v.status = task.status \/ (v.status = "Failed" /\ u.pc = "none")
               /\ v.status \in Active => v.driver_pid = me
               /\ u.pc = "none" \/ (/\ u.pc = "check" /\ v.status \in Active
                                   /\ u.source = v.source
                                   /\ u.cancel_flag = (v.status = "Cancelling"))
<1> DEFINE v == ResumedTask(task, me, existing)
           u == ResumedMover(task, me, existing)
<1> SUFFICES /\ v \in MessageMoveTask /\ u \in Mover
             /\ v.source = task.source /\ v.late = task.late
             /\ v.status = task.status \/ (v.status = "Failed" /\ u.pc = "none")
             /\ v.status \in Active => v.driver_pid = me
             /\ u.pc = "none" \/ (/\ u.pc = "check" /\ v.status \in Active
                                 /\ u.source = v.source
                                 /\ u.cancel_flag = (v.status = "Cancelling"))
  OBVIOUS
<1>1. CASE ~Orphaned(task, me)
  <2>1. v = task /\ u = NoMover
    BY <1>1 DEF ResumedTask, ResumedMover
  <2>2. v.status \in Active => v.driver_pid = me
    BY <1>1, <2>1 DEF Orphaned
  <2> HIDE DEF v, u
  <2> QED BY <2>1, <2>2, NoMoverFields
<1>2. CASE Orphaned(task, me) /\ task.source \notin existing
  <2> DEFINE w == WithDriver(task, me)
  <2>1. v = WithStatus(w, "Failed") /\ u = NoMover
    BY <1>2 DEF ResumedTask, ResumedMover
  <2>2. w \in MessageMoveTask /\ w.source = task.source /\ w.late = task.late /\ w.driver_pid = me
    BY DriverFields
  <2>3. "Failed" \in Terminal
    BY DEF Terminal
  <2> HIDE DEF v, u, w
  <2>4. /\ v \in MessageMoveTask /\ v.status = "Failed" /\ v.source = task.source
        /\ v.driver_pid = me /\ v.late = task.late
    BY <2>1, <2>2, <2>3, StatusFields
  <2> QED BY <2>1, <2>4, NoMoverFields
<1>3. CASE Orphaned(task, me) /\ task.source \in existing
  <2> DEFINE c == (task.status = "Cancelling")
             T == DlqSources(task.source, existing)
  <2>1. v = WithDriver(task, me)
    BY <1>3 DEF ResumedTask
  <2>2. u = Spawn(task.source, task.destination, T, c)
    BY <1>3 DEF ResumedMover
  <2>3. /\ v \in MessageMoveTask /\ v.status = task.status /\ v.source = task.source
        /\ v.driver_pid = me /\ v.late = task.late
    BY <2>1, DriverFields
  <2>4. task.source \in Queues \cup {NoQueue} /\ task.destination \in Queues \cup {NoQueue}
    BY DEF MessageMoveTask
  <2>5. T \in SUBSET Queues /\ c \in BOOLEAN
    BY DEF DlqSources
  <2> HIDE DEF v, u, T, c
  <2>6. u \in Mover /\ u.pc = "check" /\ u.source = task.source /\ u.cancel_flag = c
    BY <2>2, <2>4, <2>5, SpawnFields
  <2>7. v.status \in Active
    BY <1>3, <2>3 DEF Orphaned
  <2> QED BY <2>3, <2>6, <2>7 DEF c
<1> QED BY <1>1, <1>2, <1>3

\* What a save leaves on disk.
LEMMA SaveEffect ==
    ASSUME TypeOK, Save
    PROVE  /\ disk' \in SnapshotType
           /\ disk'.tasks = tasks \/ disk' = disk
  BY DEF TypeOK, Save, Snapshot, SnapshotType

-----------------------------------------------------------------------------
\* A mover about to write an outcome has decided on one.
OutcomeDecided ==
    \A t \in TaskIds : movers[t].pc = "finalize" => movers[t].outcome \in Terminal

\* The initial state has its type.
LEMMA TypeInit == Init => TypeOK
<1> SUFFICES ASSUME Init PROVE TypeOK
  OBVIOUS
<1>1. messages \in [Queues -> Seq(Nat)]
  BY DEF Init
<1>2. tasks \in [TaskIds -> MessageMoveTask] /\ movers \in [TaskIds -> Mover]
  BY NoTaskType, NoMoverFields DEF Init
<1>3. disk \in SnapshotType
  BY <1>1, <1>2 DEF Init, Snapshot, SnapshotType
<1> QED BY <1>1, <1>2, <1>3, MoveAssumption DEF Init, TypeOK, SnapshotType

\* A call other than a start keeps the type.
LEMMA TypeCall ==
    ASSUME TypeOK, NEW q \in Queues, SendMessage(q) \/ DeleteQueue(q) \/ CreateQueue(q)
    PROVE  TypeOK'
<1>1. CASE SendMessage(q)
  <2>1. messages' \in [Queues -> Seq(Nat)]
    BY <1>1 DEF SendMessage, TypeOK
  <2>2. placed' \subseteq Nat
    BY <1>1 DEF SendMessage, TypeOK
  <2> QED BY <1>1, <2>1, <2>2 DEF TypeOK, SendMessage, BeginCall
<1>2. CASE DeleteQueue(q)
  <2>1. messages' \in [Queues -> Seq(Nat)]
    BY <1>2 DEF DeleteQueue, TypeOK
  <2>2. placed' \subseteq Nat /\ live' \subseteq Queues /\ deletes' \in Nat
    <3> DEFINE D == {messages[q][i] : i \in DOMAIN messages[q]}
    <3>1. placed' = placed \ D /\ live' = live \ {q} /\ deletes' = deletes + 1
      BY <1>2 DEF DeleteQueue
    <3> HIDE DEF D
    <3>2. placed \subseteq Nat /\ live \subseteq Queues /\ deletes \in Nat
      BY DEF TypeOK
    <3>3. placed' \subseteq Nat
      BY <3>1, <3>2, Zenon
    <3>4. live' \subseteq Queues
      BY <3>1, <3>2, Zenon
    <3> QED BY <3>1, <3>2, <3>3, <3>4
  <2>3. unsaved' \in Nat
    BY <1>2 DEF DeleteQueue, BeginCall, TypeOK
  <2>4. UNCHANGED <<tasks, disk, movers, pid, sent, started, crashes, resets>>
    BY <1>2 DEF DeleteQueue
  <2> QED BY <2>1, <2>2, <2>3, <2>4 DEF TypeOK
<1>3. CASE CreateQueue(q)
  BY <1>3 DEF TypeOK, CreateQueue, BeginCall, counters
<1> QED BY <1>1, <1>2, <1>3

\* A start with a rate keeps the type.
LEMMA TypeStart ==
    ASSUME TypeOK, NEW q \in Queues, NEW dest \in Dests, StartMessageMoveTask(q, dest)
    PROVE  TypeOK'
<1>1. tasks' \in [TaskIds -> MessageMoveTask] /\ movers' \in [TaskIds -> Mover]
  <2>1. PICK v \in MessageMoveTask : tasks' = [tasks EXCEPT ![started + 1] = v]
    BY StartEffect
  <2>2. PICK u \in Mover : movers' = [movers EXCEPT ![started + 1] = u]
    BY StartEffect
  <2> QED BY <2>1, <2>2 DEF TypeOK
<1>2. started' \in 0..MaxTasks /\ unsaved' \in Nat
  BY MoveAssumption DEF StartMessageMoveTask, CanStart, BeginCall, TypeOK
<1>3. UNCHANGED <<live, messages, placed, disk, pid, sent, crashes, deletes, resets>>
  BY DEF StartMessageMoveTask
<1> QED BY <1>1, <1>2, <1>3 DEF TypeOK

\* So does a start without one, which shares the waiting messages out.
LEMMA TypeStartWithoutRate ==
    ASSUME TypeOK, NEW q \in Queues, NEW dest \in Dests, StartWithoutRate(q, dest)
    PROVE  TypeOK'
<1> DEFINE Target(i) == IF dest # NoQueue THEN dest
                        ELSE RoundRobin(DlqSources(q, live), i - 1)
           Share(r) == Keep(messages[q], {i \in DOMAIN messages[q] : Target(i) = r})
<1>1. messages[q] \in Seq(Nat) /\ Len(messages[q]) \in Nat
  BY DEF TypeOK
<1>2. ASSUME NEW r \in Queues PROVE Share(r) \in Seq(Nat)
  <2> DEFINE P == {i \in DOMAIN messages[q] : Target(i) = r}
  <2>1. P \in SUBSET DOMAIN messages[q]
    OBVIOUS
  <2> HIDE DEF P
  <2>2. Keep(messages[q], P) \in Seq(Nat)
    BY <1>1, <2>1, KeepType
  <2> QED BY <2>2 DEF P
<1>3. messages' = [r \in Queues |-> (IF r = q THEN <<>> ELSE messages[r]) \o Share(r)]
  BY DEF StartWithoutRate
<1> HIDE DEF Share
<1>4. ASSUME NEW r \in Queues
      PROVE  (IF r = q THEN <<>> ELSE messages[r]) \o Share(r) \in Seq(Nat)
  <2>1. <<>> \in Seq(Nat) /\ messages[r] \in Seq(Nat) /\ Share(r) \in Seq(Nat)
    BY <1>2 DEF TypeOK
  <2> QED BY <2>1
<1>5. messages' \in [Queues -> Seq(Nat)]
  BY <1>3, <1>4, Zenon
<1>6. tasks' \in [TaskIds -> MessageMoveTask]
  BY StartWithoutRateEffect DEF TypeOK
<1>7. started' \in 0..MaxTasks /\ unsaved' \in Nat
  <2>1. started' = started + 1 /\ started < MaxTasks /\ unsaved' = unsaved + 1
    BY DEF StartWithoutRate, CanStart, BeginCall
  <2> QED BY <2>1, MoveAssumption DEF TypeOK
<1>8. UNCHANGED <<live, placed, disk, movers, pid, sent, crashes, deletes, resets>>
  BY DEF StartWithoutRate
<1> QED BY <1>5, <1>6, <1>7, <1>8 DEF TypeOK

\* So does each step of a mover.
LEMMA TypeMover ==
    ASSUME TypeOK, OutcomeDecided, NEW t \in TaskIds, RunMessageMoveTask(t)
    PROVE  TypeOK'
<1>1. CASE CheckCancel(t)
  <2>1. movers' \in [TaskIds -> Mover]
    BY <1>1, CheckCancelEffect DEF TypeOK
  <2> QED BY <1>1, <2>1 DEF TypeOK, CheckCancel, state, counters
<1>2. CASE FindNothing(t)
  <2>1. movers' \in [TaskIds -> Mover]
    BY <1>2, FindNothingEffect DEF TypeOK
  <2>2. UNCHANGED <<state, disk, pid, unsaved, counters>>
    BY <1>2 DEF FindNothing
  <2> QED BY <2>1, <2>2 DEF TypeOK, state, counters
<1>3. CASE MoveOne(t)
  <2>1. movers' \in [TaskIds -> Mover]
    BY <1>3, MoveOneEffect DEF TypeOK
  <2>2. tasks[t] \in MessageMoveTask
    BY DEF TypeOK
  <2>3. CountMove(tasks[t]) \in MessageMoveTask
    BY <2>2, CountMoveFields
  <2>4. tasks' \in [TaskIds -> MessageMoveTask]
    BY <1>3, <2>3, MoveOneEffect DEF TypeOK
  <2>5. messages' \in [Queues -> Seq(Nat)]
    <3> DEFINE src == movers[t].source
               dst == TargetOf(movers[t])
               popped == [messages EXCEPT ![src] = Tail(@)]
    <3>1. /\ src \in live /\ dst \in live /\ messages[src] # <<>>
          /\ messages' = [popped EXCEPT ![dst] = Append(@, Head(messages[src]))]
      BY <1>3 DEF MoveOne
    <3> HIDE DEF src, dst
    <3>2. src \in Queues /\ dst \in Queues /\ messages[src] \in Seq(Nat)
      BY <3>1 DEF TypeOK
    <3>3. Tail(messages[src]) \in Seq(Nat) /\ Head(messages[src]) \in Nat
      BY <3>1, <3>2
    <3>4. popped \in [Queues -> Seq(Nat)]
      BY <3>3 DEF TypeOK
    <3> HIDE DEF popped
    <3>5. Append(popped[dst], Head(messages[src])) \in Seq(Nat)
      BY <3>2, <3>3, <3>4
    <3> QED BY <3>1, <3>4, <3>5
  <2>6. UNCHANGED <<live, placed, disk, pid, unsaved, counters>>
    BY <1>3 DEF MoveOne
  <2> QED BY <2>1, <2>4, <2>5, <2>6 DEF TypeOK, counters
<1>4. CASE FinalizeMoveTask(t)
  <2>1. movers[t].outcome \in Terminal
    BY <1>4 DEF OutcomeDecided, FinalizeMoveTask
  <2>2. movers' \in [TaskIds -> Mover] /\ tasks' \in [TaskIds -> MessageMoveTask]
    BY <1>4, <2>1, FinalizeEffect DEF TypeOK
  <2>3. UNCHANGED <<live, messages, placed, disk, pid, unsaved, counters>>
    BY <1>4 DEF FinalizeMoveTask
  <2> QED BY <2>2, <2>3 DEF TypeOK, counters
<1>5. CASE Checkpoint(t)
  <2>1. disk' \in SnapshotType
    BY <1>5, SaveEffect DEF Checkpoint
  <2>2. movers' \in [TaskIds -> Mover]
    BY <1>5, CheckpointEffect DEF TypeOK
  <2>3. UNCHANGED <<state, pid, unsaved, counters>>
    BY <1>5 DEF Checkpoint
  <2> QED BY <2>1, <2>2, <2>3 DEF TypeOK, SnapshotType, state, counters
<1> QED BY <1>1, <1>2, <1>3, <1>4, <1>5 DEF RunMessageMoveTask

\* And every other step.
LEMMA TypeStep == TypeOK /\ OutcomeDecided /\ [Next]_vars => TypeOK'
<1> SUFFICES ASSUME TypeOK, OutcomeDecided, [Next]_vars PROVE TypeOK'
  OBVIOUS
<1>1. ASSUME NEW t \in TaskIds, CancelMessageMoveTask(t) PROVE TypeOK'
  <2>1. movers' \in [TaskIds -> Mover] /\ tasks' \in [TaskIds -> MessageMoveTask]
    BY <1>1, CancelEffect DEF TypeOK
  <2>2. UNCHANGED <<live, messages, placed, disk, pid, counters>> /\ unsaved' = unsaved + 1
    BY <1>1 DEF CancelMessageMoveTask, BeginCall
  <2> QED BY <2>1, <2>2 DEF TypeOK, counters
<1>2. CASE SaveCall
  <2>1. disk' \in SnapshotType
    BY <1>2, SaveEffect DEF SaveCall
  <2>2. unsaved' \in Nat
    BY <1>2 DEF SaveCall, TypeOK
  <2> QED BY <1>2, <2>1, <2>2 DEF TypeOK, SaveCall, SnapshotType, state, counters
<1>3. CASE Reset
  <2>1. tasks' \in [TaskIds -> MessageMoveTask] /\ messages' \in [Queues -> Seq(Nat)]
    BY <1>3, NoTaskType DEF Reset
  <2> QED BY <1>3, <2>1 DEF TypeOK, Reset, BeginCall
<1>4. CASE CrashRestart
  <2> DEFINE me == pid + PidStep
  <2>1. ASSUME NEW t \in TaskIds
        PROVE  /\ ResumedTask(disk.tasks[t], me, disk.live) \in MessageMoveTask
               /\ ResumedMover(disk.tasks[t], me, disk.live) \in Mover
    <3>1. disk.tasks[t] \in MessageMoveTask /\ me \in Nat /\ disk.live \in SUBSET Queues
      BY MoveAssumption DEF TypeOK
    <3> QED BY <3>1, ResumeEffect
  <2>2. /\ tasks' = [t \in TaskIds |-> ResumedTask(disk.tasks[t], me, disk.live)]
        /\ movers' = [t \in TaskIds |-> ResumedMover(disk.tasks[t], me, disk.live)]
    BY <1>4 DEF CrashRestart
  <2>3. tasks' \in [TaskIds -> MessageMoveTask] /\ movers' \in [TaskIds -> Mover]
    BY <2>1, <2>2, Zenon
  <2>4. pid' \in Nat /\ crashes' \in Nat
    BY <1>4, MoveAssumption DEF CrashRestart, TypeOK
  <2>5. live' \subseteq Queues /\ messages' \in [Queues -> Seq(Nat)] /\ placed' \subseteq Nat
    BY <1>4 DEF CrashRestart, TypeOK
  <2>6. UNCHANGED <<disk, sent, started, deletes, resets>> /\ unsaved' = 0
    BY <1>4 DEF CrashRestart
  <2> QED BY <2>3, <2>4, <2>5, <2>6 DEF TypeOK
<1>5. CASE UNCHANGED vars
  BY <1>5 DEF TypeOK, vars
<1> QED BY <1>1, <1>2, <1>3, <1>4, <1>5, TypeCall, TypeStart, TypeStartWithoutRate,
           TypeMover DEF Next, Call

-----------------------------------------------------------------------------
(* A cancelled task moves at most one more message. *)

\* A task that nobody has cancelled has made no late move.
Calm(task) ==
    task.late <= 1 /\ (task.status \in {"Running", "Absent"} => task.late = 0)

\* How a mover stands to its task.  A mover that still works has a task that is
\* not at its end; if the task is being cancelled the mover's flag is up; and a
\* mover past its flag check has made no late move yet.
Stands(m, task) ==
    /\ m.pc = "finalize" => m.outcome \in Terminal
    /\ Working(m) => task.status \in Active \cup {"Absent"}
    /\ Working(m) /\ task.status = "Cancelling" => m.cancel_flag
    /\ m.pc = "move" => task.late = 0

\* A task that has not been started is nowhere.
NotStarted(t) ==
    tasks[t].status = "Absent" /\ disk.tasks[t].status = "Absent" /\ movers[t].pc = "none"

CancelInv ==
    /\ \A t \in TaskIds : Calm(tasks[t]) /\ Calm(disk.tasks[t])
    /\ \A t \in TaskIds : Stands(movers[t], tasks[t])
    /\ \A t \in TaskIds : t > started => NotStarted(t)

\* What is left to show of a step that changes task t and its mover at most.
LEMMA CancelLocal ==
    ASSUME TypeOK, CancelInv, NEW t \in TaskIds,
           NEW v \in MessageMoveTask, NEW u \in Mover,
           tasks' = [tasks EXCEPT ![t] = v], movers' = [movers EXCEPT ![t] = u],
           disk' = disk, started' \in {started, started + 1},
           t <= started', Calm(v), Stands(u, v)
    PROVE  CancelInv'
<1>1. /\ tasks'[t] = v /\ movers'[t] = u
      /\ \A s \in TaskIds : s # t => tasks'[s] = tasks[s] /\ movers'[s] = movers[s]
  BY DEF TypeOK
<1>2. \A s \in TaskIds : Calm(tasks'[s]) /\ Calm(disk'.tasks[s])
  BY <1>1 DEF CancelInv
<1>3. \A s \in TaskIds : Stands(movers'[s], tasks'[s])
  BY <1>1 DEF CancelInv
<1>4. \A s \in TaskIds : s > started' => s > started /\ s # t
  BY DEF TypeOK, TaskIds
<1>5. \A s \in TaskIds : s > started' => NotStarted(s)'
  BY <1>1, <1>4 DEF CancelInv, NotStarted
<1> QED BY <1>2, <1>3, <1>5 DEF CancelInv

\* A task with a working mover has been started.
LEMMA StartedTask ==
    ASSUME TypeOK, CancelInv, NEW t \in TaskIds,
           movers[t].pc # "none" \/ tasks[t].status # "Absent"
    PROVE  t <= started
  BY DEF TypeOK, CancelInv, NotStarted, TaskIds

\* The steps of a mover keep the invariant.
LEMMA CancelMover ==
    ASSUME TypeOK, CancelInv, NEW t \in TaskIds, RunMessageMoveTask(t)
    PROVE  CancelInv'
<1> DEFINE m == movers[t]
           task == tasks[t]
<1>1. task \in MessageMoveTask /\ m \in Mover /\ started \in Nat
  BY DEF TypeOK
<1>2. Calm(task) /\ Stands(m, task)
  BY DEF CancelInv
<1>3. m.pc # "none" => t <= started
  BY StartedTask
<1>4. CASE CheckCancel(t)
  <2>1. PICK u \in Mover :
           /\ movers' = [movers EXCEPT ![t] = u]
           /\ u.cancel_flag = m.cancel_flag
           /\ u.pc = IF m.cancel_flag THEN "finalize" ELSE "move"
           /\ u.pc = "finalize" => u.outcome \in Terminal
    BY <1>4, CheckCancelEffect
  <2>2. m.pc = "check" /\ tasks' = tasks /\ disk' = disk /\ started' = started
    BY <1>4 DEF CheckCancel, state, counters
  <2>3. tasks' = [tasks EXCEPT ![t] = task]
    BY <2>2 DEF TypeOK
  <2>4. Working(m)
    BY <2>2 DEF Working
  <2> HIDE DEF m, task
  <2>5. task.status \in Active \cup {"Absent"} /\ (task.status = "Cancelling" => m.cancel_flag)
    BY <1>2, <2>4 DEF Stands
  <2>6. ~m.cancel_flag => task.late = 0
    BY <1>2, <2>5 DEF Calm, Active
  <2>7. Stands(u, task)
    <3>1. CASE m.cancel_flag
      BY <2>1, <2>5, <3>1 DEF Stands
    <3>2. CASE ~m.cancel_flag
      BY <2>1, <2>5, <2>6, <3>2 DEF Stands
    <3> QED BY <3>1, <3>2
  <2>8. t <= started
    BY <1>3, <2>2
  <2> QED BY <1>1, <1>2, <2>1, <2>2, <2>3, <2>7, <2>8, CancelLocal, Zenon
<1>5. CASE FindNothing(t)
  <2>1. PICK u \in Mover :
           /\ movers' = [movers EXCEPT ![t] = u]
           /\ u.cancel_flag = m.cancel_flag
           /\ u.pc = "finalize" /\ u.outcome \in Terminal
    BY <1>5, FindNothingEffect
  <2>2. m.pc = "move" /\ tasks' = tasks /\ disk' = disk /\ started' = started
    BY <1>5 DEF FindNothing, state, counters
  <2>3. tasks' = [tasks EXCEPT ![t] = task]
    BY <2>2 DEF TypeOK
  <2>4. Working(m)
    BY <2>2 DEF Working
  <2> HIDE DEF m, task
  <2>5. Stands(u, task)
    BY <1>2, <2>1, <2>4 DEF Stands
  <2>6. t <= started
    BY <1>3, <2>2
  <2> QED BY <1>1, <1>2, <2>1, <2>2, <2>3, <2>5, <2>6, CancelLocal, Zenon
<1>6. CASE MoveOne(t)
  <2> DEFINE v == CountMove(task)
  <2>1. PICK u \in Mover :
           /\ movers' = [movers EXCEPT ![t] = u]
           /\ u.cancel_flag = m.cancel_flag
           /\ u.pc = "checkpoint" /\ u.outcome = "Moved"
    BY <1>6, MoveOneEffect
  <2>2. tasks' = [tasks EXCEPT ![t] = v]
    BY <1>6, MoveOneEffect
  <2>3. m.pc = "move" /\ disk' = disk /\ started' = started
    BY <1>6 DEF MoveOne, counters
  <2>4. Working(m)
    BY <2>3 DEF Working
  <2>5. /\ v \in MessageMoveTask /\ v.status = task.status /\ v.late <= task.late + 1
        /\ task.status \in {"Running", "Absent"} => v.late = task.late
    BY <1>1, CountMoveFields
  <2> HIDE DEF m, task, v
  <2>6. task.late = 0
    BY <1>2, <2>3 DEF Stands
  <2>7. Calm(v)
    BY <2>5, <2>6 DEF Calm
  <2>8. Stands(u, v)
    BY <1>2, <2>1, <2>4, <2>5 DEF Stands
  <2>9. t <= started
    BY <1>3, <2>3
  <2> QED BY <1>1, <2>1, <2>2, <2>3, <2>5, <2>7, <2>8, <2>9, CancelLocal, Zenon
<1>7. CASE FinalizeMoveTask(t)
  <2>1. m.pc = "finalize" /\ disk' = disk /\ started' = started
    BY <1>7 DEF FinalizeMoveTask, counters
  <2>2. m.outcome \in Terminal
    BY <1>2, <2>1 DEF Stands
  <2>3. PICK u \in Mover :
           /\ movers' = [movers EXCEPT ![t] = u] /\ u.outcome = m.outcome
           /\ u.pc \in {"checkpoint", "none"}
    BY <1>7, <2>2, FinalizeEffect
  <2>4. PICK v \in MessageMoveTask :
           /\ tasks' = [tasks EXCEPT ![t] = v]
           /\ v.status \in Terminal \cup {"Absent"} /\ v.late = task.late
           /\ v.status = "Absent" => task.status = "Absent"
    BY <1>7, <2>2, FinalizeEffect
  <2> HIDE DEF m, task
  <2>5. ~Working(u)
    BY <2>2, <2>3 DEF Working, Terminal
  <2>6. Stands(u, v)
    BY <2>3, <2>5 DEF Stands
  <2>7. Calm(v)
    BY <1>2, <2>4 DEF Calm, Terminal
  <2>8. t <= started
    BY <1>3, <2>1
  <2> QED BY <1>1, <2>1, <2>3, <2>4, <2>6, <2>7, <2>8, CancelLocal, Zenon
<1>8. CASE Checkpoint(t)
  <2>1. PICK u \in Mover :
           /\ movers' = [movers EXCEPT ![t] = u]
           /\ u.cancel_flag = m.cancel_flag
           /\ u.pc = IF m.outcome = "Moved" THEN "check" ELSE "none"
    BY <1>8, CheckpointEffect
  <2>2. m.pc = "checkpoint" /\ tasks' = tasks /\ started' = started
    BY <1>8 DEF Checkpoint, state, counters
  <2>3. disk'.tasks = tasks \/ disk' = disk
    BY <1>8, SaveEffect DEF Checkpoint
  <2>4. /\ movers'[t] = u
        /\ \A s \in TaskIds : s # t => movers'[s] = movers[s]
    BY <2>1 DEF TypeOK
  <2>5. Stands(u, task)
    <3> HIDE DEF m, task
    <3>1. CASE m.outcome = "Moved"
      <4>1. Working(m) /\ u.pc = "check"
        BY <2>1, <2>2, <3>1 DEF Working
      <4> QED BY <1>2, <2>1, <4>1 DEF Stands
    <3>2. CASE m.outcome # "Moved"
      <4>1. u.pc = "none"
        BY <2>1, <3>2
      <4> QED BY <4>1 DEF Stands, Working
    <3> QED BY <3>1, <3>2
  <2>6. \A s \in TaskIds : Calm(tasks'[s]) /\ Calm(disk'.tasks[s])
    BY <2>2, <2>3 DEF CancelInv
  <2>7. \A s \in TaskIds : Stands(movers'[s], tasks'[s])
    BY <2>2, <2>4, <2>5 DEF CancelInv
  <2>8. ASSUME NEW s \in TaskIds, s > started' PROVE NotStarted(s)'
    <3>1. NotStarted(s) /\ s # t
      BY <1>3, <2>2, <2>8 DEF CancelInv, TaskIds, TypeOK
    <3> QED BY <2>2, <2>3, <2>4, <3>1 DEF NotStarted
  <2> QED BY <2>6, <2>7, <2>8 DEF CancelInv
<1> QED BY <1>4, <1>5, <1>6, <1>7, <1>8 DEF RunMessageMoveTask

\* A step that leaves tasks, movers, snapshot and their number alone.
LEMMA CancelFrame ==
    ASSUME CancelInv, UNCHANGED <<tasks, movers, disk, started>>
    PROVE  CancelInv'
  BY DEF CancelInv, NotStarted

\* The starts keep the invariant.
LEMMA CancelStart ==
    ASSUME TypeOK, CancelInv, NEW q \in Queues, NEW dest \in Dests,
           StartMessageMoveTask(q, dest) \/ StartWithoutRate(q, dest)
    PROVE  CancelInv'
<1> DEFINE n == started + 1
<1>1. n \in TaskIds /\ n > started /\ started' = n /\ disk' = disk
  <2>1. CanStart(q, dest) /\ started' = n /\ disk' = disk
    BY DEF StartMessageMoveTask, StartWithoutRate
  <2> QED BY <2>1, MoveAssumption DEF CanStart, TaskIds, TypeOK
<1>2. started' \in {started, started + 1} /\ n <= started'
  BY <1>1 DEF TaskIds
<1>3. CASE StartMessageMoveTask(q, dest)
  <2>1. PICK v \in MessageMoveTask :
           tasks' = [tasks EXCEPT ![n] = v] /\ v.status = "Running" /\ v.late = 0
    BY <1>3, StartEffect
  <2>2. PICK u \in Mover : movers' = [movers EXCEPT ![n] = u] /\ u.pc = "check"
    BY <1>3, StartEffect
  <2> HIDE DEF n
  <2>3. Calm(v) /\ Stands(u, v)
    BY <2>1, <2>2 DEF Calm, Stands, Active
  <2> QED BY <1>1, <1>2, <2>1, <2>2, <2>3, CancelLocal, Zenon
<1>4. CASE StartWithoutRate(q, dest)
  <2> DEFINE u == movers[n]
  <2>1. PICK v \in MessageMoveTask :
           tasks' = [tasks EXCEPT ![n] = v] /\ v.status = "Completed" /\ v.late = 0
    BY <1>4, StartWithoutRateEffect
  <2>2. movers' = [movers EXCEPT ![n] = u] /\ u \in Mover
    BY <1>1, <1>4, StartWithoutRateEffect DEF TypeOK
  <2>3. u.pc = "none"
    BY <1>1 DEF CancelInv, NotStarted
  <2> HIDE DEF n, u
  <2>4. Calm(v) /\ Stands(u, v)
    BY <2>1, <2>3 DEF Calm, Stands, Working
  <2> QED BY <1>1, <1>2, <2>1, <2>2, <2>4, CancelLocal, Zenon
<1> QED BY <1>3, <1>4

\* A cancel keeps it: it raises the flag in the step that marks the task.
LEMMA CancelCancel ==
    ASSUME TypeOK, CancelInv, NEW t \in TaskIds, CancelMessageMoveTask(t)
    PROVE  CancelInv'
<1> DEFINE m == movers[t]
           task == tasks[t]
<1>1. task.status = "Running" /\ disk' = disk /\ started' = started
  BY DEF CancelMessageMoveTask, counters
<1>2. PICK u \in Mover :
         /\ movers' = [movers EXCEPT ![t] = u]
         /\ u.cancel_flag = TRUE /\ u.pc = m.pc /\ u.outcome = m.outcome
  BY CancelEffect
<1>3. PICK v \in MessageMoveTask :
         /\ tasks' = [tasks EXCEPT ![t] = v]
         /\ v.status = "Cancelling" /\ v.late = task.late
  BY CancelEffect
<1>4. Calm(task) /\ Stands(m, task)
  BY DEF CancelInv
<1>5. t <= started
  BY <1>1, StartedTask
<1> HIDE DEF m, task
<1>6. Calm(v)
  BY <1>1, <1>3, <1>4 DEF Calm
<1>7. Stands(u, v)
  BY <1>2, <1>3, <1>4 DEF Stands, Working, Active
<1> QED BY <1>1, <1>2, <1>3, <1>5, <1>6, <1>7, CancelLocal, Zenon

\* A restart keeps it: a resumed mover starts with the cancel intent of its task.
LEMMA CancelRestart ==
    ASSUME TypeOK, CancelInv, CrashRestart
    PROVE  CancelInv'
<1> DEFINE me == pid + PidStep
<1>1. disk' = disk /\ started' = started
  BY DEF CrashRestart
<1>2. ASSUME NEW t \in TaskIds
      PROVE  /\ Calm(tasks'[t]) /\ Stands(movers'[t], tasks'[t])
             /\ t > started => NotStarted(t)'
  <2> DEFINE task == disk.tasks[t]
             v == ResumedTask(task, me, disk.live)
             u == ResumedMover(task, me, disk.live)
  <2>1. task \in MessageMoveTask /\ me \in Nat /\ disk.live \in SUBSET Queues
    BY MoveAssumption DEF TypeOK
  <2>2. tasks'[t] = v /\ movers'[t] = u
    BY DEF CrashRestart
  <2>3. Calm(task) /\ (t > started => task.status = "Absent")
    BY DEF CancelInv, NotStarted
  <2>4. /\ v.late = task.late
        /\ v.status = task.status \/ (v.status = "Failed" /\ u.pc = "none")
        /\ u.pc = "none" \/ (/\ u.pc = "check" /\ v.status \in Active
                            /\ u.cancel_flag = (v.status = "Cancelling"))
        /\ v.status = "Failed" => task.status # "Absent"
    <3>1. v.status = "Failed" => task.status # "Absent"
      BY DEF ResumedTask, Orphaned, Active
    <3> HIDE DEF task, v, u, me
    <3> QED BY <2>1, <3>1, ResumeEffect DEF v, u
  <2>5. disk'.tasks[t] = task
    BY <1>1
  <2> HIDE DEF task, v, u, me
  <2>6. Calm(v)
    BY <2>3, <2>4 DEF Calm
  <2>7. Stands(u, v)
    BY <2>4 DEF Stands, Working
  <2>8. t > started => v.status = "Absent" /\ u.pc = "none"
    BY <2>3, <2>4 DEF Active
  <2> QED BY <2>2, <2>3, <2>5, <2>6, <2>7, <2>8 DEF NotStarted
<1>3. \A t \in TaskIds : Calm(disk'.tasks[t])
  BY <1>1 DEF CancelInv
<1> QED BY <1>1, <1>2, <1>3 DEF CancelInv

\* Every step keeps it.
LEMMA CancelStep == TypeOK /\ CancelInv /\ [Next]_vars => CancelInv'
<1> SUFFICES ASSUME TypeOK, CancelInv, [Next]_vars PROVE CancelInv'
  OBVIOUS
<1>1. ASSUME NEW q \in Queues, SendMessage(q) \/ DeleteQueue(q) \/ CreateQueue(q)
      PROVE  CancelInv'
  <2>1. UNCHANGED <<tasks, movers, disk, started>>
    BY <1>1 DEF SendMessage, DeleteQueue, CreateQueue, counters
  <2> QED BY <2>1, CancelFrame
<1>2. CASE SaveCall
  <2>1. UNCHANGED <<tasks, movers, started>>
    BY <1>2 DEF SaveCall, state, counters
  <2>2. disk'.tasks = tasks \/ disk' = disk
    BY <1>2, SaveEffect DEF SaveCall
  <2> QED BY <2>1, <2>2 DEF CancelInv, NotStarted
<1>3. CASE Reset
  <2>1. UNCHANGED <<movers, disk, started>>
    BY <1>3 DEF Reset
  <2>2. \A t \in TaskIds : tasks'[t] = NoTask
    BY <1>3 DEF Reset
  <2>3. Calm(NoTask) /\ NoTask.status = "Absent" /\ NoTask.late = 0
    BY DEF Calm, NoTask
  <2>4. \A t \in TaskIds : Stands(movers'[t], tasks'[t])
    BY <2>1, <2>2, <2>3 DEF CancelInv, Stands
  <2> QED BY <2>1, <2>2, <2>3, <2>4 DEF CancelInv, NotStarted
<1>4. CASE UNCHANGED vars
  BY <1>4, CancelFrame DEF vars
<1> QED BY <1>1, <1>2, <1>3, <1>4, CancelStart, CancelCancel, CancelRestart, CancelMover
           DEF Next, Call

\* The initial state satisfies it.
LEMMA CancelInit == Init => CancelInv
<1> SUFFICES ASSUME Init PROVE CancelInv
  OBVIOUS
<1>1. /\ NoTask.status = "Absent" /\ Calm(NoTask) /\ NoTask.late = 0
      /\ \A t \in TaskIds : tasks[t] = NoTask /\ disk.tasks[t] = NoTask /\ movers[t] = NoMover
  BY DEF Init, Snapshot, NoTask, Calm
<1>2. Stands(NoMover, NoTask)
  BY NoMoverFields DEF Stands, Working
<1> QED BY <1>1, <1>2, NoMoverFields DEF CancelInv, NotStarted

\* Type and cancel invariant hold together: the type of a finished task needs
\* the outcome its mover has decided on.
LEMMA Inductive == Spec => [](TypeOK /\ CancelInv)
<1>1. Init => TypeOK /\ CancelInv
  BY TypeInit, CancelInit
<1>2. TypeOK /\ CancelInv /\ [Next]_vars => TypeOK' /\ CancelInv'
  <2>1. CancelInv => OutcomeDecided
    BY DEF CancelInv, OutcomeDecided, Stands
  <2> QED BY <2>1, TypeStep, CancelStep
<1> QED BY <1>1, <1>2, PTL DEF Spec

\* Every variable always has its type; in particular a finished task has one of
\* the three outcomes finalize_move_task is called with.
THEOREM TypeCorrect == Spec => []TypeOK
  BY Inductive, PTL

\* A cancelled task moves at most one more message, whatever the calls, movers,
\* resets and crashes in between and whether or not saves fail.
THEOREM CancelIsPrompt == Spec => []CancelStopsMover
<1>1. TypeOK /\ CancelInv => CancelStopsMover
  BY DEF CancelInv, Calm, CancelStopsMover
<1> QED BY <1>1, Inductive, PTL

-----------------------------------------------------------------------------
(* No queue is drained twice, as long as the reset endpoint is not used. *)

\* The active tasks among a map of tasks have different source queues.
OneActive(ts) ==
    \A t, u \in TaskIds :
        ts[t].status \in Active /\ ts[u].status \in Active /\ ts[t].source = ts[u].source
            => t = u

\* A working mover has an active task with its source; an active task is driven
\* by this process, so that it blocks another start on its source.
OneInv ==
    /\ \A t \in TaskIds : Working(movers[t]) =>
          tasks[t].status \in Active /\ tasks[t].source = movers[t].source
    /\ \A t \in TaskIds : tasks[t].status \in Active => tasks[t].driver_pid = pid
    /\ OneActive(tasks)
    /\ OneActive(disk.tasks)
    /\ resets = 0

\* What is left to show of a step that changes task t and its mover at most.
LEMMA OneLocal ==
    ASSUME TypeOK, OneInv, NEW t \in TaskIds,
           NEW v \in MessageMoveTask, NEW u \in Mover,
           tasks' = [tasks EXCEPT ![t] = v], movers' = [movers EXCEPT ![t] = u],
           UNCHANGED <<disk, pid, resets>>,
           Working(u) => v.status \in Active /\ v.source = u.source,
           v.status \in Active => v.driver_pid = pid,
           \A s \in TaskIds : s # t /\ v.status \in Active /\ tasks[s].status \in Active
                                  => tasks[s].source # v.source
    PROVE  OneInv'
<1>1. /\ tasks'[t] = v /\ movers'[t] = u
      /\ \A s \in TaskIds : s # t => tasks'[s] = tasks[s] /\ movers'[s] = movers[s]
  BY DEF TypeOK
<1>2. \A s \in TaskIds : Working(movers'[s]) =>
          tasks'[s].status \in Active /\ tasks'[s].source = movers'[s].source
  BY <1>1 DEF OneInv
<1>3. \A s \in TaskIds : tasks'[s].status \in Active => tasks'[s].driver_pid = pid'
  BY <1>1 DEF OneInv
<1>4. OneActive(tasks')
  BY <1>1 DEF OneInv, OneActive
<1> QED BY <1>2, <1>3, <1>4 DEF OneInv

\* The same for a task that was active with this source before the step.
LEMMA OneKeeps ==
    ASSUME TypeOK, OneInv, NEW t \in TaskIds,
           NEW v \in MessageMoveTask, NEW u \in Mover,
           tasks' = [tasks EXCEPT ![t] = v], movers' = [movers EXCEPT ![t] = u],
           UNCHANGED <<disk, pid, resets>>,
           Working(u) => v.status \in Active /\ v.source = u.source,
           v.status \in Active => /\ tasks[t].status \in Active
                                  /\ v.source = tasks[t].source
                                  /\ v.driver_pid = tasks[t].driver_pid
    PROVE  OneInv'
<1>1. v.status \in Active => v.driver_pid = pid
  BY DEF OneInv
<1>2. \A s \in TaskIds : s # t /\ v.status \in Active /\ tasks[s].status \in Active
                             => tasks[s].source # v.source
  BY DEF OneInv, OneActive
<1> QED BY <1>1, <1>2, OneLocal, Zenon

\* The steps of a mover keep the invariant.
LEMMA OneMoverRuns ==
    ASSUME TypeOK, CancelInv, OneInv, NEW t \in TaskIds, RunMessageMoveTask(t)
    PROVE  OneInv'
<1> DEFINE m == movers[t]
           task == tasks[t]
<1>1. task \in MessageMoveTask /\ m \in Mover
  BY DEF TypeOK
<1>2. Working(m) => task.status \in Active /\ task.source = m.source
  BY DEF OneInv
<1>3. tasks = [tasks EXCEPT ![t] = task]
  BY DEF TypeOK
<1>4. CASE CheckCancel(t)
  <2>1. PICK u \in Mover :
           movers' = [movers EXCEPT ![t] = u] /\ u.source = m.source
    BY <1>4, CheckCancelEffect
  <2>2. m.pc = "check" /\ UNCHANGED <<tasks, disk, pid, resets>>
    BY <1>4 DEF CheckCancel, state, counters
  <2>3. task.status \in Active /\ task.source = u.source
    BY <1>2, <2>1, <2>2 DEF Working
  <2> QED BY <1>1, <1>3, <2>1, <2>2, <2>3, OneKeeps, Zenon
<1>5. CASE FindNothing(t)
  <2>1. PICK u \in Mover :
           movers' = [movers EXCEPT ![t] = u] /\ u.source = m.source
    BY <1>5, FindNothingEffect
  <2>2. m.pc = "move" /\ UNCHANGED <<tasks, disk, pid, resets>>
    BY <1>5 DEF FindNothing, state, counters
  <2>3. task.status \in Active /\ task.source = u.source
    BY <1>2, <2>1, <2>2 DEF Working
  <2> QED BY <1>1, <1>3, <2>1, <2>2, <2>3, OneKeeps, Zenon
<1>6. CASE MoveOne(t)
  <2> DEFINE v == CountMove(task)
  <2>1. PICK u \in Mover :
           movers' = [movers EXCEPT ![t] = u] /\ u.source = m.source
    BY <1>6, MoveOneEffect
  <2>2. tasks' = [tasks EXCEPT ![t] = v]
    BY <1>6, MoveOneEffect
  <2>3. m.pc = "move" /\ UNCHANGED <<disk, pid, resets>>
    BY <1>6 DEF MoveOne, counters
  <2>4. /\ v \in MessageMoveTask /\ v.status = task.status
        /\ v.source = task.source /\ v.driver_pid = task.driver_pid
    BY <1>1, CountMoveFields
  <2>5. task.status \in Active /\ task.source = u.source
    BY <1>2, <2>1, <2>3 DEF Working
  <2> HIDE DEF v
  <2>6. v.status \in Active /\ v.source = u.source
    BY <2>4, <2>5
  <2> QED BY <2>1, <2>2, <2>3, <2>4, <2>5, <2>6, OneKeeps, Zenon
<1>7. CASE FinalizeMoveTask(t)
  <2>1. m.pc = "finalize" /\ UNCHANGED <<disk, pid, resets>>
    BY <1>7 DEF FinalizeMoveTask, counters
  <2>2. m.outcome \in Terminal
    BY <2>1 DEF CancelInv, Stands
  <2>3. PICK u \in Mover :
           /\ movers' = [movers EXCEPT ![t] = u] /\ u.outcome = m.outcome
           /\ u.pc \in {"checkpoint", "none"}
    BY <1>7, <2>2, FinalizeEffect
  <2>4. PICK v \in MessageMoveTask :
           tasks' = [tasks EXCEPT ![t] = v] /\ v.status \in Terminal \cup {"Absent"}
    BY <1>7, <2>2, FinalizeEffect
  <2> HIDE DEF m, task
  <2>5. ~Working(u)
    BY <2>2, <2>3 DEF Working, Terminal
  <2>6. v.status \notin Active
    BY <2>4 DEF Terminal, Active
  <2> QED BY <2>1, <2>3, <2>4, <2>5, <2>6, OneKeeps, Zenon
<1>8. CASE Checkpoint(t)
  <2>1. PICK u \in Mover :
           /\ movers' = [movers EXCEPT ![t] = u] /\ u.source = m.source
           /\ u.pc = IF m.outcome = "Moved" THEN "check" ELSE "none"
    BY <1>8, CheckpointEffect
  <2>2. m.pc = "checkpoint" /\ UNCHANGED <<tasks, pid, resets>>
    BY <1>8 DEF Checkpoint, state, counters
  <2>3. disk'.tasks = tasks \/ disk' = disk
    BY <1>8, SaveEffect DEF Checkpoint
  <2>4. Working(u) => Working(m)
    BY <2>1, <2>2 DEF Working
  <2>5. /\ movers'[t] = u
        /\ \A s \in TaskIds : s # t => movers'[s] = movers[s]
    BY <2>1 DEF TypeOK
  <2>6. \A s \in TaskIds : Working(movers'[s]) =>
            tasks[s].status \in Active /\ tasks[s].source = movers'[s].source
    BY <1>2, <2>1, <2>4, <2>5 DEF OneInv
  <2>7. OneActive(disk'.tasks)
    BY <2>3 DEF OneInv
  <2> QED BY <2>2, <2>6, <2>7 DEF OneInv
<1> QED BY <1>4, <1>5, <1>6, <1>7, <1>8 DEF RunMessageMoveTask

\* A start with a rate keeps it: a task that is still active on the same source
\* would have refused the start.
LEMMA OneStart ==
    ASSUME TypeOK, OneInv, NEW q \in Queues, NEW dest \in Dests, StartMessageMoveTask(q, dest)
    PROVE  OneInv'
<1> DEFINE n == started + 1
<1>1. CanStart(q, dest) /\ UNCHANGED <<disk, pid, resets>>
  BY DEF StartMessageMoveTask
<1>2. n \in TaskIds
  BY <1>1, MoveAssumption DEF CanStart, TaskIds, TypeOK
<1>3. PICK v \in MessageMoveTask :
         /\ tasks' = [tasks EXCEPT ![n] = v]
         /\ v.status = "Running" /\ v.source = q /\ v.driver_pid = pid
  BY StartEffect
<1>4. PICK u \in Mover : movers' = [movers EXCEPT ![n] = u] /\ u.source = q
  BY StartEffect
<1> HIDE DEF n
<1>5. v.status \in Active
  BY <1>3 DEF Active
<1>6. ASSUME NEW s \in TaskIds, tasks[s].status \in Active PROVE tasks[s].source # v.source
  <2>1. tasks[s].driver_pid = pid
    BY <1>6 DEF OneInv
  <2> QED BY <1>1, <1>3, <1>6, <2>1 DEF CanStart, task_blocks_new_move
<1> QED BY <1>1, <1>2, <1>3, <1>4, <1>5, <1>6, OneLocal, Zenon

\* A start without one adds a task that is not active, for a mover that is not
\* there.
LEMMA OneStartWithoutRate ==
    ASSUME TypeOK, CancelInv, OneInv, NEW q \in Queues, NEW dest \in Dests,
           StartWithoutRate(q, dest)
    PROVE  OneInv'
<1> DEFINE n == started + 1
           u == movers[n]
<1>1. CanStart(q, dest) /\ UNCHANGED <<disk, pid, resets>>
  BY DEF StartWithoutRate
<1>2. n \in TaskIds /\ n > started
  BY <1>1, MoveAssumption DEF CanStart, TaskIds, TypeOK
<1>3. PICK v \in MessageMoveTask : tasks' = [tasks EXCEPT ![n] = v] /\ v.status = "Completed"
  BY StartWithoutRateEffect
<1>4. movers' = [movers EXCEPT ![n] = u] /\ u \in Mover
  BY <1>2, StartWithoutRateEffect DEF TypeOK
<1>5. ~Working(u)
  BY <1>2 DEF CancelInv, NotStarted, Working
<1>6. v.status \notin Active
  BY <1>3 DEF Active
<1> HIDE DEF n, u
<1> QED BY <1>1, <1>2, <1>3, <1>4, <1>5, <1>6, OneKeeps, Zenon

\* A cancelled task stays active, and still blocks, until its mover finalizes it.
LEMMA OneCancel ==
    ASSUME TypeOK, OneInv, NEW t \in TaskIds, CancelMessageMoveTask(t)
    PROVE  OneInv'
<1>1. tasks[t].status = "Running" /\ UNCHANGED <<disk, pid, resets>>
  BY DEF CancelMessageMoveTask, counters
<1>2. PICK u \in Mover :
         /\ movers' = [movers EXCEPT ![t] = u] /\ u.source = movers[t].source
         /\ u.pc = movers[t].pc /\ u.outcome = movers[t].outcome
  BY CancelEffect
<1>3. PICK v \in MessageMoveTask :
         /\ tasks' = [tasks EXCEPT ![t] = v] /\ v.status = "Cancelling"
         /\ v.source = tasks[t].source /\ v.driver_pid = tasks[t].driver_pid
  BY CancelEffect
<1>4. tasks[t].status \in Active /\ v.status \in Active
  BY <1>1, <1>3 DEF Active
<1>5. Working(u) => v.source = u.source
  BY <1>2, <1>3 DEF OneInv, Working
<1> QED BY <1>1, <1>2, <1>3, <1>4, <1>5, OneKeeps, Zenon

\* A restart resumes at most the tasks that were active in the snapshot.
LEMMA OneRestart ==
    ASSUME TypeOK, OneInv, CrashRestart
    PROVE  OneInv'
<1> DEFINE me == pid + PidStep
<1>1. disk' = disk /\ pid' = me /\ resets' = resets
  BY DEF CrashRestart
<1>2. ASSUME NEW t \in TaskIds
      PROVE  /\ Working(movers'[t]) =>
                   tasks'[t].status \in Active /\ tasks'[t].source = movers'[t].source
             /\ tasks'[t].status \in Active =>
                   /\ tasks'[t].driver_pid = me /\ disk.tasks[t].status \in Active
                   /\ tasks'[t].source = disk.tasks[t].source
  <2> DEFINE task == disk.tasks[t]
             v == ResumedTask(task, me, disk.live)
             u == ResumedMover(task, me, disk.live)
  <2>1. task \in MessageMoveTask /\ me \in Nat /\ disk.live \in SUBSET Queues
    BY MoveAssumption DEF TypeOK
  <2>2. tasks'[t] = v /\ movers'[t] = u
    BY DEF CrashRestart
  <2> HIDE DEF task, me
  <2>3. /\ v.source = task.source
        /\ v.status = task.status \/ v.status = "Failed"
        /\ v.status \in Active => v.driver_pid = me
        /\ u.pc = "none" \/ (u.pc = "check" /\ v.status \in Active /\ u.source = v.source)
    BY <2>1, ResumeEffect
  <2> HIDE DEF v, u
  <2>4. Working(u) => u.pc = "check"
    BY <2>3 DEF Working
  <2>5. v.status \in Active => task.status \in Active
    BY <2>3 DEF Active
  <2> QED BY <2>2, <2>3, <2>4, <2>5 DEF task
<1> HIDE DEF me
<1>3. OneActive(tasks')
  BY <1>2 DEF OneInv, OneActive
<1> QED BY <1>1, <1>2, <1>3 DEF OneInv

\* Every step keeps it when there are no resets.
LEMMA OneStep ==
    ASSUME MaxResets = 0, TypeOK, CancelInv, OneInv, [Next]_vars
    PROVE  OneInv'
<1>1. ASSUME NEW q \in Queues, SendMessage(q) \/ DeleteQueue(q) \/ CreateQueue(q)
      PROVE  OneInv'
  <2>1. UNCHANGED <<tasks, movers, disk, pid, resets>>
    BY <1>1 DEF SendMessage, DeleteQueue, CreateQueue, counters
  <2> QED BY <2>1 DEF OneInv
<1>2. CASE SaveCall
  <2>1. UNCHANGED <<tasks, movers, pid, resets>>
    BY <1>2 DEF SaveCall, state, counters
  <2>2. disk'.tasks = tasks \/ disk' = disk
    BY <1>2, SaveEffect DEF SaveCall
  <2> QED BY <2>1, <2>2 DEF OneInv
<1>3. CASE Reset
  BY <1>3 DEF Reset, OneInv
<1>4. CASE UNCHANGED vars
  BY <1>4 DEF vars, OneInv
<1> QED BY <1>1, <1>2, <1>3, <1>4, OneStart, OneStartWithoutRate, OneCancel, OneRestart,
           OneMoverRuns DEF Next, Call

\* The initial state satisfies it.
LEMMA OneInit == Init => OneInv
<1> SUFFICES ASSUME Init PROVE OneInv
  OBVIOUS
<1>1. \A t \in TaskIds : tasks[t] = NoTask /\ disk.tasks[t] = NoTask /\ movers[t] = NoMover
  BY DEF Init, Snapshot
<1>2. NoTask.status \notin Active
  BY DEF NoTask, Active
<1>3. ~Working(NoMover)
  BY NoMoverFields DEF Working
<1>4. resets = 0
  BY DEF Init
<1> QED BY <1>1, <1>2, <1>3, <1>4 DEF OneInv, OneActive

\* Without resets no two movers drain one queue: neither a start beside a task
\* whose mover is still at work, nor a restart, makes a second one.
THEOREM NeverTwoMovers == MaxResets = 0 => (Spec => []OneMover)
<1> SUFFICES ASSUME MaxResets = 0 PROVE Spec => []OneMover
  OBVIOUS
<1>1. TypeOK /\ CancelInv /\ OneInv /\ [Next]_vars => OneInv'
  BY OneStep
<1>2. OneInv => OneMover
  <2> SUFFICES ASSUME OneInv, NEW src \in Queues, NEW t \in Draining(src), NEW u \in Draining(src)
               PROVE  t = u
    BY DEF OneMover
  <2>1. /\ t \in TaskIds /\ Working(movers[t]) /\ movers[t].source = src
        /\ u \in TaskIds /\ Working(movers[u]) /\ movers[u].source = src
    BY DEF Draining, Working
  <2> QED BY <2>1 DEF OneInv, OneActive
<1> QED BY <1>1, <1>2, OneInit, Inductive, PTL DEF Spec

-----------------------------------------------------------------------------
(* No message is lost or duplicated. *)

\* What a snapshot of the queues holds: sequences of messages.
Queued == [Queues -> Seq(Nat)]

\* A message that is in no queue may be put at the end of one.
LEMMA HoldAppend ==
    ASSUME NEW queued \in Queued, NEW S, HoldExactly(queued, S),
           NEW q \in Queues, NEW x \in Nat, x \notin S
    PROVE  /\ [queued EXCEPT ![q] = Append(@, x)] \in Queued
           /\ HoldExactly([queued EXCEPT ![q] = Append(@, x)], S \cup {x})
<1> DEFINE after == [queued EXCEPT ![q] = Append(@, x)]
           n == Len(queued[q]) + 1
<1>1. n \in Nat /\ n >= 1 /\ queued[q] \in Seq(Nat) /\ DOMAIN queued[q] = 1..(n - 1)
  BY DEF Queued
<1>2. /\ after \in Queued
      /\ DOMAIN after[q] = 1..n /\ after[q][n] = x
      /\ \A i \in DOMAIN queued[q] : i \in DOMAIN after[q] /\ after[q][i] = queued[q][i]
      /\ \A i \in DOMAIN after[q] : i = n \/ i \in DOMAIN queued[q]
      /\ \A p \in Queues : p # q => after[p] = queued[p]
  BY <1>1 DEF Queued
<1> HIDE DEF after, n
<1>3. ASSUME NEW p \in Queues, NEW i \in DOMAIN after[p]
      PROVE  \/ p = q /\ i = n /\ after[p][i] = x
             \/ i \in DOMAIN queued[p] /\ after[p][i] = queued[p][i] /\ after[p][i] \in S
  BY <1>2, <1>3 DEF HoldExactly
<1>4. ASSUME NEW p \in Queues, NEW i \in DOMAIN queued[p]
      PROVE  i \in DOMAIN after[p] /\ after[p][i] = queued[p][i]
  BY <1>2, <1>4
<1>5. HoldExactly(after, S \cup {x})
  <2>1. \A p \in Queues : \A i \in DOMAIN after[p] : after[p][i] \in S \cup {x}
    BY <1>3
  <2>2. \A y \in S \cup {x} : \E p \in Queues : \E i \in DOMAIN after[p] : after[p][i] = y
    <3>1. ASSUME NEW y \in S PROVE \E p \in Queues : \E i \in DOMAIN after[p] : after[p][i] = y
      BY <1>4, <3>1 DEF HoldExactly
    <3>2. n \in DOMAIN after[q] /\ after[q][n] = x
      BY <1>1, <1>2
    <3> QED BY <3>1, <3>2
  <2>3. \A p, r \in Queues : \A i \in DOMAIN after[p], j \in DOMAIN after[r] :
          after[p][i] = after[r][j] => p = r /\ i = j
    BY <1>3 DEF HoldExactly
  <2> QED BY <2>1, <2>2, <2>3 DEF HoldExactly
<1> QED BY <1>2, <1>5 DEF after

\* Taking the first message of a queue takes that message and no other.
LEMMA HoldTail ==
    ASSUME NEW queued \in Queued, NEW S, HoldExactly(queued, S),
           NEW q \in Queues, queued[q] # <<>>
    PROVE  /\ [queued EXCEPT ![q] = Tail(@)] \in Queued
           /\ Head(queued[q]) \in S /\ Head(queued[q]) \in Nat
           /\ HoldExactly([queued EXCEPT ![q] = Tail(@)], S \ {Head(queued[q])})
<1> DEFINE after == [queued EXCEPT ![q] = Tail(@)]
           x == Head(queued[q])
           n == Len(queued[q])
<1>1. /\ n \in Nat /\ queued[q] \in Seq(Nat) /\ DOMAIN queued[q] = 1..n /\ n > 0
      /\ x = queued[q][1]
  BY DEF Queued
<1>2. /\ after \in Queued
      /\ DOMAIN after[q] = 1..(n-1)
      /\ \A i \in DOMAIN after[q] : after[q][i] = queued[q][i + 1]
      /\ \A p \in Queues : p # q => after[p] = queued[p]
  BY <1>1 DEF Queued
<1>3. x \in S /\ x \in Nat /\ 1 \in DOMAIN queued[q]
  BY <1>1 DEF HoldExactly
<1> HIDE DEF after, n, x
<1> DEFINE old(p, i) == IF p = q THEN i + 1 ELSE i
<1>4. ASSUME NEW p \in Queues, NEW i \in DOMAIN after[p]
      PROVE  /\ old(p, i) \in DOMAIN queued[p] /\ after[p][i] = queued[p][old(p, i)]
             /\ ~(p = q /\ old(p, i) = 1)
  <2>1. CASE p = q
    <3>1. i \in 1..(n-1) /\ i + 1 \in 1..n /\ i + 1 # 1
      BY <1>1, <1>2, <1>4, <2>1
    <3> QED BY <1>1, <1>2, <2>1, <3>1
  <2>2. CASE p # q
    BY <1>2, <1>4, <2>2
  <2> QED BY <2>1, <2>2
<1>5. ASSUME NEW p \in Queues, NEW j \in DOMAIN queued[p], ~(p = q /\ j = 1)
      PROVE  \E i \in DOMAIN after[p] : after[p][i] = queued[p][j]
  <2>1. CASE p = q
    <3>1. j - 1 \in DOMAIN after[p] /\ after[p][j - 1] = queued[p][j]
      BY <1>1, <1>2, <1>5, <2>1
    <3> QED BY <3>1
  <2>2. CASE p # q
    BY <1>2, <1>5, <2>2
  <2> QED BY <2>1, <2>2
<1>6. \A p \in Queues : \A i, j \in DOMAIN after[p] : old(p, i) = old(p, j) => i = j
  BY <1>2, <1>1
<1> HIDE DEF old
<1>7. HoldExactly(after, S \ {x})
  <2>1. \A p \in Queues : \A i \in DOMAIN after[p] : after[p][i] \in S \ {x}
    BY <1>4, <1>3, <1>1 DEF HoldExactly
  <2>2. \A y \in S \ {x} : \E p \in Queues : \E i \in DOMAIN after[p] : after[p][i] = y
    <3> SUFFICES ASSUME NEW y \in S \ {x}
                 PROVE  \E p \in Queues : \E i \in DOMAIN after[p] : after[p][i] = y
      OBVIOUS
    <3>1. PICK p \in Queues : \E j \in DOMAIN queued[p] : queued[p][j] = y
      BY DEF HoldExactly
    <3>2. PICK j \in DOMAIN queued[p] : queued[p][j] = y
      BY <3>1
    <3> QED BY <3>2, <1>5, <1>1
  <2>3. \A p, r \in Queues : \A i \in DOMAIN after[p], j \in DOMAIN after[r] :
          after[p][i] = after[r][j] => p = r /\ i = j
    BY <1>4, <1>6 DEF HoldExactly
  <2> QED BY <2>1, <2>2, <2>3 DEF HoldExactly
<1> QED BY <1>2, <1>3, <1>7 DEF after, x

\* Emptying a queue takes its messages and no others.
LEMMA HoldClear ==
    ASSUME NEW queued \in Queued, NEW S, HoldExactly(queued, S), NEW q \in Queues
    PROVE  HoldExactly([queued EXCEPT ![q] = <<>>],
                       S \ {queued[q][i] : i \in DOMAIN queued[q]})
<1> DEFINE after == [queued EXCEPT ![q] = <<>>]
           X == {queued[q][i] : i \in DOMAIN queued[q]}
<1>1. /\ DOMAIN after[q] = {}
      /\ \A p \in Queues : p # q => after[p] = queued[p]
  BY DEF Queued
<1>2. \A y : y \in X <=> \E i \in DOMAIN queued[q] : queued[q][i] = y
  OBVIOUS
<1> HIDE DEF after, X
<1>3. HoldExactly(after, S \ X)
  <2>1. \A p \in Queues : \A i \in DOMAIN after[p] : after[p][i] \in S \ X
    BY <1>1, <1>2 DEF HoldExactly
  <2>2. \A y \in S \ X : \E p \in Queues : \E i \in DOMAIN after[p] : after[p][i] = y
    BY <1>1, <1>2 DEF HoldExactly
  <2>3. \A p, r \in Queues : \A i \in DOMAIN after[p], j \in DOMAIN after[r] :
          after[p][i] = after[r][j] => p = r /\ i = j
    BY <1>1 DEF HoldExactly
  <2> QED BY <2>1, <2>2, <2>3 DEF HoldExactly
<1> QED BY <1>3 DEF after, X

\* Sharing out the messages of a queue, each to the queue `target` names, puts
\* each of them in one place.
LEMMA HoldShare ==
    ASSUME NEW queued \in Queued, NEW S, HoldExactly(queued, S), NEW src \in Queues,
           NEW target \in [DOMAIN queued[src] -> Queues], NEW after \in Queued,
           \A q \in Queues : after[q] =
              (IF q = src THEN <<>> ELSE queued[q])
                \o Keep(queued[src], {i \in DOMAIN queued[src] : target[i] = q})
    PROVE  HoldExactly(after, S)
<1> DEFINE W == queued[src]
           I(q) == {i \in DOMAIN W : target[i] = q}
           base(q) == IF q = src THEN <<>> ELSE queued[q]
           share(q) == Keep(W, I(q))
<1>1. W \in Seq(Nat)
  BY DEF Queued
<1>2. ASSUME NEW q \in Queues
      PROVE  /\ base(q) \in Seq(Nat) /\ share(q) \in Seq(Nat) /\ after[q] = base(q) \o share(q)
             /\ \A i \in DOMAIN base(q) : q # src /\ i \in DOMAIN queued[q] /\ base(q)[i] = queued[q][i]
             /\ q # src => base(q) = queued[q]
  <2>1. share(q) \in Seq(Nat)
    BY <1>1, KeepType
  <2>2. base(q) \in Seq(Nat)
    BY DEF Queued
  <2>3. after[q] = base(q) \o share(q)
    OBVIOUS
  <2>4. \A i \in DOMAIN base(q) : q # src /\ i \in DOMAIN queued[q] /\ base(q)[i] = queued[q][i]
    OBVIOUS
  <2> QED BY <2>1, <2>2, <2>3, <2>4
<1>3. ASSUME NEW q \in Queues
      PROVE  \E f : Lists(share(q), W, I(q), f)
  <2>1. I(q) \in SUBSET DOMAIN W
    OBVIOUS
  <2> HIDE DEF I, W
  <2> QED BY <1>1, <2>1, KeepLists
<1>4. \A q \in Queues : I(q) = {i \in DOMAIN W : target[i] = q}
  OBVIOUS
<1> HIDE DEF I, base, share
\* Where an element of a queue came from.
<1>5. ASSUME NEW q \in Queues, NEW k \in DOMAIN after[q]
      PROVE  \/ k \in DOMAIN base(q) /\ q # src /\ k \in DOMAIN queued[q] /\ after[q][k] = queued[q][k]
             \/ /\ k \notin DOMAIN base(q) /\ k - Len(base(q)) \in DOMAIN share(q)
                /\ after[q][k] = share(q)[k - Len(base(q))]
  <2>1. base(q) \in Seq(Nat) /\ share(q) \in Seq(Nat) /\ after[q] = base(q) \o share(q)
    BY <1>2
  <2>2. \/ k \in DOMAIN base(q) /\ after[q][k] = base(q)[k]
        \/ /\ k \notin DOMAIN base(q) /\ k - Len(base(q)) \in DOMAIN share(q)
           /\ after[q][k] = share(q)[k - Len(base(q))]
    BY <1>5, <2>1
  <2> QED BY <1>2, <2>2
<1>6. ASSUME NEW q \in Queues, NEW k \in DOMAIN share(q)
      PROVE  \E i \in I(q) : share(q)[k] = W[i]
  BY <1>3, <1>6 DEF Lists
<1>7. ASSUME NEW q \in Queues, NEW k \in DOMAIN share(q), NEW l \in DOMAIN share(q),
             share(q)[k] = share(q)[l]
      PROVE  k = l
  <2>1. PICK f : Lists(share(q), W, I(q), f)
    BY <1>3
  <2>2. f[k] \in DOMAIN W /\ f[l] \in DOMAIN W /\ W[f[k]] = W[f[l]]
    BY <2>1, <1>4, <1>7 DEF Lists
  <2>3. f[k] = f[l]
    BY <2>2 DEF HoldExactly
  <2> QED BY <2>1, <2>3 DEF Lists
<1>8. \A q \in Queues : \A k \in DOMAIN after[q] : after[q][k] \in S
  <2> SUFFICES ASSUME NEW q \in Queues, NEW k \in DOMAIN after[q] PROVE after[q][k] \in S
    OBVIOUS
  <2>1. \A i \in I(q) : W[i] \in S
    BY <1>4 DEF HoldExactly
  <2> QED BY <1>5, <1>6, <2>1 DEF HoldExactly
<1>9. ASSUME NEW x \in S
      PROVE  \E q \in Queues : \E k \in DOMAIN after[q] : after[q][k] = x
  <2>1. PICK p \in Queues : \E j \in DOMAIN queued[p] : queued[p][j] = x
    BY DEF HoldExactly
  <2>2. PICK j \in DOMAIN queued[p] : queued[p][j] = x
    BY <2>1
  <2>3. CASE p # src
    <3>1. base(p) = queued[p] /\ share(p) \in Seq(Nat) /\ after[p] = base(p) \o share(p)
          /\ base(p) \in Seq(Nat)
      BY <1>2, <2>3
    <3>2. j \in DOMAIN after[p] /\ after[p][j] = x
      BY <3>1, <2>2, ConcatIndices
    <3> QED BY <3>2
  <2>4. CASE p = src
    <3> DEFINE q == target[j]
    <3>1. q \in Queues /\ j \in I(q)
      BY <1>4, <2>4
    <3> HIDE DEF q
    <3>2. PICK k \in DOMAIN share(q) : share(q)[k] = W[j]
      BY <1>3, <3>1 DEF Lists
    <3>3. share(q) \in Seq(Nat) /\ after[q] = base(q) \o share(q) /\ base(q) \in Seq(Nat)
      BY <1>2, <3>1
    <3>4. Len(base(q)) + k \in DOMAIN after[q] /\ after[q][Len(base(q)) + k] = share(q)[k]
      BY <3>2, <3>3, ConcatIndices
    <3> QED BY <3>1, <3>2, <3>4, <2>2, <2>4
  <2> QED BY <2>3, <2>4
<1>10. ASSUME NEW p \in Queues, NEW q \in Queues,
              NEW i \in DOMAIN after[p], NEW j \in DOMAIN after[q],
              after[p][i] = after[q][j]
       PROVE  p = q /\ i = j
  <2> DEFINE Old(r, k) == k \in DOMAIN base(r) /\ r # src /\ k \in DOMAIN queued[r] /\ after[r][k] = queued[r][k]
             New(r, k) == /\ k \notin DOMAIN base(r) /\ k - Len(base(r)) \in DOMAIN share(r)
                          /\ after[r][k] = share(r)[k - Len(base(r))]
  <2>1. (Old(p, i) \/ New(p, i)) /\ (Old(q, j) \/ New(q, j))
    BY <1>5
  <2>2. ASSUME NEW r \in Queues, NEW k, New(r, k)
        PROVE  \E m \in DOMAIN W : target[m] = r /\ after[r][k] = W[m]
    BY <1>4, <1>6, <2>2
  <2>a. \A r, u \in Queues : \A k \in DOMAIN queued[r], l \in DOMAIN queued[u] :
           queued[r][k] = queued[u][l] => r = u /\ k = l
    BY DEF HoldExactly
  <2>b. ASSUME NEW r \in Queues, NEW k, New(r, k), NEW u \in Queues, NEW l, Old(u, l),
               after[r][k] = after[u][l]
        PROVE  FALSE
    <3>1. PICK m \in DOMAIN W : after[r][k] = W[m]
      <4>1. New(r, k)
        BY <2>b
      <4> HIDE DEF New, Old
      <4> QED BY <2>2, <4>1
    <3>2. u # src /\ l \in DOMAIN queued[u] /\ W[m] = queued[u][l]
      BY <2>b, <3>1
    <3> QED BY <2>a, <3>2
  <2>3. CASE Old(p, i) /\ Old(q, j)
    <3>1. i \in DOMAIN queued[p] /\ j \in DOMAIN queued[q] /\ queued[p][i] = queued[q][j]
      BY <1>10, <2>3
    <3> QED BY <2>a, <3>1
  <2>4. CASE Old(p, i) /\ New(q, j)
    BY <1>10, <2>b, <2>4
  <2>5. CASE New(p, i) /\ Old(q, j)
    BY <1>10, <2>b, <2>5
  <2>6. CASE New(p, i) /\ New(q, j)
    <3>1. p = q
      <4>1. PICK m \in DOMAIN W : target[m] = p /\ after[p][i] = W[m]
        BY <2>2, <2>6
      <4>2. PICK n \in DOMAIN W : target[n] = q /\ after[q][j] = W[n]
        BY <2>2, <2>6
      <4>3. queued[src][m] = queued[src][n]
        BY <1>10, <4>1, <4>2
      <4>4. m = n
        BY <2>a, <4>3
      <4> QED BY <4>1, <4>2, <4>4
    <3>2. i - Len(base(p)) = j - Len(base(p))
      BY <1>7, <1>10, <2>6, <3>1
    <3>3. i \in Int /\ j \in Int /\ Len(base(p)) \in Int
      <4>1. after[p] \in Seq(Nat) /\ base(p) \in Seq(Nat)
        BY <1>2 DEF Queued
      <4> QED BY <4>1, <3>1
    <3> QED BY <3>1, <3>2, <3>3
  <2> HIDE DEF Old, New
  <2> QED BY <2>1, <2>3, <2>4, <2>5, <2>6
<1> QED BY <1>8, <1>9, <1>10 DEF HoldExactly

\* Going around a nonempty set of queues always names one of them.
LEMMA RoundRobinTarget ==
    ASSUME NEW targets \in SUBSET Queues, targets # {}, NEW k \in Nat
    PROVE  RoundRobin(targets, k) \in targets
<1> DEFINE key == [q \in targets |-> UrlOrder[q]]
           n == Cardinality(targets)
           m == (k % n) + 1
<1>1. IsFiniteSet(targets)
  BY MoveAssumption, FS_Subset
<1>2. n \in Nat /\ n # 0
  BY <1>1, FS_CardinalityType, FS_EmptySet
<1>3. IsKey(key, targets)
  <2>1. \A q \in targets : key[q] \in Int
    BY MoveAssumption
  <2>2. \A p, q \in targets : key[p] = key[q] => p = q
    BY MoveAssumption
  <2> HIDE DEF key
  <2>3. DOMAIN key = targets
    BY DEF key
  <2> QED BY <1>1, <2>1, <2>2, <2>3 DEF IsKey
<1>4. m \in 1..n
  BY <1>2
<1>5. RoundRobin(targets, k) = Nth(key, m)
  BY DEF RoundRobin
<1> HIDE DEF key, n, m
<1>6. Nth(key, m) \in targets
  BY <1>3, <1>4, NthRank DEF n
<1> QED BY <1>5, <1>6

\* What the queues hold, in memory and on disk, are messages that were sent.
HoldInv ==
    /\ Conserved
    /\ placed \subseteq 1..sent /\ disk.placed \subseteq 1..sent

\* A step that changes neither the queues nor the snapshot keeps it.
LEMMA HoldFrame ==
    ASSUME HoldInv, UNCHANGED <<messages, placed, disk, sent>>
    PROVE  HoldInv'
  BY DEF HoldInv, Conserved, HoldExactly

\* A step that only saves keeps it: what is saved is what is in memory.
LEMMA HoldSave ==
    ASSUME HoldInv, Save, UNCHANGED <<messages, placed, sent>>
    PROVE  HoldInv'
<1>1. \/ disk'.messages = messages /\ disk'.placed = placed
      \/ disk' = disk
  BY DEF Save, Snapshot
<1>2. HoldExactly(disk'.messages, disk'.placed) /\ disk'.placed \subseteq 1..sent
  BY <1>1 DEF HoldInv, Conserved
<1> QED BY <1>2 DEF HoldInv, Conserved, HoldExactly

\* Sending a message: it is in no queue yet.
LEMMA HoldSend ==
    ASSUME TypeOK, HoldInv, NEW q \in Queues, SendMessage(q)
    PROVE  HoldInv'
<1> DEFINE x == sent + 1
<1>1. x \in Nat /\ x \notin placed
  BY DEF HoldInv, TypeOK
<1>2. /\ messages' = [messages EXCEPT ![q] = Append(@, x)] /\ placed' = placed \cup {x}
      /\ sent' = x /\ disk' = disk
  BY DEF SendMessage
<1>3. messages \in Queued /\ HoldExactly(messages, placed)
  BY DEF TypeOK, Queued, HoldInv, Conserved
<1>4. placed' \subseteq 1..sent' /\ disk'.placed \subseteq 1..sent'
  BY <1>2 DEF HoldInv, TypeOK
<1> HIDE DEF x
<1>5. HoldExactly(messages', placed')
  BY <1>1, <1>2, <1>3, HoldAppend
<1>6. HoldExactly(disk'.messages, disk'.placed)
  BY <1>2 DEF HoldInv, Conserved
<1> QED BY <1>4, <1>5, <1>6 DEF HoldInv, Conserved, HoldExactly

\* Deleting a queue.
LEMMA HoldDelete ==
    ASSUME TypeOK, HoldInv, NEW q \in Queues, DeleteQueue(q)
    PROVE  HoldInv'
<1> DEFINE X == {messages[q][i] : i \in DOMAIN messages[q]}
<1>1. /\ messages' = [messages EXCEPT ![q] = <<>>] /\ placed' = placed \ X
      /\ sent' = sent /\ disk' = disk
  BY DEF DeleteQueue
<1>2. messages \in Queued /\ HoldExactly(messages, placed)
  BY DEF TypeOK, Queued, HoldInv, Conserved
<1>3. HoldExactly(messages', placed')
  BY <1>1, <1>2, HoldClear
<1> HIDE DEF X
<1>4. placed' \subseteq 1..sent' /\ disk'.placed \subseteq 1..sent'
  BY <1>1, Zenon DEF HoldInv
<1>5. HoldExactly(disk'.messages, disk'.placed)
  BY <1>1 DEF HoldInv, Conserved
<1> QED BY <1>3, <1>4, <1>5 DEF HoldInv, Conserved, HoldExactly

\* A mover's move takes a message from one queue and puts it in another, or at
\* the end of the same one.
LEMMA HoldMove ==
    ASSUME TypeOK, HoldInv, NEW t \in TaskIds, MoveOne(t)
    PROVE  HoldInv'
<1> DEFINE src == movers[t].source
           dst == TargetOf(movers[t])
           popped == [messages EXCEPT ![src] = Tail(@)]
           x == Head(messages[src])
           S == placed \ {x}
<1>1. /\ src \in live /\ dst \in live /\ messages[src] # <<>>
      /\ messages' = [popped EXCEPT ![dst] = Append(@, x)]
      /\ UNCHANGED <<placed, disk, sent>>
  BY DEF MoveOne, counters
<1> HIDE DEF src, dst
<1>2. src \in Queues /\ dst \in Queues /\ messages \in Queued /\ HoldExactly(messages, placed)
  BY <1>1 DEF TypeOK, Queued, HoldInv, Conserved
<1>3. popped \in Queued /\ x \in placed /\ x \in Nat /\ HoldExactly(popped, S)
  BY <1>1, <1>2, HoldTail
<1>4. x \notin S /\ S \cup {x} = placed
  BY <1>3
<1> HIDE DEF popped, x, S
<1>5. HoldExactly(messages', S \cup {x})
  BY <1>1, <1>2, <1>3, <1>4, HoldAppend
<1>6. HoldExactly(messages', placed')
  BY <1>1, <1>4, <1>5
<1> QED BY <1>1, <1>6 DEF HoldInv, Conserved, HoldExactly

\* A start without a rate shares the waiting messages out.
LEMMA HoldStartWithoutRate ==
    ASSUME TypeOK, HoldInv, NEW q \in Queues, NEW dest \in Dests, StartWithoutRate(q, dest),
           TypeOK'
    PROVE  HoldInv'
<1> DEFINE Target(i) == IF dest # NoQueue THEN dest
                        ELSE RoundRobin(DlqSources(q, live), i - 1)
           target == [i \in DOMAIN messages[q] |-> Target(i)]
           D == DlqSources(q, live)
<1>1. D \in SUBSET Queues /\ D # {}
  BY DEF StartWithoutRate, CanStart, DlqSources, TypeOK
<1>2. \A i \in DOMAIN messages[q] : i - 1 \in Nat
  BY DEF TypeOK
<1>3. dest # NoQueue => dest \in Queues
  BY DEF StartWithoutRate, CanStart, TypeOK
<1>4. ASSUME NEW i \in DOMAIN messages[q] PROVE Target(i) \in Queues
  <2>1. RoundRobin(D, i - 1) \in D
    <3> HIDE DEF D
    <3> QED BY <1>1, <1>2, RoundRobinTarget
  <2> QED BY <1>1, <1>3, <2>1
<1>5. target \in [DOMAIN messages[q] -> Queues]
  BY <1>4
<1>6. messages' = [r \in Queues |-> (IF r = q THEN <<>> ELSE messages[r])
                     \o Keep(messages[q], {i \in DOMAIN messages[q] : Target(i) = r})]
  BY DEF StartWithoutRate
<1>7. UNCHANGED <<placed, disk, sent>>
  BY DEF StartWithoutRate
<1>8. \A r : {i \in DOMAIN messages[q] : Target(i) = r} = {i \in DOMAIN messages[q] : target[i] = r}
  <2> HIDE DEF Target
  <2> QED OBVIOUS
<1> HIDE DEF target, Target
<1>9. \A r \in Queues : messages'[r] = (IF r = q THEN <<>> ELSE messages[r])
                     \o Keep(messages[q], {i \in DOMAIN messages[q] : target[i] = r})
  BY <1>6, <1>8, Zenon
<1>10. messages \in Queued /\ messages' \in Queued /\ HoldExactly(messages, placed)
  BY DEF TypeOK, Queued, HoldInv, Conserved
<1>11. HoldExactly(messages', placed)
  BY <1>5, <1>9, <1>10, HoldShare
<1> QED BY <1>7, <1>11 DEF HoldInv, Conserved, HoldExactly

\* Every step keeps it.
LEMMA HoldStep == TypeOK /\ TypeOK' /\ HoldInv /\ [Next]_vars => HoldInv'
<1> SUFFICES ASSUME TypeOK, TypeOK', HoldInv, [Next]_vars PROVE HoldInv'
  OBVIOUS
<1>1. ASSUME NEW q \in Queues, CreateQueue(q) PROVE HoldInv'
  BY <1>1, HoldFrame DEF CreateQueue, counters
<1>2. ASSUME NEW q \in Queues, NEW dest \in Dests, StartMessageMoveTask(q, dest) PROVE HoldInv'
  BY <1>2, HoldFrame DEF StartMessageMoveTask
<1>3. ASSUME NEW t \in TaskIds, CancelMessageMoveTask(t) PROVE HoldInv'
  BY <1>3, HoldFrame DEF CancelMessageMoveTask, counters
<1>4. CASE SaveCall
  BY <1>4, HoldSave DEF SaveCall, state, counters
<1>5. CASE Reset
  <2>1. /\ messages' = [q \in Queues |-> <<>>] /\ placed' = {} /\ disk' = disk /\ sent' = sent
    BY <1>5 DEF Reset
  <2>2. HoldExactly(messages', placed')
    BY <2>1 DEF HoldExactly
  <2> QED BY <2>1, <2>2 DEF HoldInv, Conserved, HoldExactly
<1>6. CASE CrashRestart
  <2>1. messages' = disk.messages /\ placed' = disk.placed /\ disk' = disk /\ sent' = sent
    BY <1>6 DEF CrashRestart
  <2> QED BY <2>1 DEF HoldInv, Conserved, HoldExactly
<1>7. ASSUME NEW t \in TaskIds, RunMessageMoveTask(t) PROVE HoldInv'
  <2>1. CASE CheckCancel(t)
    BY <2>1, HoldFrame DEF CheckCancel, state, counters
  <2>2. CASE FindNothing(t)
    BY <2>2, HoldFrame DEF FindNothing, state, counters
  <2>3. CASE FinalizeMoveTask(t)
    BY <2>3, HoldFrame DEF FinalizeMoveTask, counters
  <2>4. CASE Checkpoint(t)
    BY <2>4, HoldSave DEF Checkpoint, state, counters
  <2> QED BY <1>7, <2>1, <2>2, <2>3, <2>4, HoldMove DEF RunMessageMoveTask
<1>8. CASE UNCHANGED vars
  BY <1>8, HoldFrame DEF vars
<1> QED BY <1>1, <1>2, <1>3, <1>4, <1>5, <1>6, <1>7, <1>8,
           HoldSend, HoldDelete, HoldStartWithoutRate DEF Next, Call

\* Movers, calls, resets, crashes and restarts neither lose nor duplicate a
\* message, in memory or in any snapshot: each message that was sent to a queue
\* that has not been deleted since is in exactly one place.
THEOREM MovesConserve == Spec => []Conserved
<1>1. Init => HoldInv
  <2> SUFFICES ASSUME Init PROVE HoldInv
    OBVIOUS
  <2>1. \A q \in Queues : messages[q] = <<>> /\ disk.messages[q] = <<>>
    BY DEF Init, Snapshot
  <2>2. placed = {} /\ disk.placed = {}
    BY DEF Init, Snapshot
  <2> QED BY <2>1, <2>2 DEF HoldInv, Conserved, HoldExactly
<1>2. HoldInv => Conserved
  BY DEF HoldInv
<1> QED BY <1>1, <1>2, HoldStep, Inductive, PTL DEF Spec
=============================================================================
