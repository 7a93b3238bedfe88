---------------------------- MODULE SqsMoveTask ----------------------------
(***************************************************************************)
(* Message-move tasks: redriving a dead-letter queue.                       *)
(*                                                                          *)
(* StartMessageMoveTask with a rate records a task and spawns a mover that  *)
(* takes the state lock once per message, checkpoints the snapshot and      *)
(* sleeps.  Movers race CancelMessageMoveTask, other calls that change the  *)
(* queues, the reset endpoint and crashes; on a restart the tasks come back *)
(* from the snapshot and resume_message_move_tasks spawns movers for the    *)
(* ones an earlier process left behind.                                     *)
(*                                                                          *)
(* A message is a number: the order in which the messages were sent.  A     *)
(* save is one step here: it runs under snapshot_lock, and a crash between  *)
(* its clone and its rename is a crash before the save (the steps of a save *)
(* are in SnapshotPersistence).                                             *)
(***************************************************************************)
EXTENDS Deque

CONSTANTS
    Queues,       \* queue URLs
    NoQueue,      \* no redrive target, no explicit destination
    Redrive,      \* the redrive policy of each queue
    UrlOrder,     \* the order of `queues`, a BTreeMap keyed by URL
    Dests,        \* DestinationArn of a move, or NoQueue
    PidStep,      \* a restart's change of process id: 0 in a container
    SavesMayFail, \* whether a snapshot write may fail
    MaxCalls,     \* bound: calls at once between their change and their save
    MaxMessages,  \* bound: messages sent
    MaxTasks,     \* bound: move tasks started
    MaxCrashes,   \* bound: crashes
    MaxDeletes,   \* bound: queues deleted
    MaxResets     \* bound: uses of the reset endpoint

ASSUME MoveAssumption ==
    /\ NoQueue \notin Queues
    /\ IsFiniteSet(Queues)
    /\ Redrive \in [Queues -> Queues \cup {NoQueue}]
    /\ UrlOrder \in [Queues -> Nat]
    /\ \A p, q \in Queues : UrlOrder[p] = UrlOrder[q] => p = q
    /\ Dests \subseteq Queues \cup {NoQueue}
    /\ PidStep \in Nat /\ SavesMayFail \in BOOLEAN
    /\ MaxMessages \in Nat /\ MaxTasks \in Nat /\ MaxCrashes \in Nat
    /\ MaxDeletes \in Nat /\ MaxResets \in Nat /\ MaxCalls \in Nat

TaskIds == 1..MaxTasks
Active == {"Running", "Cancelling"}
Terminal == {"Completed", "Cancelled", "Failed"}

\* `late` is a history field: the moves made after the task was cancelled.
MessageMoveTask ==
    [status : Active \cup Terminal \cup {"Absent"},
     source : Queues \cup {NoQueue}, destination : Queues \cup {NoQueue},
     messages_moved : Nat, driver_pid : Nat, late : Nat]

NoTask ==
    [status |-> "Absent", source |-> NoQueue, destination |-> NoQueue,
     messages_moved |-> 0, driver_pid |-> 0, late |-> 0]

\* A mover: its next step, what it found, whether a checkpoint follows its
\* finalize, the cancel flag it shares with the task, and its arguments.
Mover ==
    [pc : {"none", "check", "move", "finalize", "checkpoint"},
     outcome : Terminal \cup {"Moved"}, save : BOOLEAN, cancel_flag : BOOLEAN,
     source : Queues \cup {NoQueue}, destination : Queues \cup {NoQueue},
     targets : SUBSET Queues, idx : Nat]

Spawn(src, dest, targets, cancel) ==
    [pc |-> "check", outcome |-> "Moved", save |-> FALSE, cancel_flag |-> cancel,
     source |-> src, destination |-> dest, targets |-> targets, idx |-> 0]

\* Changes of a task and of a mover.
WithStatus(task, status) == [task EXCEPT !.status = status]
WithDriver(task, me) == [task EXCEPT !.driver_pid = me]
Goto(m, pc) == [m EXCEPT !.pc = pc]
Decided(m, outcome, save) ==
    [m EXCEPT !.pc = "finalize", !.outcome = outcome, !.save = save]
Flagged(m) == [m EXCEPT !.cancel_flag = TRUE]

NoMover == [Spawn(NoQueue, NoQueue, {}, FALSE) EXCEPT !.pc = "none"]

VARIABLES
    live,      \* the queues that exist
    messages,  \* their waiting messages
    tasks,     \* message_move_tasks
    placed,    \* history: the messages that must be in some queue
    disk,      \* the snapshot on disk: these four
    movers,    \* the movers of this process
    pid,       \* its process id
    unsaved,   \* calls that have changed the state and have yet to save it
    sent, started, crashes, deletes, resets   \* counters

state == <<live, messages, tasks, placed>>
counters == <<sent, started, crashes, deletes, resets>>
vars == <<live, messages, tasks, placed, disk, movers, pid, unsaved,
          sent, started, crashes, deletes, resets>>

Snapshot == [live |-> live, messages |-> messages, tasks |-> tasks, placed |-> placed]

Init ==
    /\ live = Queues
    /\ messages = [q \in Queues |-> <<>>]
    /\ tasks = [t \in TaskIds |-> NoTask]
    /\ placed = {}
    /\ disk = Snapshot
    /\ movers = [t \in TaskIds |-> NoMover]
    /\ pid = 1 /\ unsaved = 0
    /\ sent = 0 /\ started = 0 /\ crashes = 0 /\ deletes = 0 /\ resets = 0

\* A snapshot is written, or the write fails and is only logged.
Save == disk' = Snapshot \/ (SavesMayFail /\ disk' = disk)

\* The queues whose redrive policy names src.
DlqSources(src, existing) == {q \in existing : Redrive[q] = src}

\* The k-th of a set of queues, from 0, in URL order and around.
RoundRobin(targets, k) ==
    Nth([q \in targets |-> UrlOrder[q]], (k % Cardinality(targets)) + 1)

-----------------------------------------------------------------------------
(* API calls.  Each saves afterwards: see SaveCall. *)

BeginCall == unsaved < MaxCalls /\ unsaved' = unsaved + 1

\* Mutant: a task being cancelled does not count.
BlocksWhileRunning(task, src) ==
    task.source = src /\ task.status = "Running" /\ task.driver_pid = pid

task_blocks_new_move(task, src) ==
    task.source = src /\ task.status \in Active /\ task.driver_pid = pid

CanStart(src, dest) ==
    /\ src \in live
    /\ DlqSources(src, live) # {}
    /\ dest \in Dests \cap (live \cup {NoQueue})
    /\ \A t \in TaskIds : ~task_blocks_new_move(tasks[t], src)
    /\ started < MaxTasks

NewTask(src, dest, status, moved) ==
    [status |-> status, source |-> src, destination |-> dest,
     messages_moved |-> moved, driver_pid |-> pid, late |-> 0]

\* With a rate: the task is recorded and its mover spawned.
StartMessageMoveTask(src, dest) ==
    /\ CanStart(src, dest)
    /\ started' = started + 1
    /\ tasks' = [tasks EXCEPT ![started + 1] = NewTask(src, dest, "Running", 0)]
    /\ movers' = [movers EXCEPT ![started + 1] =
                     Spawn(src, dest, DlqSources(src, live), FALSE)]
    /\ BeginCall
    /\ UNCHANGED <<live, messages, placed, disk, pid, sent, crashes, deletes, resets>>

\* Without one: everything moves at once and the task is recorded as completed.
StartWithoutRate(src, dest) ==
    LET waiting == messages[src]
        Target(i) == IF dest # NoQueue THEN dest
                     ELSE RoundRobin(DlqSources(src, live), i - 1)
        Share(q) == Keep(waiting, {i \in DOMAIN waiting : Target(i) = q})
    IN  /\ CanStart(src, dest)
        /\ started' = started + 1
        /\ tasks' = [tasks EXCEPT ![started + 1] =
                        NewTask(src, dest, "Completed", Len(waiting))]
        /\ messages' = [q \in Queues |->
                           (IF q = src THEN <<>> ELSE messages[q]) \o Share(q)]
        /\ BeginCall
        /\ UNCHANGED <<live, placed, disk, movers, pid, sent, crashes, deletes, resets>>

\* The flag is the mover's only if the mover is of this process.
CancelMessageMoveTask(t) ==
    /\ tasks[t].status = "Running"
    /\ tasks' = [tasks EXCEPT ![t] = WithStatus(@, "Cancelling")]
    /\ movers' = [movers EXCEPT ![t] = Flagged(@)]
    /\ BeginCall
    /\ UNCHANGED <<live, messages, placed, disk, pid, counters>>

SendMessage(q) ==
    /\ q \in live
    /\ sent < MaxMessages
    /\ sent' = sent + 1
    /\ messages' = [messages EXCEPT ![q] = Append(@, sent + 1)]
    /\ placed' = placed \cup {sent + 1}
    /\ BeginCall
    /\ UNCHANGED <<live, tasks, disk, movers, pid, started, crashes, deletes, resets>>

DeleteQueue(q) ==
    /\ q \in live
    /\ deletes < MaxDeletes
    /\ deletes' = deletes + 1
    /\ live' = live \ {q}
    /\ messages' = [messages EXCEPT ![q] = <<>>]
    /\ placed' = placed \ {messages[q][i] : i \in DOMAIN messages[q]}
    /\ BeginCall
    /\ UNCHANGED <<tasks, disk, movers, pid, sent, started, crashes, resets>>

CreateQueue(q) ==
    /\ q \in Queues \ live
    /\ Redrive[q] \in live \cup {NoQueue}
    /\ live' = live \cup {q}
    /\ BeginCall
    /\ UNCHANGED <<messages, tasks, placed, disk, movers, pid, counters>>

\* A call saves the state, as it is by then, before it is answered.
SaveCall ==
    /\ unsaved > 0
    /\ Save
    /\ unsaved' = unsaved - 1
    /\ UNCHANGED <<state, movers, pid, counters>>

\* The reset endpoint: the state is emptied and saved; movers are not told.
Reset ==
    /\ resets < MaxResets
    /\ resets' = resets + 1
    /\ live' = {}
    /\ messages' = [q \in Queues |-> <<>>]
    /\ tasks' = [t \in TaskIds |-> NoTask]
    /\ placed' = {}
    /\ BeginCall
    /\ UNCHANGED <<disk, movers, pid, sent, started, crashes, deletes>>

-----------------------------------------------------------------------------
(* The mover: run_message_move_task. *)

\* Mutant: the outcome of the last iteration is kept.
CheckCancelKeepsOutcome(t) ==
    /\ movers[t].pc = "check"
    /\ movers' = [movers EXCEPT ![t] =
                     Goto(@, IF @.cancel_flag THEN "finalize" ELSE "move")]
    /\ UNCHANGED <<state, disk, pid, unsaved, counters>>

\* The top of the loop reads the cancel flag, without the lock.
CheckCancel(t) ==
    /\ movers[t].pc = "check"
    /\ movers' = [movers EXCEPT ![t] =
          IF @.cancel_flag THEN Decided(@, "Cancelled", FALSE) ELSE Goto(@, "move")]
    /\ UNCHANGED <<state, disk, pid, unsaved, counters>>

\* The queue the next message goes to, if there is one.
TargetOf(m) ==
    IF m.destination # NoQueue THEN m.destination
    ELSE IF m.targets = {} THEN NoQueue
    ELSE RoundRobin(m.targets, m.idx)

\* Under the lock, nothing can be moved: the source queue or the target is gone,
\* or the source is empty.  Only the first goes without a checkpoint.
FindNothing(t) ==
    LET m == movers[t]
        outcome == IF m.source \in live /\ TargetOf(m) \in live THEN "Completed" ELSE "Failed"
    IN  /\ m.pc = "move"
        /\ ~(m.source \in live /\ TargetOf(m) \in live /\ messages[m.source] # <<>>)
        /\ movers' = [movers EXCEPT ![t] = Decided(@, outcome, m.source \in live)]
        /\ UNCHANGED <<state, disk, pid, unsaved, counters>>

\* The task is counted up if it is still there.
CountMove(task) ==
    IF task.status = "Absent" THEN task
    ELSE [task EXCEPT !.messages_moved = @ + 1,
                      !.late = IF task.status = "Running" THEN @ ELSE @ + 1]

\* The mover has moved a message, and the next one goes to the next target.
Advanced(m) ==
    [m EXCEPT !.pc = "checkpoint", !.outcome = "Moved",
              !.idx = IF m.destination = NoQueue THEN @ + 1 ELSE @]

\* Mutants: the message is copied; it is popped before the target is looked up.
MoveOneCopies(t) ==
    LET m == movers[t]
    IN  /\ m.pc = "move"
        /\ m.source \in live /\ TargetOf(m) \in live /\ messages[m.source] # <<>>
        /\ messages' = [messages EXCEPT ![TargetOf(m)] = Append(@, Head(messages[m.source]))]
        /\ tasks' = [tasks EXCEPT ![t] = CountMove(@)]
        /\ movers' = [movers EXCEPT ![t] = Advanced(@)]
        /\ UNCHANGED <<live, placed, disk, pid, unsaved, counters>>

MoveOnePopsFirst(t) ==
    LET m == movers[t]
    IN  /\ m.pc = "move"
        /\ m.source \in live /\ messages[m.source] # <<>>
        /\ messages' = [q \in Queues |->
              IF q = m.source THEN Tail(messages[q])
              ELSE IF q = TargetOf(m) /\ q \in live
              THEN Append(messages[q], Head(messages[m.source])) ELSE messages[q]]
        /\ tasks' = [tasks EXCEPT ![t] = CountMove(@)]
        /\ movers' = [movers EXCEPT ![t] = Advanced(@)]
        /\ UNCHANGED <<live, placed, disk, pid, unsaved, counters>>

\* Under the lock, one message moves.
MoveOne(t) ==
    LET m == movers[t]
        popped == [messages EXCEPT ![m.source] = Tail(@)]
    IN  /\ m.pc = "move"
        /\ m.source \in live /\ TargetOf(m) \in live /\ messages[m.source] # <<>>
        /\ messages' = [popped EXCEPT ![TargetOf(m)] = Append(@, Head(messages[m.source]))]
        /\ tasks' = [tasks EXCEPT ![t] = CountMove(@)]
        /\ movers' = [movers EXCEPT ![t] = Advanced(@)]
        /\ UNCHANGED <<live, placed, disk, pid, unsaved, counters>>

\* finalize_move_task takes the lock again.
FinalizeMoveTask(t) ==
    /\ movers[t].pc = "finalize"
    /\ tasks' = [tasks EXCEPT ![t] =
                    IF @.status = "Absent" THEN @ ELSE WithStatus(@, movers[t].outcome)]
    /\ movers' = [movers EXCEPT ![t] = Goto(@, IF @.save THEN "checkpoint" ELSE "none")]
    /\ UNCHANGED <<live, messages, placed, disk, pid, unsaved, counters>>

\* After a move the loop sleeps and goes on.
Checkpoint(t) ==
    /\ movers[t].pc = "checkpoint"
    /\ Save
    /\ movers' = [movers EXCEPT ![t] =
                     Goto(@, IF @.outcome = "Moved" THEN "check" ELSE "none")]
    /\ UNCHANGED <<state, pid, unsaved, counters>>

RunMessageMoveTask(t) ==
    CheckCancel(t) \/ FindNothing(t) \/ MoveOne(t) \/ FinalizeMoveTask(t) \/ Checkpoint(t)

-----------------------------------------------------------------------------
\* A task of the snapshot that another process was driving.
Orphaned(task, me) == task.status \in Active /\ task.driver_pid # me

\* What resume_message_move_tasks makes of a task and of its mover.
ResumedTask(task, me, existing) ==
    IF ~Orphaned(task, me) THEN task
    ELSE IF task.source \in existing THEN WithDriver(task, me)
    ELSE WithStatus(WithDriver(task, me), "Failed")

\* Mutants: the cancel flag starts afresh; no mover is spawned on load.
ResumedMoverUncancelled(task, me, existing) ==
    IF Orphaned(task, me) /\ task.source \in existing
    THEN Spawn(task.source, task.destination, DlqSources(task.source, existing), FALSE)
    ELSE NoMover

ResumedMoverNever(task, me, existing) == NoMover

ResumedMover(task, me, existing) ==
    IF Orphaned(task, me) /\ task.source \in existing
    THEN Spawn(task.source, task.destination, DlqSources(task.source, existing),
               task.status = "Cancelling")
    ELSE NoMover

\* The process dies with its movers and its unsaved calls.  The next one loads
\* the snapshot and resumes the orphaned tasks before it serves a call.
CrashRestart ==
    LET me == pid + PidStep
    IN  /\ crashes < MaxCrashes
        /\ crashes' = crashes + 1
        /\ pid' = me
        /\ live' = disk.live /\ messages' = disk.messages /\ placed' = disk.placed
        /\ tasks' = [t \in TaskIds |-> ResumedTask(disk.tasks[t], me, disk.live)]
        /\ movers' = [t \in TaskIds |-> ResumedMover(disk.tasks[t], me, disk.live)]
        /\ unsaved' = 0
        /\ UNCHANGED <<disk, sent, started, deletes, resets>>

Call ==
    \/ \E q \in Queues :
          \/ SendMessage(q) \/ DeleteQueue(q) \/ CreateQueue(q)
          \/ \E dest \in Dests : StartMessageMoveTask(q, dest) \/ StartWithoutRate(q, dest)
    \/ \E t \in TaskIds : CancelMessageMoveTask(t)

Next ==
    \/ Call \/ SaveCall \/ Reset \/ CrashRestart
    \/ \E t \in TaskIds : RunMessageMoveTask(t)

Spec == Init /\ [][Next]_vars

\* tokio runs every spawned mover, and its sleeps and saves end.
FairSpec == Spec /\ \A t \in TaskIds : WF_vars(RunMessageMoveTask(t))

-----------------------------------------------------------------------------
(* Properties. *)

\* The values of the variables.
TypeOK ==
    /\ live \subseteq Queues
    /\ messages \in [Queues -> Seq(Nat)]
    /\ tasks \in [TaskIds -> MessageMoveTask]
    /\ placed \subseteq Nat
    /\ disk \in [live : SUBSET Queues, messages : [Queues -> Seq(Nat)],
                 tasks : [TaskIds -> MessageMoveTask], placed : SUBSET Nat]
    /\ movers \in [TaskIds -> Mover]
    /\ pid \in Nat /\ unsaved \in Nat
    /\ sent \in Nat /\ started \in 0..MaxTasks
    /\ crashes \in Nat /\ deletes \in Nat /\ resets \in Nat

\* Each message of S is in the queues exactly once, and no other message is.
HoldExactly(queued, S) ==
    /\ \A q \in Queues : \A i \in DOMAIN queued[q] : queued[q][i] \in S
    /\ \A x \in S : \E q \in Queues : \E i \in DOMAIN queued[q] : queued[q][i] = x
    /\ \A p, q \in Queues : \A i \in DOMAIN queued[p], j \in DOMAIN queued[q] :
          queued[p][i] = queued[q][j] => p = q /\ i = j

\* Movers, crashes and restarts neither lose nor duplicate a message, in memory
\* or in any snapshot they save.
Conserved == HoldExactly(messages, placed) /\ HoldExactly(disk.messages, disk.placed)

\* The movers that may still take a message from src.
Draining(src) ==
    {t \in TaskIds :
        /\ movers[t].source = src
        /\ movers[t].pc \in {"check", "move"}
              \/ (movers[t].pc = "checkpoint" /\ movers[t].outcome = "Moved")}

\* No two movers drain one queue: not after a cancel whose mover is still
\* moving, not after a restart.
OneMover ==
    \A src \in Queues : \A t, u \in Draining(src) : t = u

\* A cancelled task moves at most the message of its current iteration, also
\* when the process dies after the cancel was saved.
CancelStopsMover == \A t \in TaskIds : tasks[t].late <= 1

\* A task that is running or being cancelled comes to an end: it completes, is
\* cancelled or fails (or is lost in a crash before it was ever saved).
EveryTaskEnds ==
    \A t \in TaskIds : tasks[t].status \in Active ~> tasks[t].status \notin Active
=============================================================================
