------------------------ MODULE SnapshotPersistence ------------------------
(***************************************************************************)
(* How the SQS service keeps its state on disk.  Every mutating API call    *)
(* changes the in-memory state, then saves a snapshot of the whole state    *)
(* under `snapshot_lock` and only then answers.  Deliveries from other      *)
(* services (SNS, EventBridge, S3, Scheduler) change the same state without *)
(* saving: they raise a `dirty` flag that a background flusher polls.  A    *)
(* snapshot is written to a temporary file of its own and renamed over the  *)
(* snapshot file.                                                           *)
(*                                                                          *)
(* The state is abstracted to the set of mutations it contains, which is    *)
(* what durability is about.  The bytes of a file are two chunks, because   *)
(* write_all may need several system calls.                                 *)
(***************************************************************************)
EXTENDS Naturals, Sequences

CONSTANTS
    Requests,      \* mutating API calls, each made once
    Deliveries,    \* cross-service deliveries, each made once
    Flusher,       \* the background task run_delivery_flusher
    NoWriter,      \* the value of snapshot_lock when nobody holds it
    MaxCrashes,    \* bound: crashes followed by a restart
    MaxFailures    \* bound: saves that fail with an I/O error

ASSUME ConstantsAssumption ==
    /\ Flusher \notin Requests
    /\ NoWriter \notin Requests
    /\ Requests \cap Deliveries = {}
    /\ MaxCrashes \in Nat
    /\ MaxFailures \in Nat

Writers == Requests \cup {Flusher}
Ops == Requests \cup Deliveries
Images == SUBSET Ops

VARIABLES
    mem,        \* the mutations in the in-memory state (SharedSqsState)
    file,       \* the chunks of the snapshot file; <<>> before the first save
    tmp,        \* the chunks of each writer's temporary file
    image,      \* the state each writer cloned to serialize
    pc,         \* where each request, and the flusher, is
    lock,       \* holder of snapshot_lock
    dirty,      \* the flag deliveries raise for the flusher
    delivery,   \* where each cross-service delivery is
    crashes, failures

vars == <<mem, file, tmp, image, pc, lock, dirty, delivery, crashes, failures>>

Saving == {"cloned", "open", "half", "written"}

\* A request is answered "ok" after a successful save and "unsaved" after a
\* failed one (the failure is only logged); "aborted" when the process died.
RequestStates == {"idle", "mutated", "locked", "renamed", "failed",
                  "ok", "unsaved", "aborted"} \cup Saving
FlusherStates == {"idle", "swapped", "renamed", "failed"} \cup Saving
DeliveryStates == {"idle", "pushed", "marked", "aborted"}

\* A file parses when it is complete and its chunks are of one snapshot.
Whole(f) == Len(f) = 2 /\ f[1] = f[2]

\* The state a start-up reads: nothing on disk is an empty state.
Loaded(f) == IF f = <<>> THEN {} ELSE f[1]

Init ==
    /\ mem = {} /\ file = <<>>
    /\ tmp = [w \in Writers |-> <<>>]
    /\ image = [w \in Writers |-> {}]
    /\ pc = [w \in Writers |-> "idle"]
    /\ lock = NoWriter
    /\ dirty = FALSE
    /\ delivery = [d \in Deliveries |-> "idle"]
    /\ crashes = 0 /\ failures = 0

-----------------------------------------------------------------------------
(* The request handler. *)

\* The operation itself, under the state's write lock.
Mutate(r) ==
    /\ pc[r] = "idle"
    /\ mem' = mem \cup {r}
    /\ pc' = [pc EXCEPT ![r] = "mutated"]
    /\ UNCHANGED <<file, tmp, image, lock, dirty, delivery, crashes, failures>>

\* Mutant of LockSnapshot: the lock is not waited for.
LockSnapshotNoWait(r) ==
    /\ pc[r] = "mutated"
    /\ lock' = r
    /\ pc' = [pc EXCEPT ![r] = "locked"]
    /\ UNCHANGED <<mem, file, tmp, image, dirty, delivery, crashes, failures>>

\* save_sqs_snapshot: take snapshot_lock ...
LockSnapshot(r) ==
    /\ pc[r] = "mutated"
    /\ lock = NoWriter
    /\ lock' = r
    /\ pc' = [pc EXCEPT ![r] = "locked"]
    /\ UNCHANGED <<mem, file, tmp, image, dirty, delivery, crashes, failures>>

\* Mutant of Answer: the guard is leaked, so the lock is never released.
AnswerHoldingLock(r) ==
    /\ pc[r] \in {"renamed", "failed"}
    /\ pc' = [pc EXCEPT ![r] = IF @ = "renamed" THEN "ok" ELSE "unsaved"]
    /\ image' = [image EXCEPT ![r] = {}]
    /\ UNCHANGED <<mem, file, tmp, lock, dirty, delivery, crashes, failures>>

\* ... and, after the save, drop it and answer: a failed save is only logged.
Answer(r) ==
    /\ pc[r] \in {"renamed", "failed"}
    /\ lock' = NoWriter
    /\ pc' = [pc EXCEPT ![r] = IF @ = "renamed" THEN "ok" ELSE "unsaved"]
    /\ image' = [image EXCEPT ![r] = {}]
    /\ UNCHANGED <<mem, file, tmp, dirty, delivery, crashes, failures>>

-----------------------------------------------------------------------------
(* Saving: shared by save_sqs_snapshot and persist_sqs_state.  The second   *)
(* takes no lock: it clones as soon as the flusher has swapped the flag.    *)

ReadyToClone == [w \in Writers |-> IF w = Flusher THEN "swapped" ELSE "locked"]

\* state.read().clone(): the image the bytes are made of.
Clone(w) ==
    /\ pc[w] = ReadyToClone[w]
    /\ image' = [image EXCEPT ![w] = mem]
    /\ pc' = [pc EXCEPT ![w] = "cloned"]
    /\ UNCHANGED <<mem, file, tmp, lock, dirty, delivery, crashes, failures>>

\* Mutant of TmpPath: a fixed `<path>.tmp` for every writer.
FixedTmpPath(w) == Flusher

\* tmp_path: process id and a counter make every temporary name distinct.
TmpPath(w) == w

\* Open the temporary file, truncating it.
OpenTmp(w) ==
    /\ pc[w] = "cloned"
    /\ tmp' = [tmp EXCEPT ![TmpPath(w)] = <<>>]
    /\ pc' = [pc EXCEPT ![w] = "open"]
    /\ UNCHANGED <<mem, file, image, lock, dirty, delivery, crashes, failures>>

\* write_all, one chunk at a time, each at the writer's own offset.
WriteFirst(w) ==
    /\ pc[w] = "open"
    /\ tmp' = [tmp EXCEPT ![TmpPath(w)] =
                  IF Len(@) = 2 THEN <<image[w], @[2]>> ELSE <<image[w]>>]
    /\ pc' = [pc EXCEPT ![w] = "half"]
    /\ UNCHANGED <<mem, file, image, lock, dirty, delivery, crashes, failures>>

WriteSecond(w) ==
    /\ pc[w] = "half"
    /\ tmp' = [tmp EXCEPT ![TmpPath(w)] =
                  IF @ = <<>> THEN <<{}, image[w]>> ELSE <<@[1], image[w]>>]
    /\ pc' = [pc EXCEPT ![w] = "written"]
    /\ UNCHANGED <<mem, file, image, lock, dirty, delivery, crashes, failures>>

\* rename over the snapshot file: atomic, and the temporary name is gone.
Rename(w) ==
    /\ pc[w] = "written"
    /\ file' = tmp[TmpPath(w)]
    /\ tmp' = [tmp EXCEPT ![TmpPath(w)] = <<>>]
    /\ pc' = [pc EXCEPT ![w] = "renamed"]
    /\ UNCHANGED <<mem, image, lock, dirty, delivery, crashes, failures>>

\* Any I/O error on the way: the temporary file is removed.  The last step,
\* fsync_parent, may fail with the new file in place.
SaveFails(w) ==
    /\ pc[w] \in Saving \cup {"renamed"}
    /\ failures < MaxFailures
    /\ failures' = failures + 1
    /\ tmp' = [tmp EXCEPT ![TmpPath(w)] = <<>>]
    /\ pc' = [pc EXCEPT ![w] = "failed"]
    /\ UNCHANGED <<mem, file, image, lock, dirty, delivery, crashes>>

-----------------------------------------------------------------------------
(* Cross-service deliveries and their flusher. *)

\* try_deliver_to_queue_with_attrs pushes the message and drops the lock ...
Push(d) ==
    /\ delivery[d] = "idle"
    /\ mem' = mem \cup {d}
    /\ delivery' = [delivery EXCEPT ![d] = "pushed"]
    /\ UNCHANGED <<file, tmp, image, pc, lock, dirty, crashes, failures>>

\* ... and only then marks the state dirty.
MarkDirty(d) ==
    /\ delivery[d] = "pushed"
    /\ dirty' = TRUE
    /\ delivery' = [delivery EXCEPT ![d] = "marked"]
    /\ UNCHANGED <<mem, file, tmp, image, pc, lock, crashes, failures>>

\* A tick of the flusher: dirty.swap(false), before anything is read.
SwapDirty ==
    /\ pc[Flusher] = "idle"
    /\ dirty
    /\ dirty' = FALSE
    /\ pc' = [pc EXCEPT ![Flusher] = "swapped"]
    /\ UNCHANGED <<mem, file, tmp, image, lock, delivery, crashes, failures>>

\* Mutant of FlushEnds: the flag is cleared after the save instead of before.
FlushEndsClearing ==
    /\ pc[Flusher] \in {"renamed", "failed"}
    /\ dirty' = (pc[Flusher] = "failed")
    /\ pc' = [pc EXCEPT ![Flusher] = "idle"]
    /\ image' = [image EXCEPT ![Flusher] = {}]
    /\ UNCHANGED <<mem, file, tmp, lock, delivery, crashes, failures>>

\* The flush is over; a failed one raises the flag again.
FlushEnds ==
    /\ pc[Flusher] \in {"renamed", "failed"}
    /\ dirty' = (dirty \/ pc[Flusher] = "failed")
    /\ pc' = [pc EXCEPT ![Flusher] = "idle"]
    /\ image' = [image EXCEPT ![Flusher] = {}]
    /\ UNCHANGED <<mem, file, tmp, lock, delivery, crashes, failures>>

-----------------------------------------------------------------------------
\* Mutant of CrashRestart: the flusher is not started again.
CrashRestartNoFlusher ==
    /\ crashes < MaxCrashes
    /\ crashes' = crashes + 1
    /\ file = <<>> \/ Whole(file)
    /\ mem' = Loaded(file)
    /\ pc' = [w \in Writers |->
                 IF pc[w] \in {"idle", "ok", "unsaved"} THEN pc[w] ELSE "aborted"]
    /\ image' = [w \in Writers |-> {}]
    /\ lock' = NoWriter
    /\ dirty' = FALSE
    /\ delivery' = [d \in Deliveries |->
                       IF delivery[d] = "idle" THEN "idle" ELSE "aborted"]
    /\ UNCHANGED <<file, tmp, failures>>

\* The process dies and is started again: memory is what the file holds.  An
\* unparsable file is fatal: there is no restart.  Temporary files stay
\* behind, and nothing reads them.
CrashRestart ==
    /\ crashes < MaxCrashes
    /\ crashes' = crashes + 1
    /\ file = <<>> \/ Whole(file)
    /\ mem' = Loaded(file)
    /\ pc' = [w \in Writers |->
                 IF w = Flusher THEN "idle"
                 ELSE IF pc[w] \in {"idle", "ok", "unsaved"} THEN pc[w]
                 ELSE "aborted"]
    /\ image' = [w \in Writers |-> {}]
    /\ lock' = NoWriter
    /\ dirty' = FALSE
    /\ delivery' = [d \in Deliveries |->
                       IF delivery[d] = "idle" THEN "idle" ELSE "aborted"]
    /\ UNCHANGED <<file, tmp, failures>>

Save(w) == Clone(w) \/ OpenTmp(w) \/ WriteFirst(w) \/ WriteSecond(w) \/ Rename(w)

Request(r) == Mutate(r) \/ LockSnapshot(r) \/ Answer(r)

Next ==
    \/ \E r \in Requests : Request(r)
    \/ \E w \in Writers : Save(w) \/ SaveFails(w)
    \/ \E d \in Deliveries : Push(d) \/ MarkDirty(d)
    \/ SwapDirty \/ FlushEnds
    \/ CrashRestart

\* Handlers and the flusher are tasks of a multi-threaded runtime: each makes
\* progress, and the lock is a fair (FIFO) mutex.
Fairness ==
    /\ \A r \in Requests : WF_vars(Answer(r)) /\ SF_vars(LockSnapshot(r))
    /\ \A w \in Writers : WF_vars(Save(w))
    /\ \A d \in Deliveries : WF_vars(MarkDirty(d))
    /\ WF_vars(SwapDirty) /\ WF_vars(FlushEnds)

Spec == Init /\ [][Next]_vars
FairSpec == Spec /\ Fairness

-----------------------------------------------------------------------------
(* Properties. *)

\* The values of the variables: what the handler, the flusher and the store of
\* the snapshot keep between two of their steps.
TypeOK ==
    /\ mem \in Images
    /\ file \in Seq(Images)
    /\ tmp \in [Writers -> Seq(Images)]
    /\ image \in [Writers -> Images]
    /\ pc \in [Writers -> RequestStates \cup FlusherStates]
    /\ pc[Flusher] \in FlusherStates
    /\ \A r \in Requests : pc[r] \in RequestStates
    /\ lock \in Requests \cup {NoWriter}
    /\ dirty \in BOOLEAN
    /\ delivery \in [Deliveries -> DeliveryStates]
    /\ crashes \in 0..MaxCrashes /\ failures \in 0..MaxFailures

\* No cross-service delivery has been made: every save so far was under
\* snapshot_lock.
AllSavesLocked == \A d \in Deliveries : delivery[d] = "idle"

\* A request answered after a successful save (SqsService::handle saves before
\* it returns) is on disk from then on, as long as all saves are made under
\* snapshot_lock: no later save, failed save or crash takes it away.
AckedDurable ==
    AllSavesLocked => \A r \in Requests : pc[r] = "ok" => r \in Loaded(file)

\* The snapshot file is always one complete snapshot, whatever writers are
\* interrupted or overlap (write_atomic_bytes): a restart can parse it.
SnapshotParses == file = <<>> \/ Whole(file)

\* "the newest observed state always wins on disk": a save under snapshot_lock
\* never replaces a snapshot by one that lacks a mutation the old one has.
NewestStateWins == [][AllSavesLocked => Loaded(file) \subseteq Loaded(file')]_vars

\* Every delivery is written at least once unless the process dies first, also
\* when its flush fails or it arrives during one (run_delivery_flusher); API
\* calls that save meanwhile do not take the flush away.
DeliveryFlushed ==
    \A d \in Deliveries :
        delivery[d] = "pushed" ~> (d \in Loaded(file) \/ delivery[d] = "aborted")

\* Every request that changed the state is answered, unless the process dies:
\* nobody keeps snapshot_lock.
RequestAnswered ==
    \A r \in Requests : pc[r] = "mutated" ~> pc[r] \in {"ok", "unsaved", "aborted"}

=============================================================================
