--------------------- MODULE SnapshotPersistenceProofs ---------------------
(* Theorems about SnapshotPersistence, for any sets of requests and         *)
(* deliveries and any number of crashes and failed saves.                   *)
EXTENDS SnapshotPersistence, TLAPS

\* The states in which a request holds snapshot_lock.
Holding == {"locked", "renamed", "failed"} \cup Saving

\* snapshot_lock is held by exactly the request that is between taking it and
\* answering: two handlers are never saving at once.
LockInv == \A r \in Requests : pc[r] \in Holding <=> lock = r

\* What a writer has put into its temporary file is what it cloned.
TmpInv ==
    \A w \in Writers :
        /\ pc[w] = "open" => tmp[w] = <<>>
        /\ pc[w] = "half" => tmp[w] = <<image[w]>>
        /\ pc[w] = "written" => tmp[w] = <<image[w], image[w]>>

\* Before the first delivery the flusher does not wake up.
FlusherIdle == pc[Flusher] = "idle" /\ dirty = FALSE

\* Nothing is on disk or in a clone that memory lacks; the clone of the lock
\* holder has everything that is on disk, because nobody else can have written
\* since it was made, and the holder's own mutation.
DurableInv ==
    /\ Loaded(file) \subseteq mem
    /\ \A r \in Requests :
          /\ pc[r] \in {"mutated", "locked"} => r \in mem
          /\ pc[r] \in Saving => /\ Loaded(file) \subseteq image[r]
                                 /\ r \in image[r]
                                 /\ image[r] \subseteq mem
          /\ pc[r] \in {"renamed", "ok"} => r \in Loaded(file)

-----------------------------------------------------------------------------
\* One- and two-chunk files are sequences of chunks.
LEMMA Chunks ==
    ASSUME NEW S, NEW a \in S, NEW b \in S
    PROVE  <<>> \in Seq(S) /\ <<a>> \in Seq(S) /\ <<a, b>> \in Seq(S)
  OBVIOUS

\* Images are closed under what the mutations do.
LEMMA ImageClosure ==
    /\ {} \in Images
    /\ \A m \in Images, o \in Ops : m \cup {o} \in Images
  BY DEF Images

\* The type invariant holds of every reachable state.
THEOREM TypeCorrect == Spec => []TypeOK
<1> USE DEF TypeOK, Writers, RequestStates, FlusherStates, DeliveryStates, Saving
<1>1. Init => TypeOK
  <2> SUFFICES ASSUME Init PROVE TypeOK
    OBVIOUS
  <2>1. file \in Seq(Images) /\ tmp \in [Writers -> Seq(Images)]
    BY Chunks DEF Init
  <2>2. crashes \in 0..MaxCrashes /\ failures \in 0..MaxFailures
    BY ConstantsAssumption DEF Init
  <2> QED
    BY <2>1, <2>2, ImageClosure DEF Init
<1>2. TypeOK /\ [Next]_vars => TypeOK'
  <2> SUFFICES ASSUME TypeOK, [Next]_vars PROVE TypeOK'
    OBVIOUS
  <2> USE ConstantsAssumption
  <2>1. ASSUME NEW r \in Requests, Mutate(r) PROVE TypeOK'
    BY <2>1, ImageClosure DEF Mutate, Ops
  <2>2. ASSUME NEW r \in Requests, LockSnapshot(r) PROVE TypeOK'
    BY <2>2 DEF LockSnapshot
  <2>3. ASSUME NEW r \in Requests, Answer(r) PROVE TypeOK'
    BY <2>3, ImageClosure DEF Answer
  <2>4. ASSUME NEW w \in Writers, Clone(w) PROVE TypeOK'
    BY <2>4 DEF Clone
  <2>5. ASSUME NEW w \in Writers, OpenTmp(w) PROVE TypeOK'
    BY <2>5 DEF OpenTmp, TmpPath
  <2>6. ASSUME NEW w \in Writers, WriteFirst(w) PROVE TypeOK'
    <3>1. (IF Len(tmp[w]) = 2 THEN <<image[w], tmp[w][2]>> ELSE <<image[w]>>)
          \in Seq(Images)
      OBVIOUS
    <3> QED BY <2>6, <3>1 DEF WriteFirst, TmpPath
  <2>7. ASSUME NEW w \in Writers, WriteSecond(w) PROVE TypeOK'
    <3>1. (IF tmp[w] = <<>> THEN <<{}, image[w]>> ELSE <<tmp[w][1], image[w]>>)
          \in Seq(Images)
      BY ImageClosure
    <3> QED BY <2>7, <3>1 DEF WriteSecond, TmpPath
  <2>8. ASSUME NEW w \in Writers, Rename(w) PROVE TypeOK'
    BY <2>8 DEF Rename, TmpPath
  <2>9. ASSUME NEW w \in Writers, SaveFails(w) PROVE TypeOK'
    BY <2>9 DEF SaveFails, TmpPath
  <2>10. ASSUME NEW d \in Deliveries, Push(d) PROVE TypeOK'
    BY <2>10, ImageClosure DEF Push, Ops
  <2>11. ASSUME NEW d \in Deliveries, MarkDirty(d) PROVE TypeOK'
    BY <2>11 DEF MarkDirty
  <2>12. CASE SwapDirty
    BY <2>12 DEF SwapDirty
  <2>13. CASE FlushEnds
    BY <2>13, ImageClosure DEF FlushEnds
  <2>14. CASE CrashRestart
    <3>1. Loaded(file) \in Images
      BY ImageClosure DEF Loaded
    <3>2. pc' \in [Writers -> RequestStates \cup FlusherStates]
      BY <2>14 DEF CrashRestart
    <3>3. pc'[Flusher] = "idle"
      BY <2>14 DEF CrashRestart
    <3>4. \A r \in Requests : pc'[r] \in RequestStates
      BY <2>14 DEF CrashRestart
    <3>5. /\ image' \in [Writers -> Images]
          /\ delivery' \in [Deliveries -> DeliveryStates]
          /\ mem' \in Images
          /\ crashes' \in 0..MaxCrashes
          /\ UNCHANGED <<file, tmp, failures>>
          /\ lock' = NoWriter /\ dirty' = FALSE
      BY <2>14, <3>1, ImageClosure DEF CrashRestart
    <3> QED BY <3>2, <3>3, <3>4, <3>5
  <2>15. CASE UNCHANGED vars
    BY <2>15 DEF vars
  <2> QED
    BY <2>1, <2>2, <2>3, <2>4, <2>5, <2>6, <2>7, <2>8, <2>9, <2>10, <2>11,
       <2>12, <2>13, <2>14, <2>15 DEF Next, Request, Save
<1> QED
  BY <1>1, <1>2, PTL DEF Spec

-----------------------------------------------------------------------------
\* Parsing: the temporary files are private, so what is renamed is whole.

\* A writer's temporary file holds its own clone, so the file stays whole.
LEMMA TmpInvariant == Spec => [](TmpInv /\ SnapshotParses)
<1>1. Init => TmpInv /\ SnapshotParses
  BY DEF Init, TmpInv, SnapshotParses
<1>2. TypeOK /\ TypeOK' /\ TmpInv /\ SnapshotParses /\ [Next]_vars
      => TmpInv' /\ SnapshotParses'
  <2> SUFFICES ASSUME TypeOK, TypeOK', TmpInv, SnapshotParses, [Next]_vars
               PROVE  TmpInv' /\ SnapshotParses'
    OBVIOUS
  <2> USE DEF TmpInv, SnapshotParses, TypeOK, TmpPath
  <2>1. ASSUME NEW w \in Writers, WriteFirst(w) PROVE TmpInv' /\ SnapshotParses'
    <3>1. tmp'[w] = <<image[w]>>
      BY <2>1 DEF WriteFirst
    <3> QED BY <2>1, <3>1 DEF WriteFirst
  <2>2. ASSUME NEW w \in Writers, WriteSecond(w) PROVE TmpInv' /\ SnapshotParses'
    <3>1. tmp[w] = <<image[w]>>
      BY <2>2 DEF WriteSecond
    <3>2. tmp[w] # <<>> /\ tmp[w][1] = image[w]
      BY <3>1
    <3>3. tmp'[w] = <<image[w], image[w]>>
      BY <2>2, <3>2 DEF WriteSecond
    <3> QED BY <2>2, <3>3 DEF WriteSecond
  <2>3. ASSUME NEW w \in Writers, Rename(w) PROVE TmpInv' /\ SnapshotParses'
    <3>1. file' = <<image[w], image[w]>>
      BY <2>3 DEF Rename
    <3>2. Whole(file')
      BY <3>1 DEF Whole
    <3> QED BY <2>3, <3>2 DEF Rename
  <2>4. ASSUME NEW r \in Requests, Request(r) PROVE TmpInv' /\ SnapshotParses'
    BY <2>4 DEF Request, Mutate, LockSnapshot, Answer, Writers
  <2>5. ASSUME NEW w \in Writers, Clone(w) \/ OpenTmp(w) \/ SaveFails(w)
        PROVE  TmpInv' /\ SnapshotParses'
    BY <2>5 DEF Clone, OpenTmp, SaveFails
  <2>6. ASSUME NEW d \in Deliveries, Push(d) \/ MarkDirty(d)
        PROVE  TmpInv' /\ SnapshotParses'
    BY <2>6 DEF Push, MarkDirty
  <2>7. CASE SwapDirty \/ FlushEnds
    BY <2>7 DEF SwapDirty, FlushEnds, Writers
  <2>8. CASE CrashRestart
    BY <2>8 DEF CrashRestart, Writers
  <2>9. CASE UNCHANGED vars
    BY <2>9 DEF vars
  <2> QED
    BY <2>1, <2>2, <2>3, <2>4, <2>5, <2>6, <2>7, <2>8, <2>9 DEF Next, Save
<1> QED
  BY <1>1, <1>2, TypeCorrect, PTL DEF Spec

\* One complete snapshot is on disk at all times: overlapping writers, failed
\* saves and crashes included.
THEOREM AlwaysParses == Spec => []SnapshotParses
  BY TmpInvariant, PTL

-----------------------------------------------------------------------------
(* Durability of what snapshot_lock protects: until the first cross-service *)
(* delivery every save is made under the lock.                              *)

LockedInv == LockInv /\ FlusherIdle /\ DurableInv

\* A step keeps the invariant and never takes a mutation off the disk.
LEMMA LockedStep ==
    ASSUME AllSavesLocked, TypeOK, TmpInv, SnapshotParses, LockedInv, [Next]_vars
    PROVE  (AllSavesLocked' => LockedInv') /\ Loaded(file) \subseteq Loaded(file')
<1> USE ConstantsAssumption DEF LockedInv, LockInv, FlusherIdle, DurableInv, TypeOK,
        Writers, Holding, Saving
<1>1. ASSUME NEW r \in Requests, Mutate(r)
      PROVE  LockedInv' /\ Loaded(file) \subseteq Loaded(file')
  BY <1>1 DEF Mutate
<1>2. ASSUME NEW r \in Requests, LockSnapshot(r)
      PROVE  LockedInv' /\ Loaded(file) \subseteq Loaded(file')
  BY <1>2 DEF LockSnapshot
<1>3. ASSUME NEW r \in Requests, Answer(r)
      PROVE  LockedInv' /\ Loaded(file) \subseteq Loaded(file')
  BY <1>3 DEF Answer
<1>4. ASSUME NEW w \in Writers, Clone(w)
      PROVE  LockedInv' /\ Loaded(file) \subseteq Loaded(file')
  BY <1>4 DEF Clone, ReadyToClone
<1>5. ASSUME NEW w \in Writers, OpenTmp(w) \/ WriteFirst(w) \/ WriteSecond(w) \/ SaveFails(w)
      PROVE  LockedInv' /\ Loaded(file) \subseteq Loaded(file')
  <2>1. w \in Requests
    BY <1>5 DEF OpenTmp, WriteFirst, WriteSecond, SaveFails
  <2>2. UNCHANGED <<mem, file, image, lock, dirty>>
    BY <1>5 DEF OpenTmp, WriteFirst, WriteSecond, SaveFails
  <2>3. /\ pc[w] \in Saving \cup {"renamed"}
        /\ \E s \in Saving \cup {"failed"} :
              pc' = [pc EXCEPT ![w] = s] /\ (pc[w] \in Saving \/ s = "failed")
    BY <1>5 DEF OpenTmp, WriteFirst, WriteSecond, SaveFails
  <2> QED BY <2>1, <2>2, <2>3
<1>6. ASSUME NEW w \in Writers, Rename(w)
      PROVE  LockedInv' /\ Loaded(file) \subseteq Loaded(file')
  <2>1. w \in Requests
    BY <1>6 DEF Rename
  <2>2. file' = <<image[w], image[w]>>
    BY <1>6 DEF Rename, TmpPath, TmpInv
  <2>3. Loaded(file') = image[w]
    BY <2>2 DEF Loaded
  <2>4. \A r \in Requests \ {w} : pc[r] \notin Holding
    BY <1>6, <2>1 DEF Rename
  <2>5. UNCHANGED <<mem, image, lock, dirty>> /\ pc' = [pc EXCEPT ![w] = "renamed"]
    BY <1>6 DEF Rename
  <2> QED BY <1>6, <2>1, <2>3, <2>4, <2>5 DEF Rename
<1>7. CASE SwapDirty \/ FlushEnds
  BY <1>7 DEF SwapDirty, FlushEnds
<1>8. CASE CrashRestart
  <2>1. \A r \in Requests :
           /\ pc'[r] \in {"idle", "ok", "unsaved", "aborted"}
           /\ pc'[r] = "ok" => pc[r] = "ok"
    BY <1>8 DEF CrashRestart
  <2>2. FlusherIdle'
    BY <1>8 DEF CrashRestart
  <2>3. mem' = Loaded(file) /\ lock' = NoWriter /\ file' = file
    BY <1>8 DEF CrashRestart
  <2> QED BY <2>1, <2>2, <2>3
<1>9. CASE UNCHANGED vars
  BY <1>9 DEF vars
<1>10. ASSUME NEW d \in Deliveries, Push(d) \/ MarkDirty(d)
       PROVE  ~AllSavesLocked' /\ Loaded(file) \subseteq Loaded(file')
  BY <1>10 DEF Push, MarkDirty, AllSavesLocked
<1> QED
  BY <1>1, <1>2, <1>3, <1>4, <1>5, <1>6, <1>7, <1>8, <1>9, <1>10 DEF Next, Request, Save

\* The lock discipline alone makes answered requests durable and the file
\* monotonic, for any number of concurrent requests, failed saves and crashes.
THEOREM LockedDurable == Spec => []AckedDurable /\ NewestStateWins
<1> DEFINE Inv == AllSavesLocked => LockedInv
<1>1. Init => Inv
  BY ConstantsAssumption
     DEF Init, LockedInv, LockInv, FlusherIdle, DurableInv, Loaded, Writers, Holding, Saving
<1>2. TypeOK /\ [Next]_vars => (AllSavesLocked' => AllSavesLocked)
  <2> SUFFICES ASSUME TypeOK, [Next]_vars, AllSavesLocked',
                      NEW d \in Deliveries
               PROVE  delivery[d] = "idle"
    BY DEF AllSavesLocked
  <2>1. delivery'[d] = "idle"
    BY DEF AllSavesLocked
  <2> QED
    BY <2>1 DEF TypeOK, Next, Request, Save, Mutate, LockSnapshot, Answer, Clone, OpenTmp,
       WriteFirst, WriteSecond, Rename, SaveFails, Push, MarkDirty, SwapDirty, FlushEnds,
       CrashRestart, vars
<1>3. TypeOK /\ TmpInv /\ SnapshotParses /\ Inv /\ [Next]_vars => Inv'
  BY <1>2, LockedStep
<1>4. Inv => AckedDurable
  BY DEF LockedInv, DurableInv, AckedDurable
<1>5. TypeOK /\ TmpInv /\ SnapshotParses /\ Inv /\ [Next]_vars
      => [AllSavesLocked => Loaded(file) \subseteq Loaded(file')]_vars
  BY LockedStep
<1> HIDE DEF Inv
<1>6. Spec => []Inv
  BY <1>1, <1>3, TypeCorrect, TmpInvariant, PTL DEF Spec
<1> QED
  BY <1>4, <1>5, <1>6, TypeCorrect, TmpInvariant, PTL DEF Spec, NewestStateWins
=============================================================================
